---------------------------- MODULE StatsProofs ----------------------------
(***************************************************************************)
(* Proofs about Stats, for any number of threads and processes, any        *)
(* iterations, composites and targets, and any number of stats commands.   *)
(***************************************************************************)
EXTENDS Stats, FiniteSetTheorems, TLAPS

-----------------------------------------------------------------------------
(* Sums over finite sets.                                                  *)

\* The units of one element are as many as the value there.
LEMMA UnitsOfOne ==
  ASSUME NEW x, NEW n \in Nat
  PROVE  IsFiniteSet({x} \X (1..n)) /\ Cardinality({x} \X (1..n)) = n
  <1>1. IsFiniteSet(1..n) /\ Cardinality(1..n) = n
    BY FS_Interval
  <1>2. IsFiniteSet({x}) /\ Cardinality({x}) = 1
    BY FS_Singleton
  <1>3. /\ IsFiniteSet({x} \X (1..n))
        /\ Cardinality({x} \X (1..n)) = Cardinality({x}) * Cardinality(1..n)
    BY <1>1, <1>2, FS_Product
  <1> QED
    BY <1>1, <1>2, <1>3

\* A sum over a finite set is a natural number.
LEMMA TotalType ==
  ASSUME NEW S, IsFiniteSet(S), NEW f, \A x \in S : f[x] \in Nat
  PROVE  IsFiniteSet(Units(f, S)) /\ Total(f, S) \in Nat
  <1> DEFINE Parts == {{x} \X (1..f[x]) : x \in S}
             part == [x \in S |-> {x} \X (1..f[x])]
  <1>1. part \in Surjection(S, Parts)
    BY DEF Surjection
  <1>2. IsFiniteSet(Parts)
    BY <1>1, FS_Surjection
  <1>3. \A x \in S : IsFiniteSet({x} \X (1..f[x]))
    BY UnitsOfOne
  <1>4. IsFiniteSet(UNION Parts)
    BY <1>2, <1>3, FS_UNION, Zenon
  <1> QED
    BY <1>4, FS_CardinalityType DEF Units, Total

\* The sum over nothing is 0.
LEMMA TotalEmpty ==
  ASSUME NEW f
  PROVE  Total(f, {}) = 0
  <1>1. Units(f, {}) = {}
    BY DEF Units
  <1> QED
    BY <1>1, FS_EmptySet DEF Total

\* An element adds its value.
LEMMA TotalAdd ==
  ASSUME NEW S, IsFiniteSet(S), NEW f, NEW y, y \notin S,
         \A x \in S \cup {y} : f[x] \in Nat
  PROVE  Total(f, S \cup {y}) = Total(f, S) + f[y]
  <1> DEFINE One == {y} \X (1..f[y])
  <1>1. Units(f, S \cup {y}) = Units(f, S) \cup One
    BY DEF Units
  <1>2. Units(f, S) \cap One = {}
    BY DEF Units
  <1>3. IsFiniteSet(Units(f, S)) /\ Total(f, S) \in Nat
    BY TotalType
  <1>4. IsFiniteSet(One) /\ Cardinality(One) = f[y]
    BY UnitsOfOne
  <1>5. Cardinality(Units(f, S) \cup One)
          = Cardinality(Units(f, S)) + Cardinality(One) - Cardinality(Units(f, S) \cap One)
    BY <1>3, <1>4, FS_Union
  <1>6. Cardinality(Units(f, S) \cap One) = 0
    BY <1>2, FS_EmptySet
  <1>7. f[y] \in Nat /\ Cardinality(Units(f, S)) \in Nat
    BY <1>3 DEF Total
  <1>8. Cardinality(Units(f, S) \cup One) = Cardinality(Units(f, S)) + f[y]
    BY <1>4, <1>5, <1>6, <1>7
  <1> QED
    BY <1>1, <1>8 DEF Total

\* So an element that leaves takes its value away.
LEMMA TotalRemove ==
  ASSUME NEW S, IsFiniteSet(S), NEW f, NEW y \in S, \A x \in S : f[x] \in Nat
  PROVE  Total(f, S \ {y}) = Total(f, S) - f[y]
  <1>1. IsFiniteSet(S \ {y})
    BY FS_RemoveElement
  <1>2. (S \ {y}) \cup {y} = S
    OBVIOUS
  <1>3. Total(f, S) = Total(f, S \ {y}) + f[y]
    BY <1>1, <1>2, TotalAdd
  <1>4. Total(f, S \ {y}) \in Nat
    BY <1>1, TotalType
  <1> QED
    BY <1>3, <1>4

\* Sums are monotone, in the function and in the set.
LEMMA TotalMonotone ==
  ASSUME NEW S, IsFiniteSet(S), NEW R \in SUBSET S, NEW f, NEW g,
         \A x \in S : g[x] \in Nat,
         \A x \in R : f[x] \in Nat /\ f[x] <= g[x]
  PROVE  Total(f, R) <= Total(g, S)
  <1>1. Units(f, R) \subseteq Units(g, S)
    <2> SUFFICES ASSUME NEW x \in R, NEW i \in 1..f[x] PROVE <<x, i>> \in Units(g, S)
      BY DEF Units
    <2>1. i \in 1..g[x]
      OBVIOUS
    <2> QED
      BY <2>1 DEF Units
  <1>2. IsFiniteSet(Units(g, S))
    BY TotalType
  <1> QED
    BY <1>1, <1>2, FS_Subset DEF Total

\* Functions that agree have the same sum.
LEMMA TotalSame ==
  ASSUME NEW S, NEW f, NEW g, \A x \in S : f[x] = g[x]
  PROVE  Total(f, S) = Total(g, S)
  <1>1. Units(f, S) = Units(g, S)
    BY DEF Units
  <1> QED
    BY <1>1 DEF Total

\* When one value changes the sum changes by as much.
LEMMA TotalUpdate ==
  ASSUME NEW S, IsFiniteSet(S), NEW f, NEW g, NEW y \in S,
         \A x \in S : f[x] \in Nat /\ g[x] \in Nat,
         \A x \in S \ {y} : f[x] = g[x]
  PROVE  Total(g, S) = Total(f, S) - f[y] + g[y]
  <1>1. Total(f, S \ {y}) = Total(f, S) - f[y]
    BY TotalRemove
  <1>2. Total(g, S \ {y}) = Total(g, S) - g[y]
    BY TotalRemove
  <1>3. Total(f, S \ {y}) = Total(g, S \ {y})
    BY TotalSame
  <1>4. Total(f, S) \in Nat /\ Total(g, S) \in Nat
    BY TotalType
  <1> QED
    BY <1>1, <1>2, <1>3, <1>4

-----------------------------------------------------------------------------
(* The invariants.                                                         *)

Places == {"top", "composite", "io", "endop", "finish", "judge", "leave", "left"}

\* Types of all variables.
TypeOK ==
  /\ kind \in [by : {"count", "bytes"}, targeted : SUBSET Threads]
  /\ pc \in [Threads -> Places] /\ left \in [Threads -> Nat]
  /\ reg \in [Threads -> Nat] /\ fo_stats \in [Threads -> Nat] /\ deleted \subseteq Threads
  /\ controlstats \in [{Proc[t] : t \in Threads} -> [count : Nat, bytes : Nat]]
  /\ shm_f_abort \in {"no", "done", "error"} /\ shm_bequiet \in BOOLEAN
  /\ mpc \in {"idle", "clear", "snap", "roll"} /\ cursor \in 0..NThreads
  /\ globalstats \in Nat \cup {-1} /\ master \in Nat /\ cmds \in Nat
  /\ since \in [Threads -> Nat] /\ atSnap \in [Threads -> Nat]
  /\ low \in Nat /\ high \in Nat /\ hit \subseteq Threads

\* A thread never has more iterations left than its flowop has, and has one left
\* whenever it is in the flowop.
Iterating ==
  \A t \in Threads :
    /\ left[t] <= Iters[t]
    /\ pc[t] \in {"composite", "io", "endop"} => left[t] > 0

\* The operations a thread may still count before it is at the top of its loop.
Todo(t) == IF pc[t] \in {"composite", "io", "endop"} THEN left[t] ELSE 0

\* Threads are told to be quiet during a snapshot, and no thread that was at the
\* top of its loop begins a flowop.
Frozen ==
  /\ shm_bequiet <=> mpc \in {"snap", "roll"}
  /\ mpc \in {"snap", "roll"} =>
       \A t \in Threads : since[t] - atSnap[t] + Todo(t) <= Iters[t]

\* Every operation of a process transfers bytes, or none.
BytesCounted == \A p \in DOMAIN controlstats : controlstats[p].bytes <= controlstats[p].count

Value(t) == controlstats[Proc[t]][kind.by]

\* The operations a thread may still count if its finish flowop finds the limit
\* reached when it is next called.
Rem(t) ==
  IF pc[t] \in {"top", "composite", "io", "endop"} THEN left[t]
  ELSE IF \/ pc[t] = "finish" /\ ~Enough(Value(t))
          \/ pc[t] = "judge" /\ ~Enough(reg[t])
  THEN Iters[t]
  ELSE 0

Own(p) == {t \in Threads : Proc[t] = p}

\* What a process has transferred, and may still transfer.
Bounded ==
  \A p \in DOMAIN controlstats :
    Own(p) \cap kind.targeted = {} =>
      controlstats[p].bytes + Total([t \in Threads |-> Rem(t)], Own(p))
        <= Limit + Total(Iters, Own(p))

\* A counter is what has been counted since it was cleared, unless it was cleared
\* in the middle of an increment; then it may be more.
Counters ==
  \A t \in Threads :
    /\ since[t] <= fo_stats[t]
    /\ pc[t] = "endop" => since[t] <= reg[t]
    /\ t \notin hit => fo_stats[t] = since[t] /\ (pc[t] = "endop" => reg[t] = since[t])

\* Threads whose flowop the snapshot has added to the totals, or to the FLOW_MASTER.
Summed == {t \in Threads : t > cursor \/ (mpc = "roll" /\ t = cursor)}
Rolled == {t \in Threads : t > cursor}

\* A report is bounded at every point of a snapshot.
Reporting ==
  /\ mpc \in {"snap", "roll"} =>
       /\ globalstats # -1
       /\ \A t \in Threads : atSnap[t] <= since[t]
       /\ low + Total(atSnap, Summed \ deleted) <= globalstats
       /\ low + Total(atSnap, Rolled \ deleted) <= master
       /\ hit = {} => /\ globalstats <= high + Total(since, Summed)
                      /\ master <= high + Total(since, Rolled)
  /\ mpc = "roll" => cursor > 0
  /\ mpc = "clear" => low = 0 /\ high = 0 /\ globalstats = 0
  /\ mpc = "idle" =>
       /\ globalstats # -1 => low <= globalstats
       /\ low <= master
       /\ hit = {} => master <= high /\ globalstats <= high

IInv ==
  TypeOK /\ Iterating /\ Frozen /\ BytesCounted /\ Bounded /\ Counters /\ Reporting
-----------------------------------------------------------------------------
(* Facts about the operators.                                              *)

\* A set of numbers with a bound has a greatest member: of the intervals from a
\* member up to the bound one is contained in no other.
LEMMA MaxFacts ==
  ASSUME NEW n \in Nat, NEW T \in SUBSET (0..n), T # {}
  PROVE  Max(T) \in T /\ \A y \in T : y <= Max(T)
  <1> DEFINE U == 0..n
             Up == {a..n : a \in T}
  <1>1. IsFiniteSet(U)
    BY FS_Interval
  <1>2. IsWellFoundedOn(StrictSubsetOrdering(U), SUBSET U)
    BY <1>1, FS_StrictSubsetOrderingWellFounded, FS_FiniteSubsetsOfFinite
  <1>3. Up \subseteq SUBSET U /\ Up # {}
    <2>1. \A a \in T : a..n \subseteq U
      OBVIOUS
    <2>2. Up \subseteq SUBSET U
      BY <2>1, Zenon
    <2>3. Up # {}
      BY Zenon
    <2> QED
      BY <2>2, <2>3
  <1>4. PICK x \in Up : \A y \in Up : ~(<<y, x>> \in StrictSubsetOrdering(U))
    BY <1>2, <1>3, WFMin
  <1>5. PICK a \in T : x = a..n
    BY <1>4
  <1>6. ASSUME NEW b \in T, b > a PROVE FALSE
    <2>1. b..n \in Up /\ b..n \in SUBSET U /\ a..n \in SUBSET U
      OBVIOUS
    <2>2. b..n \subseteq a..n /\ b..n # a..n
      BY <1>6
    <2>3. <<b..n, a..n>> \in StrictSubsetOrdering(U)
      BY <2>1, <2>2 DEF StrictSubsetOrdering
    <2> QED
      BY <1>4, <1>5, <2>1, <2>3
  <1>7. a \in T /\ \A y \in T : a >= y
    BY <1>6
  <1> QED
    BY <1>7 DEF Max

\* The walk goes to the next flowop that is there, and passes over none.
LEMMA NextFlowopFacts ==
  ASSUME NEW c \in 1..(NThreads + 1)
  PROVE  /\ NextFlowop(c) \in 0..NThreads /\ NextFlowop(c) < c
         /\ \A t \in Threads \ deleted : t < c => t <= NextFlowop(c)
  <1> DEFINE T == {0} \cup {t \in 1..(c - 1) : t \notin deleted}
  <1>0. NThreads \in Nat
    BY StatsAssumption
  <1>1. T \in SUBSET (0..NThreads) /\ T # {} /\ \A y \in T : y < c
    BY <1>0
  <1>2. Max(T) \in T /\ \A y \in T : y <= Max(T)
    BY <1>0, <1>1, MaxFacts
  <1>3. NextFlowop(c) = Max(T)
    BY DEF NextFlowop
  <1>4. \A t \in Threads \ deleted : t < c => t \in T
    BY <1>0 DEF Threads
  <1> HIDE DEF T
  <1> QED
    BY <1>0, <1>1, <1>2, <1>3, <1>4

\* First is the last flowop that is there.
LEMMA FirstFacts ==
  First \in 0..NThreads /\ \A t \in Threads \ deleted : t <= First
  <1>1. NThreads \in Nat /\ NThreads + 1 \in 1..(NThreads + 1)
    BY StatsAssumption
  <1> QED
    BY <1>1, NextFlowopFacts DEF First, Threads

\* There are finitely many threads, and sums over them are numbers.
LEMMA ThreadFacts ==
  ASSUME NEW S \in SUBSET Threads
  PROVE  /\ IsFiniteSet(S)
         /\ \A f \in [Threads -> Nat] : Total(f, S) \in Nat /\ \A t \in S : f[t] \in Nat
         /\ Iters \in [Threads -> Nat]
  <1>1. IsFiniteSet(Threads)
    BY StatsAssumption, FS_Interval DEF Threads
  <1>2. IsFiniteSet(S)
    BY <1>1, FS_Subset
  <1>3. \A f \in [Threads -> Nat] : \A t \in S : f[t] \in Nat
    OBVIOUS
  <1>4. \A f \in [Threads -> Nat] : Total(f, S) \in Nat
    BY <1>2, <1>3, TotalType
  <1> QED
    BY <1>2, <1>3, <1>4, StatsAssumption

\* Sums over threads grow with the function and with the set.
LEMMA ThreadTotals ==
  ASSUME NEW S \in SUBSET Threads, NEW R \in SUBSET S,
         NEW f \in [Threads -> Nat], NEW g \in [Threads -> Nat],
         \A t \in R : f[t] <= g[t]
  PROVE  Total(f, R) <= Total(g, S)
  <1>1. IsFiniteSet(S) /\ (\A t \in S : g[t] \in Nat) /\ (\A t \in R : f[t] \in Nat)
    BY ThreadFacts
  <1> QED
    BY <1>1, TotalMonotone

\* What a thread may still count is a number, and at most one round.
LEMMA RemFacts ==
  ASSUME TypeOK, Iterating
  PROVE  /\ [t \in Threads |-> Rem(t)] \in [Threads -> Nat]
         /\ \A t \in Threads : Rem(t) \in Nat /\ Rem(t) <= Iters[t]
  <1>1. Iters \in [Threads -> Nat]
    BY StatsAssumption
  <1>2. \A t \in Threads : Rem(t) \in Nat /\ Rem(t) <= Iters[t]
    BY <1>1 DEF Rem, TypeOK, Iterating
  <1> QED
    BY <1>2

\* The same after a step.
LEMMA RemFactsNext ==
  ASSUME TypeOK', Iterating'
  PROVE  /\ [t \in Threads |-> Rem(t)]' \in [Threads -> Nat]
         /\ \A t \in Threads : Rem(t)' \in Nat /\ Rem(t)' <= Iters[t]
  <1>1. Iters \in [Threads -> Nat]
    BY StatsAssumption
  <1>2. \A t \in Threads : Rem(t)' \in Nat /\ Rem(t)' <= Iters[t]
    BY <1>1 DEF Rem, TypeOK, Iterating
  <1> QED
    BY <1>2

\* The counters of a thread's process.
LEMMA ValueFacts ==
  ASSUME TypeOK, BytesCounted, NEW t \in Threads
  PROVE  /\ Proc[t] \in DOMAIN controlstats /\ Value(t) \in Nat
         /\ controlstats[Proc[t]].bytes \in Nat /\ controlstats[Proc[t]].count \in Nat
         /\ ~Enough(Value(t)) => controlstats[Proc[t]].bytes <= Limit
  <1>1. /\ Proc[t] \in DOMAIN controlstats
        /\ controlstats[Proc[t]] \in [count : Nat, bytes : Nat]
    BY DEF TypeOK
  <1>2. controlstats[Proc[t]].bytes <= controlstats[Proc[t]].count
    BY <1>1 DEF BytesCounted
  <1>3. kind.by \in {"count", "bytes"}
    BY DEF TypeOK
  <1>4. Limit \in Nat
    BY StatsAssumption
  <1>5. CASE kind.by = "count"
    BY <1>1, <1>2, <1>4, <1>5 DEF Value, Enough
  <1>6. CASE kind.by = "bytes"
    BY <1>1, <1>2, <1>4, <1>6 DEF Value, Enough
  <1> QED
    BY <1>3, <1>5, <1>6
-----------------------------------------------------------------------------
(* Types.                                                                  *)

\* The variables have their types initially.
LEMMA InitTypes == Init => TypeOK
  <1> SUFFICES ASSUME Init PROVE TypeOK
    OBVIOUS
  <1>1. kind \in [by : {"count", "bytes"}, targeted : SUBSET Threads]
    BY StatsAssumption DEF Init
  <1>2. left \in [Threads -> Nat] /\ cursor \in 0..NThreads
    BY StatsAssumption DEF Init
  <1>3. controlstats \in [{Proc[t] : t \in Threads} -> [count : Nat, bytes : Nat]]
    BY DEF Init, Zero
  <1> QED
    BY <1>1, <1>2, <1>3 DEF Init, TypeOK, Places

\* A step of a thread keeps the types.
LEMMA ThreadTypes == \A t \in Threads : TypeOK /\ Iterating /\ Thread(t) => TypeOK'
  <1> SUFFICES ASSUME NEW t \in Threads, TypeOK, Iterating, Thread(t) PROVE TypeOK'
    OBVIOUS
  <1> USE DEF TypeOK, Places, masterVars, Goto, Abort
  <1>1. CASE Top(t)
    BY <1>1 DEF Top
  <1>2. CASE Composite(t)
    BY <1>2 DEF Composite
  <1>3. CASE Io(t)
    BY <1>3 DEF Io
  <1>4. CASE Count(t)
    <2>1. left' \in [Threads -> Nat]
      BY <1>4 DEF Count, Iterating
    <2>2. controlstats' \in [{Proc[u] : u \in Threads} -> [count : Nat, bytes : Nat]]
      BY <1>4 DEF Count
    <2> QED
      BY <1>4, <2>1, <2>2 DEF Count
  <1>5. CASE FinishRead(t)
    <2>1. reg' \in [Threads -> Nat]
      <3>1. controlstats[Proc[t]] \in [count : Nat, bytes : Nat] /\ kind.by \in {"count", "bytes"}
        OBVIOUS
      <3>2. controlstats[Proc[t]][kind.by] \in Nat
        BY <3>1
      <3> QED
        BY <1>5, <3>2 DEF FinishRead
    <2> QED
      BY <1>5, <2>1 DEF FinishRead
  <1>6. CASE FinishJudge(t)
    <2>1. left' \in [Threads -> Nat]
      BY <1>6, StatsAssumption DEF FinishJudge
    <2>2. controlstats' \in [{Proc[u] : u \in Threads} -> [count : Nat, bytes : Nat]]
      BY <1>6 DEF FinishJudge
    <2>3. pc' \in [Threads -> Places] /\ shm_f_abort' \in {"no", "done", "error"}
      BY <1>6 DEF FinishJudge
    <2> QED
      BY <1>6, <2>1, <2>2, <2>3 DEF FinishJudge
  <1>7. CASE Leave(t)
    BY <1>7 DEF Leave
  <1> QED
    BY <1>1, <1>2, <1>3, <1>4, <1>5, <1>6, <1>7 DEF Thread

Master == Clear \/ SnapRefused \/ Snap \/ Walk

\* A step of the master keeps the types.
LEMMA MasterTypes == IInv /\ Master => TypeOK'
  <1> SUFFICES ASSUME IInv, Master PROVE TypeOK'
    OBVIOUS
  <1> USE DEF IInv, TypeOK, threadVars, ghosts
  <1>0. NThreads \in Nat
    BY StatsAssumption
  <1>1. CASE Clear
    <2>1. cursor' \in 0..NThreads
      BY <1>1, FirstFacts DEF Clear
    <2> QED
      BY <1>1, <2>1 DEF Clear, Command
  <1>2. CASE SnapRefused
    BY <1>2 DEF SnapRefused, vars
  <1>3. CASE Snap
    <2>1. cursor' \in 0..NThreads
      BY <1>3, FirstFacts DEF Snap
    <2> QED
      BY <1>3, <2>1 DEF Snap, Command
  <1>4. ASSUME cursor > 0 PROVE NextFlowop(cursor) \in 0..NThreads /\ cursor \in Threads
    <2>1. cursor \in 1..(NThreads + 1) /\ cursor \in Threads
      BY <1>0, <1>4 DEF Threads
    <2> QED
      BY <2>1, NextFlowopFacts
  <1>5. CASE ClearFlowop
    <2>1. cursor' \in 0..NThreads /\ cursor \in Threads
      BY <1>4, <1>5 DEF ClearFlowop
    <2> QED
      BY <1>5, <2>1 DEF ClearFlowop
  <1>6. CASE ClearMaster
    BY <1>6 DEF ClearMaster
  <1>7. CASE SnapFlowop
    <2>1. fo_stats[cursor] \in Nat
      BY <1>4, <1>7 DEF SnapFlowop
    <2>2. globalstats \in Nat
      BY <1>7 DEF SnapFlowop, Reporting
    <2> QED
      BY <1>7, <2>1, <2>2 DEF SnapFlowop
  <1>8. CASE SnapMaster
    <2>1. cursor > 0
      BY <1>8 DEF SnapMaster, Reporting
    <2>2. fo_stats[cursor] \in Nat /\ cursor' \in 0..NThreads
      BY <1>4, <1>8, <2>1 DEF SnapMaster
    <2> QED
      BY <1>8, <2>2 DEF SnapMaster
  <1>9. CASE SnapEnd
    <2>1. Total(atSnap, Threads \ deleted) \in Nat /\ Total(since, Threads) \in Nat
      BY ThreadFacts
    <2>2. low' \in Nat /\ high' \in Nat
      BY <1>9, <2>1 DEF SnapEnd
    <2>3. shm_bequiet' \in BOOLEAN
      BY <1>9 DEF SnapEnd, Resume
    <2>4. atSnap' \in [Threads -> Nat]
      BY <1>9 DEF SnapEnd
    <2> QED
      BY <1>9, <2>2, <2>3, <2>4 DEF SnapEnd
  <1> QED
    BY <1>1, <1>2, <1>3, <1>5, <1>6, <1>7, <1>8, <1>9 DEF Master, Walk
-----------------------------------------------------------------------------
(* Threads: where they are and what they have left.                        *)

\* What a step of a thread leaves alone.
LEMMA ThreadFrame ==
  ASSUME NEW t \in Threads, Thread(t)
  PROVE  UNCHANGED <<kind, shm_bequiet, mpc, cursor, globalstats, master, cmds, atSnap, low, high,
                     hit>>
  BY DEF Thread, Top, Composite, Io, Count, FinishRead, FinishJudge, Leave, masterVars

\* A step of the master leaves the threads alone.
LEMMA MasterFrame ==
  ASSUME Master
  PROVE  UNCHANGED <<kind, pc, left, reg, deleted, controlstats, shm_f_abort>>
  BY DEF Master, Clear, SnapRefused, Snap, Walk, ClearFlowop, ClearMaster, SnapFlowop,
         SnapMaster, SnapEnd, vars, threadVars

\* Threads count down their iterations.
LEMMA IteratingNext == IInv /\ Next => Iterating'
  <1> SUFFICES ASSUME IInv, Next PROVE Iterating'
    OBVIOUS
  <1>1. CASE Master
    BY <1>1, MasterFrame DEF IInv, Iterating
  <1>2. ASSUME NEW t \in Threads, Thread(t) PROVE Iterating'
    <2> USE DEF IInv, Iterating, TypeOK, Goto, Abort
    <2>0. Iters \in [Threads -> Nat \ {0}]
      BY StatsAssumption
    <2>1. CASE Top(t) \/ Composite(t) \/ Io(t) \/ FinishRead(t) \/ Leave(t)
      BY <2>1 DEF Top, Composite, Io, FinishRead, Leave
    <2>2. CASE Count(t)
      BY <2>0, <2>2 DEF Count
    <2>3. CASE FinishJudge(t)
      BY <2>0, <2>3 DEF FinishJudge
    <2> QED
      BY <1>2, <2>1, <2>2, <2>3 DEF Thread
  <1> QED
    BY <1>1, <1>2 DEF Next, Master

\* The flag is set exactly during a snapshot.
LEMMA QuietNext == IInv /\ Next => (shm_bequiet' <=> mpc' \in {"snap", "roll"})
  <1> SUFFICES ASSUME IInv, Next PROVE shm_bequiet' <=> mpc' \in {"snap", "roll"}
    OBVIOUS
  <1>1. shm_bequiet <=> mpc \in {"snap", "roll"}
    BY DEF IInv, Frozen
  <1>2. ASSUME NEW t \in Threads, Thread(t) PROVE shm_bequiet' <=> mpc' \in {"snap", "roll"}
    BY <1>1, <1>2, ThreadFrame
  <1>3. CASE Clear \/ SnapRefused \/ Snap
    BY <1>1, <1>3 DEF Clear, SnapRefused, Snap, Command, vars
  <1>4. CASE Walk
    BY <1>1, <1>4 DEF Walk, ClearFlowop, ClearMaster, SnapFlowop, SnapMaster, SnapEnd, Resume
  <1> QED
    BY <1>2, <1>3, <1>4 DEF Next

\* During a snapshot a thread counts no more than what it has left in its flowop.
LEMMA FrozenNext == IInv /\ Next => Frozen'
  <1> SUFFICES ASSUME IInv, Next, mpc' \in {"snap", "roll"}, NEW u \in Threads
               PROVE  since'[u] - atSnap'[u] + Todo(u)' <= Iters[u]
    BY QuietNext DEF Frozen
  <1> USE DEF IInv
  <1>0. /\ since[u] \in Nat /\ atSnap[u] \in Nat /\ left[u] \in Nat /\ Iters[u] \in Nat
        /\ left[u] <= Iters[u] /\ Todo(u) <= Iters[u] /\ Todo(u) \in Nat
    BY StatsAssumption DEF TypeOK, Iterating, Todo
  <1>1. CASE Snap
    <2>1. since'[u] = since[u] /\ atSnap'[u] = since[u] /\ Todo(u)' = Todo(u)
      BY <1>1 DEF Snap, Todo, threadVars
    <2> QED
      BY <1>0, <2>1
  <1>2. CASE SnapFlowop \/ SnapMaster
    <2>1. since'[u] = since[u] /\ atSnap'[u] = atSnap[u] /\ Todo(u)' = Todo(u)
          /\ mpc \in {"snap", "roll"}
      BY <1>2 DEF SnapFlowop, SnapMaster, Todo, threadVars, ghosts
    <2> QED
      BY <2>1 DEF Frozen
  <1>3. ~Clear /\ ~ClearFlowop /\ ~ClearMaster /\ ~SnapEnd /\ ~SnapRefused
    BY DEF Clear, ClearFlowop, ClearMaster, SnapEnd, SnapRefused, vars
  <1>4. ASSUME NEW t \in Threads, Thread(t)
        PROVE  since'[u] - atSnap'[u] + Todo(u)' <= Iters[u]
    <2> USE DEF Goto, Abort
    <2>1. mpc \in {"snap", "roll"} /\ atSnap' = atSnap
      BY <1>4, ThreadFrame
    <2>2. shm_bequiet /\ since[u] - atSnap[u] + Todo(u) <= Iters[u]
      BY <2>1 DEF Frozen
    <2>3. ASSUME since' = since, Todo(u)' <= Todo(u), Todo(u)' \in Nat
          PROVE  since'[u] - atSnap'[u] + Todo(u)' <= Iters[u]
      BY <1>0, <2>1, <2>2, <2>3
    <2>4. CASE u # t /\ ~Count(t)
      <3>1. since' = since /\ pc'[u] = pc[u] /\ left'[u] = left[u]
        BY <1>4, <2>4 DEF Thread, Top, Composite, Io, FinishRead, FinishJudge, Leave, TypeOK
      <3> QED
        BY <1>0, <2>3, <3>1 DEF Todo
    <2>5. CASE u # t /\ Count(t)
      <3>1. since'[u] = since[u] /\ pc'[u] = pc[u] /\ left'[u] = left[u]
        BY <2>5 DEF Count, TypeOK
      <3> QED
        BY <2>1, <2>2, <3>1 DEF Todo
    <2>6. CASE u = t /\ Count(t)
      <3>1. since'[u] = since[u] + 1 /\ Todo(u) = left[u] /\ left'[u] = left[u] - 1
        BY <2>6 DEF Count, TypeOK, Todo
      <3>2. Todo(u)' <= left[u] - 1 /\ Todo(u)' \in Nat
        BY <1>0, <2>6, <3>1 DEF Todo, Count, TypeOK, Iterating
      <3> QED
        BY <1>0, <2>1, <2>2, <3>1, <3>2
    <2>7. CASE u = t /\ Top(t)
      <3>1. since' = since /\ pc'[u] \in {"leave"}
        BY <2>2, <2>7 DEF Top, Quiet, TypeOK
      <3> QED
        BY <1>0, <2>3, <3>1 DEF Todo
    <2>8. CASE u = t /\ (Composite(t) \/ Io(t))
      <3>1. since' = since /\ left' = left /\ Todo(u) = left[u]
            /\ pc'[u] \in {"leave", "io", "endop"}
        BY <2>8 DEF Composite, Io, TypeOK, Todo
      <3> QED
        BY <1>0, <2>3, <3>1 DEF Todo
    <2>9. CASE u = t /\ (FinishRead(t) \/ FinishJudge(t) \/ Leave(t))
      <3>1. since' = since /\ pc'[u] \in {"judge", "top", "leave", "left"}
        BY <2>9 DEF FinishRead, FinishJudge, Leave, TypeOK
      <3> QED
        BY <1>0, <2>3, <3>1 DEF Todo
    <2> QED
      BY <1>4, <2>4, <2>5, <2>6, <2>7, <2>8, <2>9 DEF Thread
  <1> QED
    BY <1>1, <1>2, <1>3, <1>4 DEF Next, Walk

-----------------------------------------------------------------------------
(* The finish flowops.                                                     *)

\* No operation of a process counts as bytes only.
LEMMA BytesCountedNext == IInv /\ Next => BytesCounted'
  <1> SUFFICES ASSUME IInv, Next PROVE BytesCounted'
    OBVIOUS
  <1> USE DEF IInv, BytesCounted
  <1>1. CASE controlstats' = controlstats
    BY <1>1
  <1>2. CASE Master
    BY <1>1, <1>2, MasterFrame
  <1>3. ASSUME NEW t \in Threads, Thread(t) PROVE BytesCounted'
    <2>1. CASE Top(t) \/ Composite(t) \/ Io(t) \/ FinishRead(t) \/ Leave(t)
      BY <1>1, <2>1 DEF Top, Composite, Io, FinishRead, Leave
    <2>2. CASE Count(t) \/ FinishJudge(t)
      <3> SUFFICES ASSUME NEW p \in DOMAIN controlstats
                   PROVE  controlstats'[p].bytes <= controlstats'[p].count
        BY <2>2 DEF Count, FinishJudge
      <3>1. controlstats[p].bytes \in Nat /\ controlstats[p].count \in Nat
        BY DEF TypeOK
      <3> QED
        BY <2>2, <3>1 DEF Count, FinishJudge, TypeOK
    <2> QED
      BY <1>3, <2>1, <2>2 DEF Thread
  <1> QED
    BY <1>2, <1>3 DEF Next, Master

\* If no thread of a process may count more than before, the bound stays.
LEMMA BoundedKeeps ==
  ASSUME IInv, TypeOK', Iterating', UNCHANGED kind, NEW p \in DOMAIN controlstats,
         Own(p) \cap kind.targeted = {},
         controlstats'[p].bytes = controlstats[p].bytes,
         \A v \in Own(p) : Rem(v)' <= Rem(v)
  PROVE  controlstats'[p].bytes + Total([t \in Threads |-> Rem(t)]', Own(p))
           <= Limit + Total(Iters, Own(p))
  <1> DEFINE f == [t \in Threads |-> Rem(t)]
  <1>1. f \in [Threads -> Nat] /\ f' \in [Threads -> Nat]
    <2>1. f \in [Threads -> Nat]
      BY RemFacts DEF IInv
    <2>2. f' \in [Threads -> Nat]
      BY RemFactsNext
    <2> QED
      BY <2>1, <2>2
  <1>2. Own(p) \in SUBSET Threads
    BY DEF Own
  <1>3. \A v \in Own(p) : f'[v] <= f[v]
    BY <1>2
  <1>4. Total(f', Own(p)) <= Total(f, Own(p))
    BY <1>1, <1>2, <1>3, ThreadTotals
  <1>5. controlstats[p].bytes + Total(f, Own(p)) <= Limit + Total(Iters, Own(p))
    BY DEF IInv, Bounded
  <1>6. /\ Total(f, Own(p)) \in Nat /\ Total(f', Own(p)) \in Nat /\ Total(Iters, Own(p)) \in Nat
        /\ controlstats[p].bytes \in Nat /\ Limit \in Nat
    BY <1>1, <1>2, ThreadFacts, StatsAssumption DEF IInv, TypeOK
  <1> HIDE DEF f
  <1>7. controlstats'[p].bytes + Total(f', Own(p)) <= Limit + Total(Iters, Own(p))
    BY <1>4, <1>5, <1>6
  <1> QED
    BY <1>7 DEF f
\* A thread that does not move may count no more than before: the counters of its
\* process only grow.
LEMMA OthersRem ==
  ASSUME IInv, TypeOK', UNCHANGED kind, NEW v \in Threads,
         pc'[v] = pc[v], left'[v] = left[v], reg'[v] = reg[v], Value(v) <= Value(v)'
  PROVE  Rem(v)' <= Rem(v)
  <1>1. Value(v) \in Nat /\ Limit \in Nat /\ Iters[v] \in Nat /\ left[v] \in Nat
    BY ValueFacts, StatsAssumption DEF IInv, TypeOK
  <1>2. Value(v)' \in Nat
    <2>1. kind.by \in {"count", "bytes"} /\ controlstats'[Proc[v]] \in [count : Nat, bytes : Nat]
      BY DEF IInv, TypeOK
    <2> QED
      BY <2>1 DEF Value
  <1>3. Enough(Value(v)) => Enough(Value(v))'
    BY <1>1, <1>2 DEF Enough
  <1>4. Enough(reg[v])' = Enough(reg[v])
    BY DEF Enough
  <1> QED
    BY <1>1, <1>3, <1>4 DEF Rem

\* The counters of the processes only grow, and every operation that transfers
\* bytes is counted down.
LEMMA ValueGrows ==
  ASSUME IInv, NEW t \in Threads, Thread(t), NEW v \in Threads
  PROVE  /\ Value(v) <= Value(v)'
         /\ ~Count(t) => controlstats'[Proc[v]].bytes = controlstats[Proc[v]].bytes
         /\ Proc[v] # Proc[t] => controlstats'[Proc[v]].bytes = controlstats[Proc[v]].bytes
         /\ Count(t) /\ Proc[v] = Proc[t] =>
              controlstats'[Proc[v]].bytes = controlstats[Proc[v]].bytes + 1
  <1> USE DEF IInv
  <1>1. /\ kind' = kind /\ kind.by \in {"count", "bytes"}
        /\ controlstats[Proc[v]] \in [count : Nat, bytes : Nat] /\ Value(v) \in Nat
        /\ Proc[v] \in DOMAIN controlstats
    BY ThreadFrame, ValueFacts DEF TypeOK
  <1>2. CASE Count(t)
    <2>1. controlstats'[Proc[v]] = IF Proc[v] = Proc[t]
                                   THEN [count |-> controlstats[Proc[v]].count + 1,
                                         bytes |-> controlstats[Proc[v]].bytes + 1]
                                   ELSE controlstats[Proc[v]]
      BY <1>1, <1>2 DEF Count
    <2> QED
      BY <1>1, <1>2, <2>1 DEF Value
  <1>3. CASE FinishJudge(t)
    <2>1. /\ controlstats'[Proc[v]].bytes = controlstats[Proc[v]].bytes
          /\ controlstats[Proc[v]].count <= controlstats'[Proc[v]].count
      BY <1>1, <1>3 DEF FinishJudge
    <2>2. ~Count(t)
      BY <1>3 DEF FinishJudge, Count
    <2> QED
      BY <1>1, <2>1, <2>2 DEF Value
  <1>4. CASE Top(t) \/ Composite(t) \/ Io(t) \/ FinishRead(t) \/ Leave(t)
    <2>1. controlstats' = controlstats
      BY <1>4 DEF Top, Composite, Io, FinishRead, Leave
    <2>2. ~Count(t)
      BY <1>4 DEF Top, Composite, Io, FinishRead, Leave, Count
    <2> QED
      BY <1>1, <2>1, <2>2 DEF Value
  <1> QED
    BY <1>2, <1>3, <1>4 DEF Thread

\* A thread may count more only when it begins a round before the limit is reached.
LEMMA OwnRem ==
  ASSUME IInv, TypeOK', Iterating', NEW t \in Threads, Thread(t), t \notin kind.targeted
  PROVE  \/ Count(t) /\ Rem(t)' = Rem(t) - 1 /\ Rem(t) > 0
         \/ ~Count(t) /\ Rem(t)' <= Rem(t)
         \/ ~Count(t) /\ controlstats[Proc[t]].bytes <= Limit
  <1> USE DEF IInv, Goto, Abort
  <1>0. /\ Rem(t) \in Nat /\ Rem(t)' \in Nat /\ left[t] \in Nat /\ kind' = kind
        /\ pc \in [Threads -> Places]
    BY RemFacts, RemFactsNext, ThreadFrame DEF TypeOK
  <1>1. CASE Count(t)
    <2>1. left'[t] = left[t] - 1 /\ pc'[t] \in {"io", "top"} /\ Rem(t) = left[t] /\ left[t] > 0
      BY <1>0, <1>1 DEF Count, TypeOK, Rem, Iterating
    <2> QED
      BY <1>1, <2>1 DEF Rem
  <1>2. CASE Top(t)
    <2>1. ~Count(t) /\ Rem(t) = left[t] /\ left'[t] = left[t] /\ controlstats' = controlstats
      BY <1>2 DEF Top, Count, Rem
    <2>2. CASE pc'[t] # "finish"
      <3>1. pc'[t] \in {"leave", "composite", "io"}
        BY <1>0, <1>2, <2>2 DEF Top
      <3> QED
        BY <1>0, <2>1, <3>1 DEF Rem
    <2>3. CASE pc'[t] = "finish"
      <3>1. Value(t)' = Value(t) /\ Enough(Value(t))' = Enough(Value(t))
        BY <1>0, <2>1 DEF Value, Enough
      <3>2. CASE Enough(Value(t))
        BY <1>0, <2>1, <2>3, <3>1, <3>2 DEF Rem
      <3>3. CASE ~Enough(Value(t))
        BY <2>1, <3>3, ValueFacts
      <3> QED
        BY <3>2, <3>3
    <2> QED
      BY <2>2, <2>3
  <1>3. CASE Composite(t) \/ Io(t) \/ Leave(t)
    <2>1. ~Count(t) /\ left'[t] = left[t]
      BY <1>3 DEF Composite, Io, Leave, Count
    <2>2. \/ pc[t] \in {"composite", "io"} /\ pc'[t] \in {"leave", "io", "endop"}
          \/ pc[t] = "leave" /\ pc'[t] = "left"
      BY <1>0, <1>3 DEF Composite, Io, Leave
    <2> QED
      BY <1>0, <2>1, <2>2 DEF Rem
  <1>4. CASE FinishRead(t)
    <2>1. ~Count(t) /\ pc[t] = "finish" /\ pc'[t] = "judge" /\ reg'[t] = Value(t)
      BY <1>0, <1>4 DEF FinishRead, Count, TypeOK, Value
    <2>2. Enough(reg[t])' = Enough(Value(t))
      BY <1>0, <2>1 DEF Enough
    <2> QED
      BY <1>0, <2>1, <2>2 DEF Rem
  <1>5. CASE FinishJudge(t)
    <2>1. ~Count(t) /\ pc[t] = "judge" /\ left'[t] = Iters[t]
          /\ pc'[t] = IF Enough(reg[t]) THEN "leave" ELSE "top"
      BY <1>0, <1>5 DEF FinishJudge, Count, TypeOK
    <2> QED
      BY <1>0, <2>1 DEF Rem
  <1> QED
    BY <1>1, <1>2, <1>3, <1>4, <1>5 DEF Thread

\* What a process has transferred and may still transfer stays bounded.
LEMMA BoundedNext == IInv /\ TypeOK' /\ Iterating' /\ Next => Bounded'
  <1> DEFINE f == [v \in Threads |-> Rem(v)]
  <1> SUFFICES ASSUME IInv, TypeOK', Iterating', Next,
                      NEW p \in DOMAIN controlstats', Own(p) \cap kind'.targeted = {}
               PROVE  controlstats'[p].bytes + Total(f', Own(p)) <= Limit + Total(Iters, Own(p))
    BY DEF Bounded
  <1>0. p \in DOMAIN controlstats /\ Own(p) \in SUBSET Threads
    BY DEF IInv, TypeOK, Own
  <1>1. CASE Master
    <2>1. UNCHANGED <<kind, controlstats>> /\ \A v \in Own(p) : Rem(v)' <= Rem(v)
      <3>1. UNCHANGED <<kind, pc, left, reg, controlstats>>
        BY <1>1, MasterFrame
      <3>2. \A v \in Threads : Rem(v)' = Rem(v) /\ Rem(v) \in Nat
        BY <3>1, RemFacts DEF IInv, Rem, Enough, Value
      <3> QED
        BY <1>0, <3>1, <3>2
    <2> QED
      BY <1>0, <2>1, BoundedKeeps
  <1>2. ASSUME NEW t \in Threads, Thread(t)
        PROVE  controlstats'[p].bytes + Total(f', Own(p)) <= Limit + Total(Iters, Own(p))
    <2>0. kind' = kind
      BY <1>2, ThreadFrame
    <2>1. \A v \in Own(p) \ {t} : Rem(v)' <= Rem(v)
      <3> SUFFICES ASSUME NEW v \in Own(p) \ {t} PROVE Rem(v)' <= Rem(v)
        OBVIOUS
      <3>1. v \in Threads /\ v # t /\ Value(v) <= Value(v)'
        BY <1>0, <1>2, ValueGrows
      <3>2. pc'[v] = pc[v] /\ left'[v] = left[v] /\ reg'[v] = reg[v]
        BY <1>2, <3>1 DEF IInv, TypeOK, Thread, Top, Composite, Io, Count, FinishRead,
                          FinishJudge, Leave, Goto, Abort
      <3> QED
        BY <2>0, <3>1, <3>2, OthersRem
    <2>2. PICK w \in Threads : Proc[w] = p
      BY <1>0 DEF IInv, TypeOK
    <2>3. CASE t \notin Own(p)
      <3>1. controlstats'[p].bytes = controlstats[p].bytes
        BY <1>2, <2>2, <2>3, ValueGrows DEF Own
      <3> QED
        BY <1>0, <2>0, <2>1, <2>3, <3>1, BoundedKeeps
    <2>4. CASE t \in Own(p)
      <3>0. Proc[t] = p /\ t \notin kind.targeted
        BY <2>0, <2>4 DEF Own
      <3>1. CASE ~Count(t) /\ Rem(t)' <= Rem(t)
        <4>1. controlstats'[p].bytes = controlstats[p].bytes
          BY <1>2, <3>0, <3>1, ValueGrows
        <4> QED
          BY <1>0, <2>0, <2>1, <3>0, <3>1, <4>1, BoundedKeeps
      <3>2. CASE ~Count(t) /\ controlstats[Proc[t]].bytes <= Limit
        <4>1. controlstats'[p].bytes = controlstats[p].bytes /\ controlstats[p].bytes <= Limit
          BY <1>2, <3>0, <3>2, ValueGrows
        <4>2. f' \in [Threads -> Nat] /\ \A v \in Own(p) : f'[v] <= Iters[v]
          BY <1>0, RemFactsNext
        <4>3. Iters \in [Threads -> Nat] /\ Own(p) \in SUBSET Own(p)
          BY StatsAssumption
        <4>4. Total(f', Own(p)) <= Total(Iters, Own(p))
          BY <1>0, <4>2, <4>3, ThreadTotals
        <4>5. /\ Total(f', Own(p)) \in Nat /\ Total(Iters, Own(p)) \in Nat
              /\ controlstats[p].bytes \in Nat /\ Limit \in Nat
          BY <1>0, <4>2, <4>3, ThreadFacts, StatsAssumption DEF IInv, TypeOK
        <4> HIDE DEF f
        <4> QED
          BY <4>1, <4>4, <4>5
      <3>3. CASE Count(t) /\ Rem(t)' = Rem(t) - 1 /\ Rem(t) > 0
        <4>1. controlstats'[p].bytes = controlstats[p].bytes + 1
          BY <1>2, <3>0, <3>3, ValueGrows
        <4> DEFINE g == [f EXCEPT ![t] = Rem(t) - 1]
        <4>2. f \in [Threads -> Nat] /\ f' \in [Threads -> Nat] /\ Rem(t) \in Nat /\ f[t] = Rem(t)
          BY RemFacts, RemFactsNext DEF IInv
        <4>3. g \in [Threads -> Nat] /\ \A v \in Threads \ {t} : f[v] = g[v]
          BY <3>3, <4>2
        <4>4. g[t] = f[t] - 1
          BY <4>2
        <4>5. \A v \in Own(p) : f'[v] <= g[v]
          <5>1. f'[t] <= g[t]
            BY <3>3, <4>2, <4>4
          <5>2. \A v \in Own(p) \ {t} : f'[v] <= g[v]
            BY <1>0, <2>1, <4>3
          <5> QED
            BY <5>1, <5>2
        <4>6. controlstats[p].bytes + Total(f, Own(p)) <= Limit + Total(Iters, Own(p))
          BY <1>0, <2>0 DEF IInv, Bounded
        <4>7. /\ controlstats[p].bytes \in Nat /\ Limit \in Nat
          BY <1>0, StatsAssumption DEF IInv, TypeOK
        <4>8. f[t] \in Nat
          BY <4>2
        <4> HIDE DEF f, g
        <4>9. Own(p) \in SUBSET Own(p) /\ IsFiniteSet(Own(p))
          BY <1>0, ThreadFacts
        <4>10. Total(f', Own(p)) <= Total(g, Own(p))
          BY <1>0, <4>2, <4>3, <4>5, <4>9, ThreadTotals
        <4>11. Total(g, Own(p)) = Total(f, Own(p)) - f[t] + g[t]
          <5>1. \A v \in Own(p) : f[v] \in Nat /\ g[v] \in Nat
            BY <1>0, <4>2, <4>3
          <5>2. \A v \in Own(p) \ {t} : f[v] = g[v]
            BY <1>0, <4>3
          <5> QED
            BY <2>4, <4>9, <5>1, <5>2, TotalUpdate
        <4>12. /\ Total(f, Own(p)) \in Nat /\ Total(f', Own(p)) \in Nat
               /\ Total(g, Own(p)) \in Nat /\ Total(Iters, Own(p)) \in Nat
          BY <1>0, <4>2, <4>3, ThreadFacts
        <4> QED
          BY <4>1, <4>4, <4>6, <4>7, <4>8, <4>10, <4>11, <4>12
      <3> QED
        BY <1>2, <3>0, <3>1, <3>2, <3>3, OwnRem
    <2> QED
      BY <2>3, <2>4
  <1> QED
    BY <1>1, <1>2 DEF Next, Master
-----------------------------------------------------------------------------
(* Counters and reports.                                                   *)

\* An increment that a clear interrupted is the only way a counter can be more
\* than what was counted.
LEMMA CountersNext == IInv /\ TypeOK' /\ Next => Counters'
  <1> SUFFICES ASSUME IInv, TypeOK', Next, NEW u \in Threads
               PROVE  /\ since'[u] <= fo_stats'[u]
                      /\ pc'[u] = "endop" => since'[u] <= reg'[u]
                      /\ u \notin hit' => /\ fo_stats'[u] = since'[u]
                                          /\ pc'[u] = "endop" => reg'[u] = since'[u]
    BY DEF Counters
  <1>0. /\ since[u] \in Nat /\ fo_stats[u] \in Nat /\ reg[u] \in Nat
        /\ since[u] <= fo_stats[u]
        /\ pc[u] = "endop" => since[u] <= reg[u]
        /\ u \notin hit => fo_stats[u] = since[u] /\ (pc[u] = "endop" => reg[u] = since[u])
    BY DEF IInv, TypeOK, Counters
  <1>1. CASE ClearFlowop
    <2>1. reg' = reg /\ pc' = pc
      BY <1>1 DEF ClearFlowop, threadVars
    <2>2. CASE u = cursor
      <3>1. since'[u] = 0 /\ fo_stats'[u] = 0 /\ (u \in hit' <=> pc[u] = "endop")
        BY <1>1, <2>2 DEF ClearFlowop, IInv, TypeOK
      <3> QED
        BY <1>0, <2>1, <3>1
    <2>3. CASE u # cursor
      <3>1. since'[u] = since[u] /\ fo_stats'[u] = fo_stats[u] /\ (u \in hit' <=> u \in hit)
        BY <1>1, <2>3 DEF ClearFlowop, IInv, TypeOK
      <3> QED
        BY <1>0, <2>1, <3>1
    <2> QED
      BY <2>2, <2>3
  <1>2. CASE UNCHANGED <<since, fo_stats, pc, reg, hit>>
    BY <1>0, <1>2
  <1>3. CASE Master /\ ~ClearFlowop
    BY <1>2, <1>3 DEF Master, Walk, Clear, SnapRefused, Snap, ClearMaster, SnapFlowop, SnapMaster,
                      SnapEnd, vars, threadVars, ghosts
  <1>4. ASSUME NEW t \in Threads, Thread(t)
        PROVE  /\ since'[u] <= fo_stats'[u]
               /\ pc'[u] = "endop" => since'[u] <= reg'[u]
               /\ u \notin hit' => /\ fo_stats'[u] = since'[u]
                                   /\ pc'[u] = "endop" => reg'[u] = since'[u]
    <2> USE DEF Goto, Abort
    <2>0. hit' = hit
      BY <1>4, ThreadFrame
    <2>1. CASE u # t
      <3>1. since'[u] = since[u] /\ fo_stats'[u] = fo_stats[u] /\ pc'[u] = pc[u] /\ reg'[u] = reg[u]
        BY <1>4, <2>1 DEF IInv, TypeOK, Thread, Top, Composite, Io, Count, FinishRead,
                          FinishJudge, Leave
      <3> QED
        BY <1>0, <2>0, <3>1
    <2>2. CASE u = t /\ Count(t)
      <3>1. since'[u] = since[u] + 1 /\ fo_stats'[u] = reg[u] + 1 /\ pc[u] = "endop"
            /\ pc'[u] # "endop"
        BY <2>2 DEF Count, IInv, TypeOK
      <3> QED
        BY <1>0, <2>0, <3>1
    <2>3. CASE u = t /\ Io(t)
      <3>1. /\ since' = since /\ fo_stats' = fo_stats
            /\ pc'[u] = "endop" => reg'[u] = fo_stats[u]
        BY <2>3 DEF Io, IInv, TypeOK
      <3> QED
        BY <1>0, <2>0, <3>1
    <2>4. CASE u = t /\ (Top(t) \/ Composite(t) \/ FinishRead(t) \/ FinishJudge(t) \/ Leave(t))
      <3>1. since' = since /\ fo_stats' = fo_stats /\ pc'[u] # "endop"
        BY <2>4 DEF Top, Composite, FinishRead, FinishJudge, Leave, IInv, TypeOK
      <3> QED
        BY <1>0, <2>0, <3>1
    <2> QED
      BY <1>4, <2>1, <2>2, <2>3, <2>4 DEF Thread
  <1> QED
    BY <1>1, <1>3, <1>4 DEF Next, Master

\* Threads go on counting and leaving while a report is made.
LEMMA ReportingThread == \A t \in Threads : IInv /\ TypeOK' /\ Thread(t) => Reporting'
  <1> SUFFICES ASSUME NEW t \in Threads, IInv, TypeOK', Thread(t) PROVE Reporting'
    OBVIOUS
  <1> USE DEF IInv
  <1>1. UNCHANGED <<mpc, cursor, globalstats, master, atSnap, low, high, hit>>
    BY ThreadFrame
  <1>2. Summed' = Summed /\ Rolled' = Rolled
    BY <1>1 DEF Summed, Rolled
  <1>3. deleted \subseteq deleted' /\ \A u \in Threads : since[u] <= since'[u]
    <2>1. CASE Count(t)
      BY <2>1 DEF Count, TypeOK
    <2>2. CASE ~Count(t)
      <3>1. since' = since /\ deleted \subseteq deleted'
        BY <2>2 DEF Thread, Top, Composite, Io, FinishRead, FinishJudge, Leave
      <3> QED
        BY <3>1 DEF TypeOK
    <2> QED
      BY <2>1, <2>2
  <1>4. ASSUME NEW S \in SUBSET Threads
        PROVE  /\ Total(since, S) <= Total(since', S)
               /\ Total(atSnap, S \ deleted') <= Total(atSnap, S \ deleted)
               /\ Total(since, S) \in Nat /\ Total(since', S) \in Nat
               /\ Total(atSnap, S \ deleted) \in Nat /\ Total(atSnap, S \ deleted') \in Nat
    <2>1. since \in [Threads -> Nat] /\ since' \in [Threads -> Nat] /\ atSnap \in [Threads -> Nat]
      BY DEF TypeOK
    <2>2. /\ S \in SUBSET S /\ S \ deleted \in SUBSET Threads /\ S \ deleted' \in SUBSET Threads
          /\ S \ deleted' \in SUBSET (S \ deleted)
      BY <1>3
    <2>3. Total(since, S) <= Total(since', S)
      BY <1>3, <2>1, <2>2, ThreadTotals
    <2>4. \A u \in S \ deleted' : atSnap[u] <= atSnap[u]
      BY <2>1
    <2>5. Total(atSnap, S \ deleted') <= Total(atSnap, S \ deleted)
      BY <2>1, <2>2, <2>4, ThreadTotals
    <2> QED
      BY <2>1, <2>2, <2>3, <2>5, ThreadFacts
  <1>5. Summed \in SUBSET Threads /\ Rolled \in SUBSET Threads
    BY DEF Summed, Rolled
  <1>6. ASSUME mpc \in {"snap", "roll"}
        PROVE  /\ \A u \in Threads : atSnap[u] <= since'[u]
               /\ low + Total(atSnap, Summed \ deleted') <= globalstats
               /\ low + Total(atSnap, Rolled \ deleted') <= master
               /\ hit = {} => /\ globalstats <= high + Total(since', Summed)
                              /\ master <= high + Total(since', Rolled)
    <2>1. low \in Nat /\ high \in Nat /\ master \in Nat /\ globalstats \in Nat
      BY <1>6 DEF TypeOK, Reporting
    <2>2. \A u \in Threads : atSnap[u] <= since'[u]
      <3>1. \A u \in Threads : atSnap[u] <= since[u] /\ atSnap[u] \in Nat /\ since[u] \in Nat
                               /\ since'[u] \in Nat
        BY <1>6 DEF Reporting, TypeOK
      <3> QED
        BY <1>3, <3>1
    <2>3. /\ low + Total(atSnap, Summed \ deleted) <= globalstats
          /\ low + Total(atSnap, Rolled \ deleted) <= master
          /\ hit = {} => /\ globalstats <= high + Total(since, Summed)
                         /\ master <= high + Total(since, Rolled)
      BY <1>6 DEF Reporting
    <2>4. /\ low + Total(atSnap, Summed \ deleted') <= globalstats
          /\ hit = {} => globalstats <= high + Total(since', Summed)
      <3>1. /\ Total(since, Summed) <= Total(since', Summed)
            /\ Total(atSnap, Summed \ deleted') <= Total(atSnap, Summed \ deleted)
            /\ Total(since, Summed) \in Nat /\ Total(since', Summed) \in Nat
            /\ Total(atSnap, Summed \ deleted) \in Nat /\ Total(atSnap, Summed \ deleted') \in Nat
        BY <1>4, <1>5
      <3> QED
        BY <2>1, <2>3, <3>1
    <2>5. /\ low + Total(atSnap, Rolled \ deleted') <= master
          /\ hit = {} => master <= high + Total(since', Rolled)
      <3>1. /\ Total(since, Rolled) <= Total(since', Rolled)
            /\ Total(atSnap, Rolled \ deleted') <= Total(atSnap, Rolled \ deleted)
            /\ Total(since, Rolled) \in Nat /\ Total(since', Rolled) \in Nat
            /\ Total(atSnap, Rolled \ deleted) \in Nat /\ Total(atSnap, Rolled \ deleted') \in Nat
        BY <1>4, <1>5
      <3> QED
        BY <2>1, <2>3, <3>1
    <2> QED
      BY <2>2, <2>4, <2>5
  <1> QED
    BY <1>1, <1>2, <1>6 DEF Reporting

\* Adding a flowop's counter to a sum that is bounded over some threads.
LEMMA AddFlowop ==
  ASSUME IInv, mpc \in {"snap", "roll"}, NEW c \in Threads, NEW S \in SUBSET Threads, c \notin S,
         NEW n \in Nat,
         low + Total(atSnap, S \ deleted) <= n,
         hit = {} => n <= high + Total(since, S)
  PROVE  /\ low + Total(atSnap, (S \cup {c}) \ deleted) <= n + fo_stats[c]
         /\ hit = {} => n + fo_stats[c] <= high + Total(since, S \cup {c})
  <1>1. /\ atSnap \in [Threads -> Nat] /\ since \in [Threads -> Nat] /\ fo_stats[c] \in Nat
        /\ low \in Nat /\ high \in Nat /\ atSnap[c] \in Nat /\ since[c] \in Nat
    BY DEF IInv, TypeOK
  <1>2. atSnap[c] <= since[c] /\ since[c] <= fo_stats[c] /\ (hit = {} => fo_stats[c] = since[c])
    BY DEF IInv, Reporting, Counters
  <1>3. ASSUME NEW R \in SUBSET Threads, c \notin R, NEW h \in [Threads -> Nat]
        PROVE  Total(h, R \cup {c}) = Total(h, R) + h[c] /\ Total(h, R) \in Nat
    <2>1. R \cup {c} \in SUBSET Threads
      OBVIOUS
    <2>2. IsFiniteSet(R) /\ Total(h, R) \in Nat /\ \A x \in R \cup {c} : h[x] \in Nat
      BY <2>1, ThreadFacts
    <2> QED
      BY <1>3, <2>2, TotalAdd
  <1>4. hit = {} => n + fo_stats[c] <= high + Total(since, S \cup {c})
    <2>1. Total(since, S \cup {c}) = Total(since, S) + since[c] /\ Total(since, S) \in Nat
      BY <1>1, <1>3
    <2> QED
      BY <1>1, <1>2, <2>1
  <1>5. CASE c \in deleted
    <2>1. (S \cup {c}) \ deleted = S \ deleted
      BY <1>5
    <2>2. Total(atSnap, S \ deleted) \in Nat
      <3>1. S \ deleted \in SUBSET Threads
        OBVIOUS
      <3> QED
        BY <1>1, <3>1, ThreadFacts
    <2> QED
      BY <1>1, <1>4, <2>1, <2>2
  <1>6. CASE c \notin deleted
    <2>1. (S \cup {c}) \ deleted = (S \ deleted) \cup {c}
      BY <1>6
    <2>2. /\ Total(atSnap, (S \ deleted) \cup {c}) = Total(atSnap, S \ deleted) + atSnap[c]
          /\ Total(atSnap, S \ deleted) \in Nat
      <3>1. S \ deleted \in SUBSET Threads /\ c \notin S \ deleted
        OBVIOUS
      <3> QED
        BY <1>1, <1>3, <3>1
    <2>3. low + (Total(atSnap, S \ deleted) + atSnap[c]) <= n + fo_stats[c]
      BY <1>1, <1>2, <2>2
    <2> QED
      BY <1>4, <2>1, <2>2, <2>3
  <1> QED
    BY <1>5, <1>6

\* The walk of a snapshot adds every flowop that is there, once to the totals and
\* once to the FLOW_MASTER.
LEMMA ReportingMaster == IInv /\ TypeOK' /\ Master => Reporting'
  <1> SUFFICES ASSUME IInv, TypeOK', Master PROVE Reporting'
    OBVIOUS
  <1> USE DEF IInv
  <1>0. /\ low \in Nat /\ high \in Nat /\ master \in Nat /\ globalstats \in Nat \cup {-1}
        /\ NThreads \in Nat /\ cursor \in Nat
        /\ atSnap \in [Threads -> Nat] /\ since \in [Threads -> Nat]
        /\ \A t \in Threads : t \in Nat
    <2>1. NThreads \in Nat /\ \A t \in Threads : t \in Nat
      BY StatsAssumption DEF Threads
    <2> QED
      BY <2>1 DEF TypeOK
  <1>1. CASE Clear
    BY <1>1 DEF Clear, Reporting
  <1>2. CASE SnapRefused
    BY <1>2 DEF SnapRefused, vars, threadVars, ghosts, Reporting, Summed, Rolled
  <1>3. CASE Snap
    <2>1. /\ mpc = "idle" /\ mpc' = "snap" /\ cursor' = First /\ atSnap' = since
          /\ UNCHANGED <<globalstats, master, since, low, high, hit, deleted>>
          /\ globalstats # -1
      BY <1>3 DEF Snap, Command, threadVars
    <2>2. Summed' \ deleted = {} /\ Rolled' \ deleted = {}
      <3>1. \A t \in Threads \ deleted : ~(t > First)
        BY <1>0, FirstFacts
      <3> QED
        BY <2>1, <3>1 DEF Summed, Rolled
    <2>3. Total(since, Summed' \ deleted) = 0 /\ Total(since, Rolled' \ deleted) = 0
      BY <2>2, TotalEmpty
    <2>4. Total(since, Summed') \in Nat /\ Total(since, Rolled') \in Nat
      BY <1>0, ThreadFacts DEF Summed, Rolled
    <2>5. /\ low <= globalstats /\ low <= master
          /\ hit = {} => master <= high /\ globalstats <= high
      BY <2>1 DEF Reporting
    <2>6. \A t \in Threads : since[t] <= since[t]
      BY <1>0
    <2> QED
      BY <1>0, <2>1, <2>3, <2>4, <2>5, <2>6 DEF Reporting
  <1>4. CASE ClearFlowop
    BY <1>4 DEF ClearFlowop, Reporting
  <1>5. CASE ClearMaster
    BY <1>5 DEF ClearMaster, Reporting, ghosts
  <1>6. CASE SnapFlowop
    <2>1. /\ mpc = "snap" /\ mpc' = "roll" /\ cursor > 0 /\ cursor \in Threads
          /\ globalstats' = globalstats + fo_stats[cursor]
          /\ UNCHANGED <<cursor, master, since, atSnap, low, high, hit, deleted>>
      BY <1>0, <1>6 DEF SnapFlowop, threadVars, ghosts, TypeOK, Threads
    <2>2. /\ globalstats \in Nat
          /\ low + Total(atSnap, Summed \ deleted) <= globalstats
          /\ hit = {} => globalstats <= high + Total(since, Summed)
      BY <2>1 DEF Reporting, TypeOK
    <2>3. Summed \in SUBSET Threads /\ cursor \notin Summed
      BY <1>0, <2>1 DEF Summed
    <2>4. Summed' = Summed \cup {cursor} /\ Rolled' = Rolled
      BY <2>1 DEF Summed, Rolled
    <2>5. /\ low + Total(atSnap, (Summed \cup {cursor}) \ deleted) <= globalstats + fo_stats[cursor]
          /\ hit = {} => globalstats + fo_stats[cursor] <= high + Total(since, Summed \cup {cursor})
      BY <2>1, <2>2, <2>3, AddFlowop
    <2>6. globalstats' # -1
      BY <2>1, <2>2 DEF TypeOK
    <2> QED
      BY <2>1, <2>4, <2>5, <2>6 DEF Reporting
  <1>7. CASE SnapMaster
    <2>1. /\ mpc = "roll" /\ mpc' = "snap" /\ cursor > 0 /\ cursor \in Threads
          /\ master' = master + fo_stats[cursor] /\ cursor' = NextFlowop(cursor)
          /\ UNCHANGED <<globalstats, since, atSnap, low, high, hit, deleted>>
      BY <1>0, <1>7 DEF SnapMaster, threadVars, ghosts, TypeOK, Threads, Reporting
    <2>2. /\ NextFlowop(cursor) \in 0..NThreads /\ NextFlowop(cursor) < cursor
          /\ \A t \in Threads \ deleted : t < cursor => t <= NextFlowop(cursor)
      <3>1. cursor \in 1..(NThreads + 1)
        BY <1>0, <2>1 DEF Threads
      <3> QED
        BY <3>1, NextFlowopFacts
    <2>3. Summed = Rolled \cup {cursor} /\ Rolled \in SUBSET Threads /\ cursor \notin Rolled
          /\ Summed \in SUBSET Threads
      BY <1>0, <2>1 DEF Summed, Rolled
    <2>4. /\ Summed' = Rolled' /\ Summed \in SUBSET Rolled' /\ Rolled' \in SUBSET Threads
          /\ Rolled' \ deleted = Summed \ deleted
      <3>1. Rolled' = {t \in Threads : t > NextFlowop(cursor)} /\ Summed' = Rolled'
        BY <2>1 DEF Summed, Rolled
      <3>2. \A t \in Threads : t >= cursor => t > NextFlowop(cursor)
        BY <1>0, <2>2
      <3>3. \A t \in Threads \ deleted : t > NextFlowop(cursor) => t >= cursor
        BY <1>0, <2>2
      <3>4. Summed = {t \in Threads : t >= cursor}
        <4>1. \A t \in Threads : t > cursor \/ t = cursor <=> t >= cursor
          BY <1>0
        <4> QED
          BY <2>1, <4>1 DEF Summed
      <3> QED
        BY <3>1, <3>2, <3>3, <3>4
    <2>5. /\ low + Total(atSnap, Rolled \ deleted) <= master
          /\ hit = {} => master <= high + Total(since, Rolled)
          /\ low + Total(atSnap, Summed \ deleted) <= globalstats
          /\ hit = {} => globalstats <= high + Total(since, Summed)
          /\ globalstats # -1 /\ globalstats \in Nat
      BY <2>1 DEF Reporting, TypeOK
    <2>6. /\ low + Total(atSnap, Summed \ deleted) <= master'
          /\ hit = {} => master' <= high + Total(since, Summed)
      BY <1>0, <2>1, <2>3, <2>5, AddFlowop
    <2>7. /\ Total(since, Summed) <= Total(since, Rolled')
          /\ Total(since, Summed) \in Nat /\ Total(since, Rolled') \in Nat
      <3>1. \A t \in Summed : since[t] <= since[t]
        BY <1>0, <2>3
      <3> QED
        BY <1>0, <2>3, <2>4, <3>1, ThreadTotals, ThreadFacts
    <2>8. hit = {} => master' <= high + Total(since, Rolled') /\ globalstats <= high + Total(since, Rolled')
      <3>1. master' \in Nat
        BY DEF TypeOK
      <3> QED
        BY <1>0, <2>5, <2>6, <2>7, <3>1
    <2>9. \A t \in Threads : atSnap[t] <= since[t]
      BY <2>1 DEF Reporting
    <2> QED
      BY <2>1, <2>4, <2>5, <2>6, <2>8, <2>9 DEF Reporting
  <1>8. CASE SnapEnd
    <2>1. /\ mpc = "snap" /\ mpc' = "idle" /\ cursor = 0
          /\ low' = low + Total(atSnap, Threads \ deleted)
          /\ high' = high + Total(since, Threads)
          /\ UNCHANGED <<globalstats, master, hit>>
      BY <1>8 DEF SnapEnd, threadVars
    <2>2. Summed = Threads /\ Rolled = Threads
      <3>1. \A t \in Threads : t > 0
        BY DEF Threads
      <3> QED
        BY <2>1, <3>1 DEF Summed, Rolled
    <2>3. /\ low + Total(atSnap, Threads \ deleted) <= globalstats
          /\ low + Total(atSnap, Threads \ deleted) <= master
          /\ hit = {} => /\ globalstats <= high + Total(since, Threads)
                         /\ master <= high + Total(since, Threads)
      BY <2>1, <2>2 DEF Reporting
    <2> QED
      BY <2>1, <2>3 DEF Reporting
  <1> QED
    BY <1>1, <1>2, <1>3, <1>4, <1>5, <1>6, <1>7, <1>8 DEF Master, Walk

-----------------------------------------------------------------------------
(* The invariant is inductive.                                             *)

\* The invariant holds initially.
LEMMA InitIInv == Init => IInv
  <1> SUFFICES ASSUME Init PROVE IInv
    OBVIOUS
  <1>0. TypeOK /\ Limit \in Nat /\ Iters \in [Threads -> Nat \ {0}]
    BY InitTypes, StatsAssumption
  <1>1. Iterating
    BY <1>0 DEF Init, Iterating
  <1>2. Frozen /\ BytesCounted /\ Counters /\ Reporting
    BY DEF Init, Frozen, BytesCounted, Counters, Reporting, Zero
  <1>3. Bounded
    <2> DEFINE f == [t \in Threads |-> Rem(t)]
    <2> SUFFICES ASSUME NEW p \in DOMAIN controlstats
                 PROVE  controlstats[p].bytes + Total(f, Own(p)) <= Limit + Total(Iters, Own(p))
      BY DEF Bounded
    <2>1. \A t \in Own(p) : f[t] = Iters[t]
      BY DEF Init, Rem, Own
    <2>2. Total(f, Own(p)) = Total(Iters, Own(p))
      BY <2>1, TotalSame
    <2>3. Own(p) \in SUBSET Threads /\ Iters \in [Threads -> Nat]
      BY <1>0 DEF Own
    <2>4. Total(Iters, Own(p)) \in Nat
      BY <2>3, ThreadFacts
    <2>5. controlstats[p].bytes = 0
      BY DEF Init, Zero
    <2> QED
      BY <1>0, <2>2, <2>4, <2>5
  <1> QED
    BY <1>0, <1>1, <1>2, <1>3 DEF IInv

\* Every step keeps the invariant.
LEMMA NextIInv == IInv /\ [Next]_vars => IInv'
  <1> SUFFICES ASSUME IInv, [Next]_vars PROVE IInv'
    OBVIOUS
  <1>1. CASE Next
    <2>1. TypeOK'
      BY <1>1, ThreadTypes, MasterTypes DEF Next, Master, IInv
    <2>2. Iterating'
      BY <1>1, IteratingNext
    <2>3. Reporting'
      BY <1>1, <2>1, ReportingThread, ReportingMaster DEF Next, Master
    <2> QED
      BY <1>1, <2>1, <2>2, <2>3, FrozenNext, BytesCountedNext, BoundedNext, CountersNext DEF IInv
  <1>2. CASE UNCHANGED vars
    <2> USE <1>2 DEF vars, threadVars, ghosts
    <2>2. TypeOK' = TypeOK /\ Iterating' = Iterating /\ BytesCounted' = BytesCounted
      BY DEF TypeOK, Iterating, BytesCounted
    <2>3. Frozen' = Frozen /\ Counters' = Counters
      BY DEF Frozen, Counters, Todo
    <2>4. Bounded' = Bounded
      BY DEF Bounded, Rem, Enough, Value
    <2>5. Reporting' = Reporting
      BY DEF Reporting, Summed, Rolled
    <2> QED
      BY <2>2, <2>3, <2>4, <2>5 DEF IInv
  <1> QED
    BY <1>1, <1>2

\* The invariant holds of every behaviour.
LEMMA Invariance == Spec => []IInv
  BY InitIInv, NextIInv, PTL DEF Spec

-----------------------------------------------------------------------------
(* Theorems.                                                               *)

\* All variables keep their types: the counters of flowop_endop() and stats.c are
\* natural numbers, although they are written without locks.
THEOREM StatsTypes == Spec => []TypeOK
  <1>1. IInv => TypeOK
    BY DEF IInv
  <1> QED
    BY <1>1, Invariance, PTL

\* What the snapshots since the last clear have printed lies between what had been
\* counted when they began, by the flowops that are still there, and what had been
\* counted when they ended, although stats_snap() waits for no thread.
THEOREM StatsReport == Spec => []ReportBounded
  <1>1. IInv => ReportBounded
    BY DEF IInv, Reporting, ReportBounded
  <1> QED
    BY <1>1, Invariance, PTL

\* While shm_bequiet is set a thread counts at most the operations of the flowop it
\* was in: the loop of flowop_start() looks at the flag between flowops only.
THEOREM StatsFreeze == Spec => []FreezeHolds
  <1>1. IInv => FreezeHolds
    <2> SUFFICES ASSUME IInv, mpc \in {"snap", "roll"}, NEW t \in Threads
                 PROVE  since[t] - atSnap[t] <= Iters[t]
      BY DEF FreezeHolds
    <2>1. since[t] - atSnap[t] + Todo(t) <= Iters[t]
      BY DEF IInv, Frozen
    <2>2. since[t] \in Nat /\ atSnap[t] \in Nat /\ Todo(t) \in Nat /\ Iters[t] \in Nat
      BY StatsAssumption DEF IInv, TypeOK, Todo
    <2> QED
      BY <2>1, <2>2
  <1> QED
    BY <1>1, Invariance, PTL

\* finishoncount and finishonbytes without target stop a process in time, whatever
\* number of threads read its counters at once.
THEOREM StatsFinish == Spec => []FinishBounded
  <1>1. IInv => FinishBounded
    <2> DEFINE f == [t \in Threads |-> Rem(t)]
    <2> SUFFICES ASSUME IInv, NEW p \in DOMAIN controlstats, Own(p) \cap kind.targeted = {}
                 PROVE  controlstats[p].bytes <= Limit + Total(Iters, Own(p))
      BY DEF FinishBounded, Own
    <2>1. controlstats[p].bytes + Total(f, Own(p)) <= Limit + Total(Iters, Own(p))
      BY DEF IInv, Bounded
    <2>2. f \in [Threads -> Nat] /\ Own(p) \in SUBSET Threads /\ Iters \in [Threads -> Nat]
      BY RemFacts, StatsAssumption DEF IInv, Own
    <2>3. Total(f, Own(p)) \in Nat /\ Total(Iters, Own(p)) \in Nat
      BY <2>2, ThreadFacts
    <2>4. controlstats[p].bytes \in Nat /\ Limit \in Nat
      BY StatsAssumption DEF IInv, TypeOK
    <2> HIDE DEF f
    <2> QED
      BY <2>1, <2>3, <2>4
  <1> QED
    BY <1>1, Invariance, PTL
=============================================================================
