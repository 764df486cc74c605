----------------------------- MODULE IsmProofs -----------------------------
(***************************************************************************)
(* Proofs about Ism, for any number of processes and runs, any sizes, and  *)
(* whichever system calls fail.                                            *)
(***************************************************************************)
EXTENDS Ism, Sums, FiniteSetTheorems, TLAPS

-----------------------------------------------------------------------------
(* Sums over finite sets.                                                  *)

\* The units of one element are as many as the value there.
LEMMA UnitsOfOne ==
  ASSUME NEW x, NEW n \in Nat
  PROVE  IsFiniteSet({x} \X (1..n)) /\ Cardinality({x} \X (1..n)) = n
  <1>1. IsFiniteSet(1..n) /\ Cardinality(1..n) = n
    BY FS_Interval
  <1>2. IsFiniteSet({x}) /\ Cardinality({x}) = 1
    BY FS_Singleton
  <1>3. /\ IsFiniteSet({x} \X (1..n))
        /\ Cardinality({x} \X (1..n)) = Cardinality({x}) * Cardinality(1..n)
    BY <1>1, <1>2, FS_Product
  <1> QED
    BY <1>1, <1>2, <1>3

\* A sum over a finite set is a natural number.
LEMMA TotalType ==
  ASSUME NEW S, IsFiniteSet(S), NEW f, \A x \in S : f[x] \in Nat
  PROVE  IsFiniteSet(Units(f, S)) /\ Total(f, S) \in Nat
  <1> DEFINE Parts == {{x} \X (1..f[x]) : x \in S}
             part == [x \in S |-> {x} \X (1..f[x])]
  <1>1. part \in Surjection(S, Parts)
    BY DEF Surjection
  <1>2. IsFiniteSet(Parts)
    BY <1>1, FS_Surjection
  <1>3. \A x \in S : IsFiniteSet({x} \X (1..f[x]))
    BY UnitsOfOne
  <1>4. IsFiniteSet(UNION Parts)
    BY <1>2, <1>3, FS_UNION, Zenon
  <1> QED
    BY <1>4, FS_CardinalityType DEF Units, Total

\* The sum over nothing is 0.
LEMMA TotalEmpty ==
  ASSUME NEW f
  PROVE  Total(f, {}) = 0
  <1>1. Units(f, {}) = {}
    BY DEF Units
  <1> QED
    BY <1>1, FS_EmptySet DEF Total

\* An element adds its value.
LEMMA TotalAdd ==
  ASSUME NEW S, IsFiniteSet(S), NEW f, NEW y, y \notin S,
         \A x \in S \cup {y} : f[x] \in Nat
  PROVE  Total(f, S \cup {y}) = Total(f, S) + f[y]
  <1> DEFINE One == {y} \X (1..f[y])
  <1>1. Units(f, S \cup {y}) = Units(f, S) \cup One
    BY DEF Units
  <1>2. Units(f, S) \cap One = {}
    BY DEF Units
  <1>3. IsFiniteSet(Units(f, S)) /\ Total(f, S) \in Nat
    BY TotalType
  <1>4. IsFiniteSet(One) /\ Cardinality(One) = f[y]
    BY UnitsOfOne
  <1>5. Cardinality(Units(f, S) \cup One)
          = Cardinality(Units(f, S)) + Cardinality(One) - Cardinality(Units(f, S) \cap One)
    BY <1>3, <1>4, FS_Union
  <1>6. Cardinality(Units(f, S) \cap One) = 0
    BY <1>2, FS_EmptySet
  <1>7. f[y] \in Nat /\ Cardinality(Units(f, S)) \in Nat
    BY <1>3 DEF Total
  <1>8. Cardinality(Units(f, S) \cup One) = Cardinality(Units(f, S)) + f[y]
    BY <1>4, <1>5, <1>6, <1>7
  <1> QED
    BY <1>1, <1>8 DEF Total

\* So an element that leaves takes its value away.
LEMMA TotalRemove ==
  ASSUME NEW S, IsFiniteSet(S), NEW f, NEW y \in S, \A x \in S : f[x] \in Nat
  PROVE  Total(f, S \ {y}) = Total(f, S) - f[y]
  <1>1. IsFiniteSet(S \ {y})
    BY FS_RemoveElement
  <1>2. (S \ {y}) \cup {y} = S
    OBVIOUS
  <1>3. Total(f, S) = Total(f, S \ {y}) + f[y]
    BY <1>1, <1>2, TotalAdd
  <1>4. Total(f, S \ {y}) \in Nat
    BY <1>1, TotalType
  <1> QED
    BY <1>3, <1>4

\* Sums are monotone, in the function and in the set.
LEMMA TotalMonotone ==
  ASSUME NEW S, IsFiniteSet(S), NEW R \in SUBSET S, NEW f, NEW g,
         \A x \in S : g[x] \in Nat,
         \A x \in R : f[x] \in Nat /\ f[x] <= g[x]
  PROVE  Total(f, R) <= Total(g, S)
  <1>1. Units(f, R) \subseteq Units(g, S)
    <2> SUFFICES ASSUME NEW x \in R, NEW i \in 1..f[x] PROVE <<x, i>> \in Units(g, S)
      BY DEF Units
    <2>1. i \in 1..g[x]
      OBVIOUS
    <2> QED
      BY <2>1 DEF Units
  <1>2. IsFiniteSet(Units(g, S))
    BY TotalType
  <1> QED
    BY <1>1, <1>2, FS_Subset DEF Total

-----------------------------------------------------------------------------
(* The invariants.                                                         *)

SizeOf == [t \in Threads |-> Size(t)]

\* Threads that are in shm_required and have not moved shm_ptr yet.
Waiting == {t \in Threads :
              tst[t] \in {"created", "running", "locked", "attached", "read", "reread"}}

Dead == {"gone", "lost"}

\* Only threads of the current run exist, and none between runs.
Living ==
  /\ mpc \notin {"idle", "exit"} => run \in Runs
  /\ \A t \in Threads :
       /\ t[1] > run => tst[t] = "none"
       /\ t[1] < run => tst[t] \in Dead
       /\ t[1] = run /\ mpc \in {"idle", "delete", "exit"} => tst[t] \in Dead

\* Unless a thread came early: one at a time is past the lock, and none of them, nor
\* any that has been, before the master is done.
Alone ==
  ~early => \A t \in Threads :
    /\ tst[t] \in Section =>
         /\ mpc = "pause" /\ ism_lock
         /\ \A u \in Threads \ {t} : tst[u] \notin Section
    /\ tst[t] = "has" => mpc = "pause"

\* Then shm_ptr is still what the thread has read, until it moves it.
Taken ==
  ~early => \A t \in Threads :
    /\ tst[t] \in {"read", "reread"} => tf_mem[t] = shm_ptr
    /\ tst[t] = "reread" => next[t].off = tf_mem[t].off + Size(t)
    /\ tst[t] \in {"written", "has"} => tf_mem[t].off + Size(t) <= shm_ptr.off

\* One of two threads took its memory first, and the other one above it.
Apart ==
  ~early => \A t, u \in Threads :
    t # u /\ tst[t] \in {"written", "has"} /\ tst[u] \in {"written", "has"} =>
      \/ tf_mem[t].off + Size(t) <= tf_mem[u].off
      \/ tf_mem[u].off + Size(u) <= tf_mem[t].off

\* Early or not: what is still to be taken is required on top of wherever shm_ptr is,
\* was when a thread read it, or is about to be moved.
Covered ==
  /\ shm_ptr.off + Total(SizeOf, Waiting) <= shm_required
  /\ \A t \in Threads :
       /\ tst[t] = "read" => tf_mem[t].off + Total(SizeOf, Waiting) <= shm_required
       /\ tst[t] = "reread" => next[t].off + Total(SizeOf, Waiting) <= shm_required + Size(t)
       /\ tst[t] \in {"reread", "written", "has"} => tf_mem[t].off + Size(t) <= shm_required
       /\ tst[t] = "has" => map[t].region # None

IInv == TypeOK /\ Living /\ Alone /\ Taken /\ Apart /\ Covered
-----------------------------------------------------------------------------
(* Threads and sums.                                                       *)

\* What a thread is, and that there are finitely many.
LEMMA ThreadFacts ==
  /\ IsFiniteSet(Threads)
  /\ \A t \in Threads : t[1] \in Runs /\ t[1] \in Nat \ {0} /\ Size(t) \in Nat /\ SizeOf[t] = Size(t)
  <1>1. IsFiniteSet(Runs) /\ IsFiniteSet(1..Instances)
    BY IsmAssumption, FS_Interval DEF Runs
  <1>2. IsFiniteSet(Threads)
    BY <1>1, FS_Product DEF Threads
  <1>3. \A t \in Threads : t[1] \in Runs /\ t[1] \in Nat \ {0} /\ Size(t) \in Nat
    BY IsmAssumption DEF Threads, Runs, Size
  <1> QED
    BY <1>2, <1>3 DEF SizeOf

\* A set of threads is finite and its memory a number.
LEMMA WaitingType ==
  ASSUME NEW W \in SUBSET Threads
  PROVE  IsFiniteSet(W) /\ Total(SizeOf, W) \in Nat /\ \A t \in W : SizeOf[t] \in Nat
  <1>1. IsFiniteSet(W)
    BY ThreadFacts, FS_Subset
  <1>2. \A t \in W : SizeOf[t] \in Nat
    BY ThreadFacts
  <1> QED
    BY <1>1, <1>2, TotalType

\* Threads that stop waiting leave no more than there was.
LEMMA WaitingLess ==
  ASSUME NEW V \in SUBSET Threads, NEW W \in SUBSET V
  PROVE  Total(SizeOf, W) <= Total(SizeOf, V)
  <1>1. IsFiniteSet(V) /\ \A t \in V : SizeOf[t] \in Nat
    BY WaitingType
  <1>2. \A t \in W : SizeOf[t] \in Nat /\ SizeOf[t] <= SizeOf[t]
    BY <1>1
  <1> QED
    BY <1>1, <1>2, TotalMonotone

-----------------------------------------------------------------------------
(* The invariant is inductive.                                             *)

\* The invariant holds initially.
LEMMA InitIInv == Init => IInv
  <1> SUFFICES ASSUME Init PROVE IInv
    OBVIOUS
  <1> USE DEF Init
  <1>1. TypeOK
    <2>1. None \in 0..MaxRuns /\ Start(None) \in Pointers
      BY IsmAssumption DEF None, Pointers, Start
    <2>2. Nothing \in [region : 0..MaxRuns, base : {Bad} \cup 0..MaxRuns]
      BY <2>1 DEF Nothing
    <2> QED
      BY <2>1, <2>2, IsmAssumption DEF TypeOK, None
  <1>2. Waiting = {}
    BY DEF Waiting
  <1>3. Living /\ Alone /\ Taken /\ Apart
    BY ThreadFacts DEF Living, Alone, Taken, Apart, Section
  <1>4. Covered
    BY <1>2, TotalEmpty DEF Covered, None, Start
  <1> QED
    BY <1>1, <1>3, <1>4 DEF IInv

\* A thread comes nearer to its memory without anything being required or taken.
LEMMA NearerIInv ==
  ASSUME IInv, NEW t \in Threads, NEW to,
         \/ tst[t] = "forked" /\ to = "started"
         \/ tst[t] = "created" /\ to = "running",
         tst' = [tst EXCEPT ![t] = to],
         UNCHANGED <<shm_required, ismVars, map, tf_mem, next, masterVars, early>>
  PROVE  IInv'
  <1> USE DEF IInv, ismVars, regionVars, masterVars, Section
  <1>1. TypeOK'
    BY DEF TypeOK
  <1>2. /\ \A u \in Threads : u # t => tst'[u] = tst[u]
        /\ tst'[t] = to
    BY DEF TypeOK
  <1>3. Living' /\ Alone' /\ Taken' /\ Apart'
    BY <1>2 DEF Living, Alone, Taken, Apart, Dead
  <1>4. Waiting' = Waiting
    BY <1>2 DEF Waiting
  <1>5. Covered'
    BY <1>2, <1>4 DEF Covered
  <1> QED
    BY <1>1, <1>3, <1>5

\* threadflow_createthread() requires what the new thread is going to take.
LEMMA CreateThreadIInv == \A t \in Threads : IInv /\ CreateThread(t) => IInv'
  <1> SUFFICES ASSUME NEW t \in Threads, IInv, CreateThread(t) PROVE IInv'
    OBVIOUS
  <1> USE DEF IInv, CreateThread, ismVars, regionVars, masterVars
  <1>0. Size(t) \in Nat /\ SizeOf[t] = Size(t) /\ \A u \in Threads : Size(u) \in Nat
    BY ThreadFacts
  <1>1. TypeOK'
    BY <1>0 DEF TypeOK
  <1>2. /\ \A u \in Threads : u # t => tst'[u] = tst[u]
        /\ tst'[t] = "created"
    BY DEF TypeOK
  <1>3. Living' /\ Alone' /\ Taken' /\ Apart'
    BY <1>2 DEF Living, Alone, Taken, Apart, Section, Dead
  <1>4. Waiting' = Waiting \cup {t} /\ t \notin Waiting
    BY <1>2 DEF Waiting
  <1>5. Total(SizeOf, Waiting') = Total(SizeOf, Waiting) + Size(t)
    <2>1. IsFiniteSet(Waiting) /\ \A u \in Waiting \cup {t} : SizeOf[u] \in Nat
      BY <1>0, WaitingType DEF Waiting
    <2>2. Total(SizeOf, Waiting \cup {t}) = Total(SizeOf, Waiting) + SizeOf[t]
      BY <1>4, <2>1, TotalAdd
    <2> QED
      BY <1>0, <1>4, <2>2
  <1>6. Total(SizeOf, Waiting) \in Nat
    BY WaitingType DEF Waiting
  <1>7. Covered'
    <2>1. shm_required \in Nat /\ shm_ptr.off \in Nat
          /\ \A u \in Threads : tf_mem[u].off \in Nat /\ next[u].off \in Nat
      BY DEF TypeOK, Pointers
    <2>2. \A u \in Threads :
            tst'[u] \in {"read", "reread", "written", "has"} => tst'[u] = tst[u]
      BY <1>2
    <2> QED
      BY <1>0, <1>5, <1>6, <2>1, <2>2 DEF Covered
  <1> QED
    BY <1>1, <1>3, <1>7

\* Coming through shm_ism_lock: another thread is in there only if one came early.
LEMMA IsmLockIInv == \A t \in Threads : IInv /\ IsmLock(t) => IInv'
  <1> SUFFICES ASSUME NEW t \in Threads, IInv, IsmLock(t) PROVE IInv'
    OBVIOUS
  <1> USE DEF IInv, IsmLock, regionVars, masterVars, Section
  <1>1. TypeOK'
    BY DEF TypeOK
  <1>2. /\ \A u \in Threads : u # t => tst'[u] = tst[u]
        /\ tst'[t] = "locked"
    BY DEF TypeOK
  <1>3. ~early' => ~early /\ mpc = "pause"
    BY DEF TypeOK
  <1>4. Living' /\ Alone' /\ Taken' /\ Apart'
    BY <1>2, <1>3 DEF Living, Alone, Taken, Apart, Dead
  <1>5. Waiting' = Waiting
    BY <1>2 DEF Waiting
  <1>6. Covered'
    BY <1>2, <1>5 DEF Covered
  <1> QED
    BY <1>1, <1>4, <1>6

\* Attaching the region and reading shm_ptr.
LEMMA IsmTakeIInv == \A t \in Threads : IInv /\ (IsmAttach(t) \/ IsmTake(t)) => IInv'
  <1> SUFFICES ASSUME NEW t \in Threads, IInv, IsmAttach(t) \/ IsmTake(t) PROVE IInv'
    OBVIOUS
  <1> USE DEF IInv, IsmAttach, IsmTake, ismVars, regionVars, masterVars, Section
  <1>1. TypeOK'
    <2>1. map' \in [Threads -> [region : 0..MaxRuns, base : {Bad} \cup 0..MaxRuns]]
      BY DEF TypeOK
    <2>2. tst' \in [Threads -> Section \cup {"none", "forked", "started", "created", "running",
                                     "has", "crashed", "gone", "lost"}]
      BY DEF TypeOK
    <2>3. tf_mem' \in [Threads -> Pointers]
      BY DEF TypeOK
    <2> QED
      BY <2>1, <2>2, <2>3 DEF TypeOK
  <1>2. /\ \A u \in Threads :
             u # t => tst'[u] = tst[u] /\ tf_mem'[u] = tf_mem[u] /\ map'[u] = map[u]
        /\ tst[t] \in Section
        /\ \/ tst'[t] = "attached"
           \/ tst'[t] = "read" /\ tf_mem'[t] = shm_ptr
        /\ next' = next
    BY DEF TypeOK
  <1>3. Living' /\ Alone' /\ Taken' /\ Apart'
    BY <1>2 DEF Living, Alone, Taken, Apart, Dead
  <1>4. Waiting' = Waiting
    BY <1>2 DEF Waiting
  <1>5. Covered'
    BY <1>2, <1>4 DEF Covered
  <1> QED
    BY <1>1, <1>3, <1>5

\* Working out where shm_ptr is to be: no further than what is required.
LEMMA IsmAdvanceIInv == \A t \in Threads : IInv /\ IsmAdvance(t) => IInv'
  <1> SUFFICES ASSUME NEW t \in Threads, IInv, IsmAdvance(t) PROVE IInv'
    OBVIOUS
  <1> USE DEF IInv, IsmAdvance, ismVars, regionVars, masterVars
  <1>0. Size(t) \in Nat /\ SizeOf[t] = Size(t) /\ \A u \in Threads : Size(u) \in Nat
    BY ThreadFacts
  <1>1. PICK p \in {tf_mem[t], shm_ptr} :
          next' = [next EXCEPT ![t] = [p EXCEPT !.off = p.off + Size(t)]]
    OBVIOUS
  <1>2. p \in Pointers /\ p.off \in Nat
    BY DEF TypeOK, Pointers
  <1>3. [p EXCEPT !.off = p.off + Size(t)] \in Pointers
    BY <1>0, <1>2 DEF Pointers
  <1>4. TypeOK'
    BY <1>1, <1>3 DEF TypeOK, Section
  <1>5. /\ \A u \in Threads : u # t => tst'[u] = tst[u] /\ next'[u] = next[u]
        /\ tst[t] = "read" /\ tst'[t] = "reread"
        /\ next'[t].off = p.off + Size(t)
    BY <1>1, <1>2 DEF TypeOK, Pointers
  <1>6. Living' /\ Alone' /\ Apart'
    BY <1>5 DEF Living, Alone, Apart, Dead, Section
  <1>7. Taken'
    BY <1>1, <1>5 DEF Taken
  <1>8. Waiting' = Waiting /\ t \in Waiting
    BY <1>5 DEF Waiting
  <1>9. Size(t) <= Total(SizeOf, Waiting) /\ Total(SizeOf, Waiting) \in Nat
    <2>1. IsFiniteSet(Waiting) /\ Total(SizeOf, Waiting) \in Nat
          /\ \A u \in Waiting : SizeOf[u] \in Nat
      BY WaitingType DEF Waiting
    <2>2. Total(SizeOf, Waiting \ {t}) = Total(SizeOf, Waiting) - SizeOf[t]
      BY <1>8, <2>1, TotalRemove
    <2>3. Total(SizeOf, Waiting \ {t}) \in Nat
      BY WaitingType DEF Waiting
    <2> QED
      BY <1>0, <2>1, <2>2, <2>3
  <1>10. Covered'
    <2>1. shm_required \in Nat /\ shm_ptr.off \in Nat /\ tf_mem[t].off \in Nat
      BY DEF TypeOK, Pointers
    <2>2. tf_mem[t].off + Total(SizeOf, Waiting) <= shm_required
          /\ p.off + Total(SizeOf, Waiting) <= shm_required
      BY <1>1, <1>5 DEF Covered
    <2>3. /\ next'[t].off + Total(SizeOf, Waiting) <= shm_required + Size(t)
          /\ tf_mem[t].off + Size(t) <= shm_required
      BY <1>0, <1>2, <1>5, <1>9, <2>1, <2>2
    <2> QED
      BY <1>5, <1>8, <2>3 DEF Covered
  <1> QED
    BY <1>4, <1>6, <1>7, <1>10

\* shm_ptr is moved past what the thread takes, which is above what was taken before.
LEMMA IsmStoreIInv == \A t \in Threads : IInv /\ IsmStore(t) => IInv'
  <1> SUFFICES ASSUME NEW t \in Threads, IInv, IsmStore(t) PROVE IInv'
    OBVIOUS
  <1> USE DEF IInv, IsmStore, regionVars, masterVars
  <1>0. Size(t) \in Nat /\ SizeOf[t] = Size(t) /\ \A u \in Threads : Size(u) \in Nat
    BY ThreadFacts
  <1>1. TypeOK'
    BY DEF TypeOK, Section
  <1>2. /\ \A u \in Threads : u # t => tst'[u] = tst[u]
        /\ tst[t] = "reread" /\ tst'[t] = "written"
    BY DEF TypeOK
  <1>3. /\ shm_ptr.off \in Nat /\ shm_ptr' = next[t] /\ shm_required \in Nat
        /\ \A u \in Threads : tf_mem[u].off \in Nat /\ next[u].off \in Nat
    BY DEF TypeOK, Pointers
  <1>4. Living' /\ Alone'
    BY <1>2 DEF Living, Alone, Dead, Section
  <1>5. ASSUME ~early
        PROVE  /\ \A u \in Threads \ {t} : tst[u] \notin Section
               /\ tf_mem[t] = shm_ptr /\ next[t].off = shm_ptr.off + Size(t)
               /\ \A u \in Threads \ {t} :
                    tst[u] = "has" => tf_mem[u].off + Size(u) <= tf_mem[t].off
    BY <1>2, <1>5 DEF Alone, Taken, Section
  <1>6. Taken'
    <2> SUFFICES ASSUME ~early, NEW u \in Threads
                 PROVE  /\ tst'[u] \notin {"read", "reread"}
                        /\ tst'[u] \in {"written", "has"} =>
                             tf_mem[u].off + Size(u) <= shm_ptr'.off
      BY DEF Taken
    <2>1. CASE u = t
      BY <1>0, <1>2, <1>3, <1>5, <2>1
    <2>2. CASE u # t
      BY <1>0, <1>2, <1>3, <1>5, <2>2 DEF Section
    <2> QED
      BY <2>1, <2>2
  <1>7. Apart'
    BY <1>2, <1>5 DEF Apart, Section
  <1>8. Waiting' = Waiting \ {t} /\ t \in Waiting
    BY <1>2 DEF Waiting
  <1>9. /\ Total(SizeOf, Waiting') = Total(SizeOf, Waiting) - Size(t)
        /\ Total(SizeOf, Waiting) \in Nat
    <2>1. IsFiniteSet(Waiting) /\ Total(SizeOf, Waiting) \in Nat
          /\ \A u \in Waiting : SizeOf[u] \in Nat
      BY WaitingType DEF Waiting
    <2> QED
      BY <1>0, <1>8, <2>1, TotalRemove
  <1>10. Covered'
    <2>1. next[t].off + Total(SizeOf, Waiting) <= shm_required + Size(t)
      BY <1>2 DEF Covered
    <2>2. shm_ptr'.off + Total(SizeOf, Waiting') <= shm_required
      BY <1>0, <1>3, <1>9, <2>1
    <2>3. ASSUME NEW u \in Threads, tst'[u] = "read"
          PROVE  tf_mem[u].off + Total(SizeOf, Waiting') <= shm_required
      BY <1>0, <1>2, <1>3, <1>9, <2>3 DEF Covered
    <2>4. ASSUME NEW u \in Threads, tst'[u] = "reread"
          PROVE  next[u].off + Total(SizeOf, Waiting') <= shm_required + Size(u)
      BY <1>0, <1>2, <1>3, <1>9, <2>4 DEF Covered
    <2> QED
      BY <1>2, <2>2, <2>3, <2>4 DEF Covered
  <1> QED
    BY <1>1, <1>4, <1>6, <1>7, <1>10

\* The lock is released and the memory is used, or the thread faults.
LEMMA IsmUnlockIInv == \A t \in Threads : IInv /\ IsmUnlock(t) => IInv'
  <1> SUFFICES ASSUME NEW t \in Threads, IInv, IsmUnlock(t) PROVE IInv'
    OBVIOUS
  <1> USE DEF IInv, IsmUnlock, regionVars, masterVars, Section
  <1>1. /\ \A u \in Threads : u # t => tst'[u] = tst[u]
        /\ tst[t] = "written"
        /\ tst'[t] \in {"has", "crashed"}
        /\ tst'[t] = "has" => map[t].region # None
    BY DEF TypeOK
  <1>2. TypeOK'
    BY DEF TypeOK
  <1>3. Living' /\ Alone' /\ Taken' /\ Apart'
    BY <1>1 DEF Living, Alone, Taken, Apart, Dead
  <1>4. Waiting' = Waiting
    BY <1>1 DEF Waiting
  <1>5. Covered'
    BY <1>1, <1>4 DEF Covered
  <1> QED
    BY <1>2, <1>3, <1>5

\* A run starts when no thread is alive.
LEMMA StartRunIInv == IInv /\ StartRun => IInv'
  <1> SUFFICES ASSUME IInv, StartRun PROVE IInv'
    OBVIOUS
  <1> USE DEF IInv, StartRun, ismVars, regionVars
  <1>0. run \in Nat /\ run' = run + 1 /\ run' \in Runs
    BY IsmAssumption DEF TypeOK, Runs
  <1>1. TypeOK'
    <2>1. run' \in 0..MaxRuns
      BY <1>0, IsmAssumption DEF Runs
    <2>2. tst' \in [Threads -> Section \cup {"none", "forked", "started", "created", "running",
                                     "has", "crashed", "gone", "lost"}]
      BY DEF TypeOK
    <2> QED
      BY <2>1, <2>2 DEF TypeOK
  <1>2. ASSUME NEW t \in Threads
        PROVE  IF t[1] > run + 1 THEN tst'[t] = "none"
               ELSE IF t[1] = run + 1 THEN tst'[t] = "forked" ELSE tst'[t] \in Dead
    <2>1. t[1] \in Nat /\ run \in Nat
      BY <1>0, ThreadFacts
    <2>2. tst'[t] = IF t[1] = run + 1 THEN "forked" ELSE tst[t]
      OBVIOUS
    <2> QED
      BY <2>1, <2>2 DEF Living
  <1>3. \A t \in Threads : tst'[t] \in {"none", "forked"} \cup Dead
    BY <1>2
  <1>4. Living'
    BY <1>0, <1>2, ThreadFacts DEF Living
  <1>5. Alone' /\ Taken' /\ Apart'
    BY <1>3 DEF Alone, Taken, Apart, Section, Dead
  <1>6. Waiting' = {} /\ Total(SizeOf, Waiting) \in Nat
    BY <1>3, WaitingType DEF Waiting, Dead
  <1>7. shm_ptr.off \in Nat /\ shm_required \in Nat
    BY DEF TypeOK, Pointers
  <1>8. Covered'
    BY <1>3, <1>6, <1>7, TotalEmpty DEF Covered, Dead
  <1> QED
    BY <1>1, <1>4, <1>5, <1>8

\* The master goes on without touching shm_ptr or the lock.
LEMMA MasterIInv ==
  ASSUME IInv, TypeOK',
         mpc \in {"allstarted", "create", "attach"},
         mpc' \in {"allstarted", "create", "attach", "point", "pause"},
         UNCHANGED <<shm_required, shm_ptr, ism_lock, threadVars, run, early>>
  PROVE  IInv'
  <1> USE DEF IInv, threadVars
  <1>1. Living' /\ Taken' /\ Apart'
    BY DEF Living, Taken, Apart
  <1>2. Alone'
    BY DEF Alone
  <1>3. Waiting' = Waiting
    BY DEF Waiting
  <1>4. Covered'
    BY <1>3 DEF Covered
  <1> QED
    BY <1>1, <1>2, <1>4

\* ipc_ismcreate() moves shm_ptr and releases the lock when nobody is past it, unless
\* a thread came early; the sizes fit anyhow.
LEMMA CreatingIInv == IInv /\ Creating => IInv'
  <1> SUFFICES ASSUME IInv, Creating PROVE IInv'
    OBVIOUS
  <1> USE DEF IInv, ismVars, regionVars, threadVars
  <1>1. CASE (\E t \in Threads : AllStartedOne(t)) \/ AllStarted \/ IsmNotNeeded
    <2>1. TypeOK'
      BY <1>1 DEF TypeOK, AllStartedOne, AllStarted, IsmNotNeeded
    <2> QED
      BY <1>1, <2>1, MasterIInv DEF AllStartedOne, AllStarted, IsmNotNeeded
  <1>2. CASE IsmCreateGet \/ IsmCreateAttach
    <2>1. run \in Runs /\ run \in 0..MaxRuns
      BY <1>2 DEF IsmCreateGet, IsmCreateAttach, Living, TypeOK
    <2>2. TypeOK'
      BY <1>2, <2>1 DEF TypeOK, IsmCreateGet, IsmCreateAttach
    <2> QED
      BY <1>2, <2>2, MasterIInv DEF IsmCreateGet, IsmCreateAttach
  <1>3. CASE IsmCreatePoint \/ IsmCreateUnlock
    <2> USE DEF IsmCreatePoint, IsmCreateUnlock
    <2>1. TypeOK'
      <3>1. Start(shm_addr) \in Pointers
        BY DEF TypeOK, Pointers, Start
      <3> QED
        BY <1>3, <3>1 DEF TypeOK
    <2>2. Living'
      BY <1>3 DEF Living
    <2>3. ~early => \A t \in Threads : tst[t] \notin Section \cup {"has"}
      BY <1>3 DEF Alone
    <2>4. Alone' /\ Taken' /\ Apart'
      BY <1>3, <2>3 DEF Alone, Taken, Apart, Section
    <2>5. Waiting' = Waiting /\ Total(SizeOf, Waiting) \in Nat
      BY <1>3, WaitingType DEF Waiting
    <2>6. shm_ptr'.off \in {0, shm_ptr.off} /\ shm_ptr.off \in Nat /\ shm_required \in Nat
      BY <1>3 DEF TypeOK, Pointers, Start
    <2>7. shm_ptr'.off + Total(SizeOf, Waiting) <= shm_required
      BY <2>5, <2>6 DEF Covered
    <2>8. Covered'
      BY <1>3, <2>5, <2>7 DEF Covered
    <2> QED
      BY <2>1, <2>2, <2>4, <2>8
  <1> QED
    BY <1>1, <1>2, <1>3 DEF Creating, IsmCreate

\* procflow_shutdown() leaves no thread of the run.
LEMMA EndRunIInv == IInv /\ EndRun => IInv'
  <1> SUFFICES ASSUME IInv, EndRun PROVE IInv'
    OBVIOUS
  <1> USE DEF IInv, EndRun, ismVars, regionVars
  <1>1. TypeOK'
    BY IsmAssumption DEF TypeOK, Pointers, Start, Nothing, None
  <1>2. ASSUME NEW t \in Threads
        PROVE  IF t[1] > run THEN tst'[t] = "none" ELSE tst'[t] \in Dead
    <2>1. t[1] \in Nat /\ run \in Nat
      BY ThreadFacts, IsmAssumption DEF TypeOK
    <2>2. t[1] = run => tst'[t] \in Dead
      BY DEF ThisRun, Dead
    <2>3. t[1] # run => tst'[t] = tst[t]
      BY DEF ThisRun
    <2> QED
      BY <2>1, <2>2, <2>3 DEF Living
  <1>3. \A t \in Threads : tst'[t] \in {"none"} \cup Dead
    BY <1>2
  <1>4. Living'
    BY <1>2, ThreadFacts DEF Living, TypeOK
  <1>5. Alone' /\ Taken' /\ Apart'
    BY <1>3 DEF Alone, Taken, Apart, Section, Dead
  <1>6. Waiting' = {} /\ Total(SizeOf, Waiting) \in Nat
    BY <1>3, WaitingType DEF Waiting, Dead
  <1>7. shm_ptr.off \in Nat /\ shm_required \in Nat
    BY DEF TypeOK, Pointers
  <1>8. Covered'
    BY <1>3, <1>6, <1>7, TotalEmpty DEF Covered, Dead
  <1> QED
    BY <1>1, <1>4, <1>5, <1>8

\* ipc_ismdelete() takes the region away when no thread is alive.
LEMMA IsmDeleteIInv == IInv /\ IsmDelete => IInv'
  <1> SUFFICES ASSUME IInv, IsmDelete PROVE IInv'
    OBVIOUS
  <1> USE DEF IInv, IsmDelete, ismVars, regionVars, threadVars
  <1>1. TypeOK'
    BY IsmAssumption DEF TypeOK, None, Pointers, Start
  <1>2. \A t \in Threads : tst[t] \in {"none"} \cup Dead
    <2> SUFFICES ASSUME NEW t \in Threads PROVE tst[t] \in {"none"} \cup Dead
      OBVIOUS
    <2>1. t[1] \in Nat /\ run \in Nat
      BY ThreadFacts, IsmAssumption DEF TypeOK
    <2>2. t[1] > run \/ t[1] = run \/ t[1] < run
      BY <2>1
    <2> QED
      BY <2>2 DEF Living
  <1>3. Living'
    BY DEF Living
  <1>4. Alone' /\ Taken' /\ Apart'
    BY <1>2 DEF Alone, Taken, Apart, Section, Dead
  <1>5. Waiting' = Waiting /\ Total(SizeOf, Waiting) \in Nat
    BY WaitingType DEF Waiting
  <1>6. shm_ptr'.off \in {0, shm_ptr.off} /\ shm_ptr.off \in Nat /\ shm_required \in Nat
    BY DEF TypeOK, Pointers, Start
  <1>7. shm_ptr'.off + Total(SizeOf, Waiting) <= shm_required
    BY <1>5, <1>6 DEF Covered
  <1>8. Covered'
    BY <1>2, <1>5, <1>7 DEF Covered, Dead
  <1> QED
    BY <1>1, <1>3, <1>4, <1>8

\* Every step keeps the invariant.
LEMMA NextIInv == IInv /\ [Next]_vars => IInv'
  <1> SUFFICES ASSUME IInv, [Next]_vars PROVE IInv'
    OBVIOUS
  <1>1. ASSUME NEW t \in Threads, ThreadRuns(t) PROVE IInv'
    <2>1. CASE ProcessStarts(t)
      BY <2>1, NearerIInv DEF ProcessStarts
    <2>2. CASE ThreadStarts(t)
      BY <2>2, NearerIInv DEF ThreadStarts
    <2>3. CASE IsmMalloc(t)
      BY <2>3, IsmLockIInv, IsmTakeIInv, IsmAdvanceIInv, IsmStoreIInv, IsmUnlockIInv
         DEF IsmMalloc
    <2> QED
      BY <1>1, <2>1, <2>2, <2>3, CreateThreadIInv DEF ThreadRuns
  <1>2. CASE Quit \/ UNCHANGED vars
    <2>1. UNCHANGED <<shm_required, ismVars, threadVars, seen, run, early>>
          /\ (mpc' = mpc \/ (mpc = "idle" /\ mpc' = "exit"))
      <3>1. CASE Quit
        BY <3>1 DEF Quit
      <3>2. CASE UNCHANGED vars
        BY <3>2 DEF vars, masterVars
      <3> QED
        BY <1>2, <3>1, <3>2
    <2> USE DEF IInv, ismVars, regionVars, threadVars
    <2>2. TypeOK'
      BY <2>1 DEF TypeOK
    <2>3. Living' /\ Taken' /\ Apart'
      BY <2>1 DEF Living, Taken, Apart
    <2>4. Alone'
      BY <2>1 DEF Alone
    <2>5. Waiting' = Waiting
      BY <2>1 DEF Waiting
    <2>6. Covered'
      BY <2>1, <2>5 DEF Covered
    <2> QED
      BY <2>2, <2>3, <2>4, <2>6
  <1> QED
    BY <1>1, <1>2, StartRunIInv, CreatingIInv, EndRunIInv, IsmDeleteIInv DEF Next

\* The invariant holds of every behaviour.
LEMMA Invariance == Spec => []IInv
  BY InitIInv, NextIInv, PTL DEF Spec

-----------------------------------------------------------------------------
(* Theorems.                                                               *)

\* The variables have their types: no thread is given memory at an address that
\* ipc_ismmalloc() could not have computed.
THEOREM IsmTypes == Spec => []TypeOK
  <1>1. IInv => TypeOK
    BY DEF IInv
  <1> QED
    BY <1>1, Invariance, PTL

\* Threads that called ipc_ismmalloc() share no memory, in whatever order they did and
\* whichever system calls failed, in every run in which none of them came through the
\* lock before ipc_ismcreate() had released it.
THEOREM IsmDisjoint == Spec => []ChunksDisjoint
  <1>1. IInv => ChunksDisjoint
    <2> SUFFICES ASSUME IInv, ~early, NEW t \in Threads, NEW u \in Threads, t # u,
                        tst[t] = "has", tst[u] = "has"
                 PROVE  ~Overlap(t, u)
      BY DEF ChunksDisjoint
    <2>1. /\ tf_mem[t].off \in Nat /\ tf_mem[u].off \in Nat
          /\ Size(t) \in Nat /\ Size(u) \in Nat
      BY ThreadFacts DEF IInv, TypeOK, Pointers
    <2> QED
      BY <2>1 DEF IInv, Apart, Overlap
  <1> QED
    BY <1>1, Invariance, PTL

\* Memory lies inside the region, or shm_required has grown since the region was
\* made: that is the only way to run over the end of it, early threads or not.
THEOREM IsmFits == Spec => []FitsUnlessLate
  <1>1. IInv => FitsUnlessLate
    <2> SUFFICES ASSUME IInv, NEW t \in Threads, tst[t] = "has",
                        ~(tf_mem[t].off + Size(t) <= region[map[t].region])
                 PROVE  shm_required > region[map[t].region]
      BY DEF FitsUnlessLate
    <2>1. map[t].region \in Runs
      BY IsmAssumption DEF IInv, Covered, TypeOK, Runs, None
    <2>2. /\ tf_mem[t].off \in Nat /\ Size(t) \in Nat /\ shm_required \in Nat
          /\ region[map[t].region] \in Nat
      BY <2>1, ThreadFacts DEF IInv, TypeOK, Pointers
    <2>3. tf_mem[t].off + Size(t) <= shm_required
      BY DEF IInv, Covered
    <2> QED
      BY <2>2, <2>3
  <1> QED
    BY <1>1, Invariance, PTL
=============================================================================
