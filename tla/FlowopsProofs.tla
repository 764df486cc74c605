--------------------------- MODULE FlowopsProofs ---------------------------
(***************************************************************************)
(* What holds of the run-time flowops of Flowops for any programs, threads *)
(* and number of slots.                                                    *)
(***************************************************************************)
EXTENDS Flowops, FiniteSetTheorems, WellFoundedInduction, TLAPS

-----------------------------------------------------------------------------
(* The pool.                                                               *)

\* A number below 2n is within one turn of n.
LEMMA OneTurn ==
  ASSUME NEW n \in Nat \ {0}, NEW a \in 0..(2 * n - 1)
  PROVE  a % n = IF a < n THEN a ELSE a - n
  <1>1. CASE a < n
    BY <1>1
  <1>2. CASE a >= n
    <2>1. PICK b \in Nat : a = n + b /\ b < n
      BY <1>2
    <2>2. (n + b) % n = b
      BY <2>1
    <2> QED
      BY <2>1, <2>2
  <1> QED
    BY <1>1, <1>2

\* A set of numbers that is not empty has a least element.
LEMMA Least ==
  ASSUME NEW T \in SUBSET Nat, T # {}
  PROVE  \E x \in T : \A y \in T : x <= y
  <1> PICK n \in T : TRUE
    OBVIOUS
  <1> DEFINE U == 0..n
             S == {a \in T : a <= n}
             Down == {0..a : a \in S}
  <1>1. IsFiniteSet(U)
    BY FS_Interval
  <1>2. IsWellFoundedOn(StrictSubsetOrdering(U), SUBSET U)
    BY <1>1, FS_StrictSubsetOrderingWellFounded, FS_FiniteSubsetsOfFinite
  <1>3. Down \subseteq SUBSET U /\ Down # {}
    <2>1. \A a \in S : 0..a \subseteq U
      OBVIOUS
    <2>2. n \in S
      OBVIOUS
    <2> HIDE DEF S
    <2>3. Down \subseteq SUBSET U
      BY <2>1, Zenon
    <2>4. Down # {}
      BY <2>2, Zenon
    <2> QED
      BY <2>3, <2>4
  <1>4. PICK x \in Down : \A y \in Down : ~(<<y, x>> \in StrictSubsetOrdering(U))
    BY <1>2, <1>3, WFMin
  <1>5. PICK a \in S : x = 0..a
    BY <1>4
  <1>6. ASSUME NEW b \in S, b < a PROVE FALSE
    <2>1. 0..b \in Down /\ 0..b \in SUBSET U /\ 0..a \in SUBSET U
      OBVIOUS
    <2>2. 0..b \subseteq 0..a /\ 0..b # 0..a
      BY <1>6
    <2>3. <<0..b, 0..a>> \in StrictSubsetOrdering(U)
      BY <2>1, <2>2 DEF StrictSubsetOrdering
    <2> QED
      BY <1>4, <1>5, <2>1, <2>3
  <1>7. \A y \in T : a <= y
    BY <1>6
  <1> QED
    BY <1>7

\* The state of the pool.
PoolOK == shm_bitmap \subseteq Slots /\ shm_lastbitmapindex \in Slots

\* ipc_malloc() returns a free slot, or none when the slot it starts from is the
\* only one that may be free.
LEMMA MallocFacts ==
  ASSUME PoolOK
  PROVE  /\ ipc_malloc # NULL => ipc_malloc \in Slots \ shm_bitmap
         /\ ipc_malloc = NULL => Slots \ shm_bitmap \subseteq {shm_lastbitmapindex}
  <1> DEFINE last == shm_lastbitmapindex
  <1>1. NSlots \in Nat \ {0} /\ last \in 0..(NSlots - 1) /\ NULL \notin Slots
    BY ProgramAssumption DEF PoolOK, Slots
  <1>2. \A k \in 1..(NSlots - 1) :
          (last + k) % NSlots = IF last + k < NSlots THEN last + k ELSE (last + k) - NSlots
    <2> TAKE k \in 1..(NSlots - 1)
    <2>1. last + k \in 0..(2 * NSlots - 1)
      BY <1>1
    <2>2. \A a \in 0..(2 * NSlots - 1) : a % NSlots = IF a < NSlots THEN a ELSE a - NSlots
      BY <1>1, OneTurn
    <2> QED
      BY <2>1, <2>2, Zenon
  <1>3. CASE Turns = {}
    <2>1. ASSUME NEW s \in Slots \ shm_bitmap, s # last PROVE FALSE
      <3>1. s \in 0..(NSlots - 1)
        BY DEF Slots
      <3>2. CASE s > last
        <4>1. s - last \in 1..(NSlots - 1) /\ (last + (s - last)) = s
          BY <1>1, <3>1, <3>2
        <4>2. (last + (s - last)) % NSlots = s
          BY <1>1, <1>2, <3>1, <4>1
        <4> QED
          BY <1>3, <2>1, <4>1, <4>2 DEF Turns
      <3>3. CASE s < last
        <4>1. s + NSlots - last \in 1..(NSlots - 1) /\ last + (s + NSlots - last) = s + NSlots
          BY <1>1, <3>1, <3>3
        <4>2. (last + (s + NSlots - last)) % NSlots = s
          BY <1>1, <1>2, <3>1, <4>1
        <4> QED
          BY <1>3, <2>1, <4>1, <4>2 DEF Turns
      <3> QED
        BY <1>1, <2>1, <3>1, <3>2, <3>3
    <2>2. ipc_malloc = NULL
      BY <1>3 DEF ipc_malloc
    <2> QED
      BY <2>1, <2>2
  <1>4. CASE Turns # {}
    <2>1. Turns \in SUBSET Nat
      BY <1>1 DEF Turns
    <2>2. \E x \in Turns : \A y \in Turns : x <= y
      BY <1>4, <2>1, Least
    <2>3. Min(Turns) \in Turns
      BY <2>2 DEF Min
    <2>4. Min(Turns) \in 1..(NSlots - 1) /\ (last + Min(Turns)) % NSlots \notin shm_bitmap
      BY <2>3 DEF Turns
    <2>5. (last + Min(Turns)) % NSlots \in Slots
      BY <1>1, <1>2, <2>4 DEF Slots
    <2> QED
      BY <1>1, <1>4, <2>4, <2>5 DEF ipc_malloc
  <1> QED
    BY <1>3, <1>4

-----------------------------------------------------------------------------
(* The slots of the threads.                                               *)

\* The functions that are kept for threads and for slots.
Shape ==
  /\ DOMAIN pc = Threads /\ DOMAIN ip = Threads /\ DOMAIN jp = Threads
  /\ DOMAIN cur = Threads /\ DOMAIN res = Threads
  /\ DOMAIN flowop = Slots /\ DOMAIN fo_next = Slots
  /\ DOMAIN fo_resultnext = Slots /\ DOMAIN fo_targetnext = Slots /\ DOMAIN fo_targets = Slots

PrivateOK ==
  /\ tf_thrd_fops \in [Threads -> Seq(Slots)]
  /\ fo_comp_fops \in [Slots -> Seq(Slots)]
  /\ fo_exec_next \in [Slots -> Slots \cup {NULL}]

LoopPcs == {"loop", "blocked", "barrier", "find", "walk", "copy", "store", "follow", "wake"}

DeletePcs == {"inner", "seek", "unlink", "free", "next"}

\* The inner flowops of the i-th flowop of a thread.
Inner(t, i) == fo_comp_fops[tf_thrd_fops[t][i]]

\* The first slot of a list, as a pointer.
First(list) == IF list = <<>> THEN NULL ELSE list[1]

\* Where a thread is.
PosOK(t) ==
  /\ pc[t] \in {"start", "held"} => ip[t] = 1 /\ jp[t] = 0 /\ tf_thrd_fops[t] = <<>>
  /\ pc[t] = "create" =>
       /\ ip[t] \in 1..Len(Program[t])
       /\ jp[t] \in 0..Len(Program[t][ip[t]].inner)
       /\ Len(tf_thrd_fops[t]) = (IF jp[t] = 0 THEN ip[t] - 1 ELSE ip[t])
  /\ pc[t] \in LoopPcs => /\ ip[t] \in 1..Len(tf_thrd_fops[t])
                          /\ jp[t] \in 0..Len(Inner(t, ip[t]))
  /\ pc[t] = "destruct" => ip[t] \in Nat \ {0}
  /\ pc[t] \in DeletePcs => ip[t] \in 1..Len(tf_thrd_fops[t])

\* An allocated flowop of this run that the thread has made.
Mine(s, t) == s \in shm_bitmap /\ flowop[s].thread = t /\ flowop[s].run = run

\* The flowops of a thread are its own and different, and its composites' lists
\* are linked by fo_exec_next.
Owned(t) ==
  /\ \A i \in 1..Len(tf_thrd_fops[t]) : Mine(tf_thrd_fops[t][i], t)
  /\ \A i \in 1..Len(tf_thrd_fops[t]) : \A j \in 1..Len(Inner(t, i)) :
       /\ Mine(Inner(t, i)[j], t)
       /\ \A k \in 1..Len(tf_thrd_fops[t]) : Inner(t, i)[j] # tf_thrd_fops[t][k]
       /\ \A k \in 1..Len(tf_thrd_fops[t]) : \A l \in 1..Len(Inner(t, k)) :
            Inner(t, i)[j] = Inner(t, k)[l] => tf_thrd_fops[t][i] = tf_thrd_fops[t][k] /\ j = l
       /\ fo_exec_next[Inner(t, i)[j]] =
            IF j < Len(Inner(t, i)) THEN Inner(t, i)[j + 1] ELSE NULL

\* The flowop a thread is deleting is off its lists, and leads to what is left.
Dest(t) ==
  /\ pc[t] = "inner" => res[t] = First(Inner(t, ip[t]))
  /\ pc[t] \in {"seek", "unlink", "free"} =>
       /\ Mine(res[t], t)
       /\ \A i \in 1..Len(tf_thrd_fops[t]) :
            /\ res[t] # tf_thrd_fops[t][i]
            /\ \A j \in 1..Len(Inner(t, i)) : res[t] # Inner(t, i)[j]
       /\ fo_exec_next[res[t]] = First(Inner(t, ip[t]))
  /\ pc[t] = "next" =>
       /\ res[t] \in Slots
       /\ flowop[res[t]].thread = t => fo_exec_next[res[t]] = First(Inner(t, ip[t]))

TInv(t) == pc[t] # "exited" => PosOK(t) /\ Owned(t) /\ Dest(t)

SlotInv == "link" \notin raced => PrivateOK /\ \A t \in Threads : TInv(t)

\* What the threads' private state depends on.
ownVars == <<shm_bitmap, flowop, privateVars, run>>

\* A thread keeps its private state when no step of another touches it.
LEMMA SameOwned ==
  ASSUME NEW u \in Threads, Owned(u), UNCHANGED ownVars
  PROVE  Owned(u)'
  BY DEF Owned, Mine, Inner, ownVars, privateVars

\* The same, with where it is.
LEMMA SameThread ==
  ASSUME NEW u \in Threads, TInv(u), UNCHANGED ownVars,
         pc'[u] = pc[u], ip'[u] = ip[u], jp'[u] = jp[u], res'[u] = res[u]
  PROVE  TInv(u)'
  <1>1. CASE pc[u] = "exited"
    BY <1>1 DEF TInv
  <1>2. CASE pc[u] # "exited"
    <2>1. PosOK(u) /\ Owned(u) /\ Dest(u)
      BY <1>2 DEF TInv
    <2>2. PosOK(u)'
      BY <2>1 DEF PosOK, Inner, ownVars, privateVars
    <2>3. Dest(u)'
      BY <2>1 DEF Dest, Inner, Mine, First, ownVars, privateVars
    <2> QED
      BY <2>1, <2>2, <2>3, SameOwned DEF TInv
  <1> QED
    BY <1>1, <1>2

\* The pool and the functions keep their shape.
LEMMA ShapeStep ==
  ASSUME PoolOK, Shape, [Next]_vars
  PROVE  PoolOK' /\ Shape'
  <1> USE DEF Shape, poolVars, listVars, findVars, privateVars, posVars, lockVars, runVars
  <1>1. ASSUME NEW t \in Threads, CreateLock(t) PROVE PoolOK' /\ Shape'
    BY <1>1 DEF CreateLock, PoolOK
  <1>2. ASSUME NEW t \in Threads, Define(t) PROVE PoolOK' /\ Shape'
    <2>1. ipc_malloc \in Slots \ shm_bitmap
      BY <1>2, MallocFacts DEF Define
    <2>2. shm_bitmap' = shm_bitmap \cup {ipc_malloc} /\ shm_lastbitmapindex' = ipc_malloc
      BY <1>2 DEF Define
    <2>3. PoolOK'
      BY <2>1, <2>2 DEF PoolOK
    <2>4. Shape'
      BY <1>2 DEF Define, GoOn
    <2> QED
      BY <2>3, <2>4
  <1>3. ASSUME NEW t \in Threads, DefineFails(t) PROVE PoolOK' /\ Shape'
    BY <1>3 DEF DefineFails, GoOn, PoolOK
  <1>4. ASSUME NEW t \in Threads, Composite(t) PROVE PoolOK' /\ Shape'
    BY <1>4 DEF Composite, AdvanceAll, PoolOK
  <1>5. ASSUME NEW t \in Threads, Block(t) PROVE PoolOK' /\ Shape'
    BY <1>5 DEF Block, PoolOK
  <1>6. ASSUME NEW t \in Threads, Wakeup(t) PROVE PoolOK' /\ Shape'
    BY <1>6 DEF Wakeup, PoolOK
  <1>7. ASSUME NEW t \in Threads, flowop_find_barrier(t) PROVE PoolOK' /\ Shape'
    BY <1>7 DEF flowop_find_barrier, PoolOK
  <1>8. ASSUME NEW t \in Threads, FindLock(t) PROVE PoolOK' /\ Shape'
    BY <1>8 DEF FindLock, PoolOK
  <1>9. ASSUME NEW t \in Threads, Walk(t) PROVE PoolOK' /\ Shape'
    BY <1>9 DEF Walk, PoolOK
  <1>10. ASSUME NEW t \in Threads, Found(t) PROVE PoolOK' /\ Shape'
    BY <1>10 DEF Found, PoolOK
  <1>11. ASSUME NEW t \in Threads, CopyRead(t) \/ CopyStore(t) \/ CopyFollow(t) PROVE PoolOK' /\ Shape'
    BY <1>11 DEF CopyRead, CopyStore, CopyFollow, PoolOK
  <1>12. ASSUME NEW t \in Threads, Broadcast(t) PROVE PoolOK' /\ Shape'
    BY <1>12 DEF Broadcast, AdvanceAll, PoolOK
  <1>13. ASSUME NEW t \in Threads, WakeupDone(t) PROVE PoolOK' /\ Shape'
    BY <1>13 DEF WakeupDone, AdvanceAll, PoolOK
  <1>14. ASSUME NEW t \in Threads, Leave(t) PROVE PoolOK' /\ Shape'
    BY <1>14 DEF Leave, PoolOK
  <1>15. ASSUME NEW t \in Threads, Destruct(t) PROVE PoolOK' /\ Shape'
    BY <1>15 DEF Destruct, PoolOK
  <1>16. ASSUME NEW t \in Threads, Delete(t) PROVE PoolOK' /\ Shape'
    BY <1>16 DEF Delete, PoolOK
  <1>17. ASSUME NEW t \in Threads, Seek(t) PROVE PoolOK' /\ Shape'
    BY <1>17 DEF Seek, PoolOK
  <1>18. ASSUME NEW t \in Threads, Unlink(t) PROVE PoolOK' /\ Shape'
    BY <1>18 DEF Unlink, PoolOK
  <1>19. ASSUME NEW t \in Threads, Free(t) PROVE PoolOK' /\ Shape'
    BY <1>19 DEF Free, PoolOK
  <1>20. ASSUME NEW t \in Threads, NextInner(t) PROVE PoolOK' /\ Shape'
    BY <1>20 DEF NextInner, PoolOK
  <1>21. ASSUME NEW t \in Threads, DeletedAll(t) PROVE PoolOK' /\ Shape'
    BY <1>21 DEF DeletedAll, PoolOK
  <1>27. ASSUME NEW t \in Threads, TakeFindLock(t) PROVE PoolOK' /\ Shape'
    BY <1>27 DEF TakeFindLock, PoolOK
  <1>22. ASSUME NEW t \in Threads, Kill(t) PROVE PoolOK' /\ Shape'
    BY <1>22 DEF Kill, PoolOK
  <1>23. CASE AllStarted
    BY <1>23 DEF AllStarted, PoolOK
  <1>24. CASE Abort
    BY <1>24 DEF Abort, PoolOK
  <1>25. CASE NextRun
    BY <1>25 DEF NextRun, PoolOK
  <1>26. CASE UNCHANGED vars
    BY <1>26 DEF vars, PoolOK
  <1> QED
    BY <1>1, <1>2, <1>3, <1>4, <1>5, <1>6, <1>7, <1>8, <1>9, <1>10, <1>11, <1>12, <1>13, <1>14, <1>15, <1>16, <1>17, <1>18, <1>19, <1>20, <1>21, <1>22, <1>23, <1>24, <1>25, <1>26, <1>27 DEF Next, Step, Flow

\* A step of one thread that leaves all private lists alone.
LEMMA QuietStep ==
  ASSUME SlotInv, NEW t \in Threads, UNCHANGED ownVars, raced \subseteq raced',
         \A u \in Threads \ {t} : /\ pc'[u] = pc[u] /\ ip'[u] = ip[u]
                                 /\ jp'[u] = jp[u] /\ res'[u] = res[u],
         PrivateOK /\ TInv(t) /\ "link" \notin raced' => TInv(t)'
  PROVE  SlotInv'
  <1> SUFFICES ASSUME "link" \notin raced'
               PROVE  PrivateOK' /\ \A u \in Threads : TInv(u)'
    BY DEF SlotInv
  <1>1. PrivateOK /\ \A u \in Threads : TInv(u)
    BY DEF SlotInv
  <1>2. PrivateOK'
    BY <1>1 DEF PrivateOK, ownVars, privateVars
  <1>3. ASSUME NEW u \in Threads PROVE TInv(u)'
    BY <1>1, <1>3, SameThread, Zenon
  <1> QED
    BY <1>2, <1>3

\* Going on to the next flowop stays in the lists.
LEMMA AdvancePos ==
  ASSUME PrivateOK, NEW T, AdvanceAll(T), NEW u \in Threads, u \in T,
         ip[u] \in 1..Len(tf_thrd_fops[u]), jp[u] \in 0..Len(Inner(u, ip[u]))
  PROVE  ip'[u] \in 1..Len(tf_thrd_fops[u]) /\ jp'[u] \in 0..Len(Inner(u, ip'[u]))
  <1> DEFINE list == tf_thrd_fops[u]
  <1>1. /\ list \in Seq(Slots) /\ Len(list) \in Nat \ {0}
        /\ \A i \in 1..Len(list) : Len(Inner(u, i)) \in Nat
    BY DEF PrivateOK, Inner
  <1>2. CASE jp[u] # 0 /\ jp[u] < Len(Inner(u, ip[u]))
    <2>1. jp'[u] = jp[u] + 1 /\ ip'[u] = ip[u]
      BY <1>2 DEF AdvanceAll, Inner
    <2> QED
      BY <1>1, <1>2, <2>1
  <1>3. CASE ~(jp[u] # 0 /\ jp[u] < Len(Inner(u, ip[u])))
    <2>1. jp'[u] = 0 /\ ip'[u] = (ip[u] % Len(list)) + 1
      BY <1>3 DEF AdvanceAll, Inner
    <2>2. \A n \in Nat \ {0} : \A k \in 1..n : (k % n) + 1 \in 1..n
      OBVIOUS
    <2>3. ip'[u] \in 1..Len(list)
      BY <1>1, <2>1, <2>2
    <2> QED
      BY <1>1, <2>1, <2>3
  <1> QED
    BY <1>2, <1>3

\* The steps of a thread that leave all private lists alone.
QuietAction(t) ==
  \/ TakeFindLock(t) \/ CreateLock(t) \/ DefineFails(t) \/ Composite(t) \/ Block(t) \/ Wakeup(t) \/ flowop_find_barrier(t)
  \/ FindLock(t) \/ Walk(t) \/ Found(t) \/ CopyRead(t) \/ CopyStore(t) \/ CopyFollow(t) \/ WakeupDone(t) \/ Leave(t)
  \/ Destruct(t) \/ Seek(t) \/ Unlink(t) \/ NextInner(t) \/ DeletedAll(t) \/ Kill(t)

\* They keep every thread's slots.
LEMMA QuietSlots ==
  ASSUME PoolOK, Shape, SlotInv, NEW t \in Threads, QuietAction(t)
  PROVE  SlotInv'
  <1> USE DEF Shape, poolVars, listVars, findVars, posVars, lockVars, runVars, ownVars
  <1>0. /\ Len(Program[t]) \in Nat \ {0}
        /\ \A i \in 1..Len(Program[t]) : Len(Program[t][i].inner) \in Nat
    BY ProgramAssumption
  <1>21. CASE TakeFindLock(t)
    <2>1. /\ UNCHANGED ownVars /\ raced \subseteq raced'
          /\ \A u \in Threads \ {t} : /\ pc'[u] = pc[u] /\ ip'[u] = ip[u]
                                     /\ jp'[u] = jp[u] /\ res'[u] = res[u]
      BY <1>21 DEF TakeFindLock
    <2>2. ASSUME PrivateOK, TInv(t), "link" \notin raced', pc'[t] # "exited" PROVE TInv(t)'
      <3>1. pc[t] # "exited" /\ PosOK(t) /\ Owned(t) /\ Dest(t)
        BY <1>21, <2>2 DEF TInv, TakeFindLock
      <3>2. PosOK(t)'
        BY <1>0, <1>21, <2>1, <2>2, <3>1 DEF TakeFindLock, PosOK, PrivateOK, Inner, privateVars, LoopPcs, DeletePcs
      <3>3. Dest(t)'
        BY <1>21, <2>1, <2>2, <3>1 DEF TakeFindLock, Dest, Inner, First, Mine, PoolOK, privateVars
      <3> QED
        BY <2>1, <3>1, <3>2, <3>3, SameOwned DEF TInv
    <2>3. pc'[t] = "exited" => TInv(t)'
      BY DEF TInv
    <2> QED
      BY <2>1, <2>2, <2>3, QuietStep
  <1>1. CASE CreateLock(t)
    <2>1. /\ UNCHANGED ownVars /\ raced \subseteq raced'
          /\ \A u \in Threads \ {t} : /\ pc'[u] = pc[u] /\ ip'[u] = ip[u]
                                     /\ jp'[u] = jp[u] /\ res'[u] = res[u]
      BY <1>1 DEF CreateLock
    <2>2. ASSUME PrivateOK, TInv(t), "link" \notin raced', pc'[t] # "exited" PROVE TInv(t)'
      <3>1. pc[t] # "exited" /\ PosOK(t) /\ Owned(t) /\ Dest(t)
        BY <1>1, <2>2 DEF TInv, CreateLock
      <3>2. PosOK(t)'
        BY <1>0, <1>1, <2>1, <2>2, <3>1 DEF CreateLock, PosOK, PrivateOK, Inner, privateVars, LoopPcs, DeletePcs
      <3>3. Dest(t)'
        BY <1>1, <2>1, <2>2, <3>1 DEF CreateLock, Dest, Inner, First, Mine, PoolOK, privateVars
      <3> QED
        BY <2>1, <3>1, <3>2, <3>3, SameOwned DEF TInv
    <2>3. pc'[t] = "exited" => TInv(t)'
      BY DEF TInv
    <2> QED
      BY <2>1, <2>2, <2>3, QuietStep
  <1>2. CASE DefineFails(t)
    <2>1. /\ UNCHANGED ownVars /\ raced \subseteq raced'
          /\ \A u \in Threads \ {t} : /\ pc'[u] = pc[u] /\ ip'[u] = ip[u]
                                     /\ jp'[u] = jp[u] /\ res'[u] = res[u]
      BY <1>2 DEF DefineFails, GoOn
    <2>2. ASSUME PrivateOK, TInv(t), "link" \notin raced', pc'[t] # "exited" PROVE TInv(t)'
      <3>1. pc[t] # "exited" /\ PosOK(t) /\ Owned(t) /\ Dest(t)
        BY <1>2, <2>2 DEF TInv, DefineFails, GoOn
      <3>2. PosOK(t)'
        <4>1. /\ pc[t] = "create" /\ jp[t] # 0 /\ ip[t] \in 1..Len(Program[t]) /\ Len(tf_thrd_fops[t]) = ip[t]
              /\ jp'[t] = 0 /\ tf_thrd_fops' = tf_thrd_fops /\ fo_comp_fops' = fo_comp_fops
          BY <1>2, <2>1, <2>2, <3>1 DEF DefineFails, GoOn, PosOK, privateVars
        <4>2. Len(Program'[t]) = Len(Program[t]) /\ \A i \in 1..Len(tf_thrd_fops[t]) : Len(Inner(t, i)) \in Nat
          BY <2>2 DEF PrivateOK, Inner
        <4>3. CASE ip[t] < Len(Program[t])
          <5>1. pc'[t] = "create" /\ ip'[t] = ip[t] + 1
            BY <1>2, <4>1, <4>3 DEF DefineFails, GoOn
          <5>2. ip[t] + 1 \in 1..Len(Program[t]) /\ (ip[t] + 1) - 1 = ip[t]
            BY <1>0, <4>1, <4>3
          <5>3. 0 \in 0..Len(Program[t][ip[t] + 1].inner)
            BY <1>0, <5>2
          <5> QED
            BY <4>1, <5>1, <5>2, <5>3 DEF PosOK, LoopPcs, DeletePcs
        <4>4. CASE ~(ip[t] < Len(Program[t]))
          <5>1. pc'[t] = "loop" /\ ip'[t] = 1
            BY <1>2, <4>1, <4>4 DEF DefineFails, GoOn
          <5> QED
            BY <1>0, <4>1, <4>2, <5>1 DEF PosOK, Inner, LoopPcs, DeletePcs
        <4> QED
          BY <4>3, <4>4
      <3>3. Dest(t)'
        BY <1>2, <2>1, <2>2, <3>1 DEF DefineFails, GoOn, Dest, Inner, First, Mine, PoolOK, privateVars
      <3> QED
        BY <2>1, <3>1, <3>2, <3>3, SameOwned DEF TInv
    <2>3. pc'[t] = "exited" => TInv(t)'
      BY DEF TInv
    <2> QED
      BY <2>1, <2>2, <2>3, QuietStep
  <1>3. CASE Composite(t)
    <2>1. /\ UNCHANGED ownVars /\ raced \subseteq raced'
          /\ \A u \in Threads \ {t} : /\ pc'[u] = pc[u] /\ ip'[u] = ip[u]
                                     /\ jp'[u] = jp[u] /\ res'[u] = res[u]
      BY <1>3 DEF Composite, AdvanceAll, Calls
    <2>2. ASSUME PrivateOK, TInv(t), "link" \notin raced', pc'[t] # "exited" PROVE TInv(t)'
      <3>1. pc[t] # "exited" /\ PosOK(t) /\ Owned(t) /\ Dest(t)
        BY <1>3, <2>2 DEF TInv, Composite, AdvanceAll, Calls
      <3>2. PosOK(t)'
        <4>1. pc'[t] = "loop" /\ pc[t] = "loop"
          BY <1>3 DEF Composite, Calls
        <4>2. CASE fo_comp_fops[At(t)] = <<>>
          <5>1. /\ ip'[t] \in 1..Len(tf_thrd_fops[t]) /\ jp'[t] \in 0..Len(Inner(t, ip'[t]))
            BY <1>3, <2>2, <3>1, <4>1, <4>2, AdvancePos DEF Composite, PosOK, LoopPcs
          <5> QED
            BY <2>1, <4>1, <5>1 DEF PosOK, Inner, privateVars, LoopPcs, DeletePcs
        <4>3. CASE fo_comp_fops[At(t)] # <<>>
          <5>1. /\ ip[t] \in 1..Len(tf_thrd_fops[t]) /\ jp[t] \in 0..Len(Inner(t, ip[t]))
                /\ ip'[t] = ip[t] /\ jp'[t] = 1
            BY <1>3, <3>1, <4>1, <4>3 DEF Composite, PosOK, LoopPcs
          <5>3. Inner(t, ip[t]) \in Seq(Slots)
            BY <2>2, <5>1 DEF PrivateOK, Inner
          <5>2. Len(Inner(t, ip[t])) \in Nat \ {0}
            BY <4>3, <5>1, <5>3 DEF At, Inner
          <5> QED
            BY <2>1, <4>1, <5>1, <5>2 DEF PosOK, Inner, privateVars, LoopPcs, DeletePcs
        <4> QED
          BY <4>2, <4>3
      <3>3. Dest(t)'
        BY <1>3, <2>1, <2>2, <3>1 DEF Composite, AdvanceAll, Calls, Dest, Inner, First, Mine, PoolOK, privateVars
      <3> QED
        BY <2>1, <3>1, <3>2, <3>3, SameOwned DEF TInv
    <2>3. pc'[t] = "exited" => TInv(t)'
      BY DEF TInv
    <2> QED
      BY <2>1, <2>2, <2>3, QuietStep
  <1>4. CASE Block(t)
    <2>1. /\ UNCHANGED ownVars /\ raced \subseteq raced'
          /\ \A u \in Threads \ {t} : /\ pc'[u] = pc[u] /\ ip'[u] = ip[u]
                                     /\ jp'[u] = jp[u] /\ res'[u] = res[u]
      BY <1>4 DEF Block, Calls
    <2>2. ASSUME PrivateOK, TInv(t), "link" \notin raced', pc'[t] # "exited" PROVE TInv(t)'
      <3>1. pc[t] # "exited" /\ PosOK(t) /\ Owned(t) /\ Dest(t)
        BY <1>4, <2>2 DEF TInv, Block, Calls
      <3>2. PosOK(t)'
        BY <1>0, <1>4, <2>1, <2>2, <3>1 DEF Block, Calls, PosOK, PrivateOK, Inner, privateVars, LoopPcs, DeletePcs
      <3>3. Dest(t)'
        BY <1>4, <2>1, <2>2, <3>1 DEF Block, Calls, Dest, Inner, First, Mine, PoolOK, privateVars
      <3> QED
        BY <2>1, <3>1, <3>2, <3>3, SameOwned DEF TInv
    <2>3. pc'[t] = "exited" => TInv(t)'
      BY DEF TInv
    <2> QED
      BY <2>1, <2>2, <2>3, QuietStep
  <1>5. CASE Wakeup(t)
    <2>1. /\ UNCHANGED ownVars /\ raced \subseteq raced'
          /\ \A u \in Threads \ {t} : /\ pc'[u] = pc[u] /\ ip'[u] = ip[u]
                                     /\ jp'[u] = jp[u] /\ res'[u] = res[u]
      BY <1>5 DEF Wakeup, Calls
    <2>2. ASSUME PrivateOK, TInv(t), "link" \notin raced', pc'[t] # "exited" PROVE TInv(t)'
      <3>1. pc[t] # "exited" /\ PosOK(t) /\ Owned(t) /\ Dest(t)
        BY <1>5, <2>2 DEF TInv, Wakeup, Calls
      <3>2. PosOK(t)'
        BY <1>0, <1>5, <2>1, <2>2, <3>1 DEF Wakeup, Calls, PosOK, PrivateOK, Inner, privateVars, LoopPcs, DeletePcs
      <3>3. Dest(t)'
        BY <1>5, <2>1, <2>2, <3>1 DEF Wakeup, Calls, Dest, Inner, First, Mine, PoolOK, privateVars
      <3> QED
        BY <2>1, <3>1, <3>2, <3>3, SameOwned DEF TInv
    <2>3. pc'[t] = "exited" => TInv(t)'
      BY DEF TInv
    <2> QED
      BY <2>1, <2>2, <2>3, QuietStep
  <1>6. CASE flowop_find_barrier(t)
    <2>1. /\ UNCHANGED ownVars /\ raced \subseteq raced'
          /\ \A u \in Threads \ {t} : /\ pc'[u] = pc[u] /\ ip'[u] = ip[u]
                                     /\ jp'[u] = jp[u] /\ res'[u] = res[u]
      BY <1>6 DEF flowop_find_barrier
    <2>2. ASSUME PrivateOK, TInv(t), "link" \notin raced', pc'[t] # "exited" PROVE TInv(t)'
      <3>1. pc[t] # "exited" /\ PosOK(t) /\ Owned(t) /\ Dest(t)
        BY <1>6, <2>2 DEF TInv, flowop_find_barrier
      <3>2. PosOK(t)'
        BY <1>0, <1>6, <2>1, <2>2, <3>1 DEF flowop_find_barrier, PosOK, PrivateOK, Inner, privateVars, LoopPcs, DeletePcs
      <3>3. Dest(t)'
        BY <1>6, <2>1, <2>2, <3>1 DEF flowop_find_barrier, Dest, Inner, First, Mine, PoolOK, privateVars
      <3> QED
        BY <2>1, <3>1, <3>2, <3>3, SameOwned DEF TInv
    <2>3. pc'[t] = "exited" => TInv(t)'
      BY DEF TInv
    <2> QED
      BY <2>1, <2>2, <2>3, QuietStep
  <1>7. CASE FindLock(t)
    <2>1. /\ UNCHANGED ownVars /\ raced \subseteq raced'
          /\ \A u \in Threads \ {t} : /\ pc'[u] = pc[u] /\ ip'[u] = ip[u]
                                     /\ jp'[u] = jp[u] /\ res'[u] = res[u]
      BY <1>7 DEF FindLock
    <2>2. ASSUME PrivateOK, TInv(t), "link" \notin raced', pc'[t] # "exited" PROVE TInv(t)'
      <3>1. pc[t] # "exited" /\ PosOK(t) /\ Owned(t) /\ Dest(t)
        BY <1>7, <2>2 DEF TInv, FindLock
      <3>2. PosOK(t)'
        BY <1>0, <1>7, <2>1, <2>2, <3>1 DEF FindLock, PosOK, PrivateOK, Inner, privateVars, LoopPcs, DeletePcs
      <3>3. Dest(t)'
        BY <1>7, <2>1, <2>2, <3>1 DEF FindLock, Dest, Inner, First, Mine, PoolOK, privateVars
      <3> QED
        BY <2>1, <3>1, <3>2, <3>3, SameOwned DEF TInv
    <2>3. pc'[t] = "exited" => TInv(t)'
      BY DEF TInv
    <2> QED
      BY <2>1, <2>2, <2>3, QuietStep
  <1>8. CASE Walk(t)
    <2>1. /\ UNCHANGED ownVars /\ raced \subseteq raced'
          /\ \A u \in Threads \ {t} : /\ pc'[u] = pc[u] /\ ip'[u] = ip[u]
                                     /\ jp'[u] = jp[u] /\ res'[u] = res[u]
      BY <1>8 DEF Walk
    <2>2. ASSUME PrivateOK, TInv(t), "link" \notin raced', pc'[t] # "exited" PROVE TInv(t)'
      <3>1. pc[t] # "exited" /\ PosOK(t) /\ Owned(t) /\ Dest(t)
        BY <1>8, <2>2 DEF TInv, Walk
      <3>2. PosOK(t)'
        BY <1>0, <1>8, <2>1, <2>2, <3>1 DEF Walk, PosOK, PrivateOK, Inner, privateVars, LoopPcs, DeletePcs
      <3>3. Dest(t)'
        BY <1>8, <2>1, <2>2, <3>1 DEF Walk, Dest, Inner, First, Mine, PoolOK, privateVars
      <3> QED
        BY <2>1, <3>1, <3>2, <3>3, SameOwned DEF TInv
    <2>3. pc'[t] = "exited" => TInv(t)'
      BY DEF TInv
    <2> QED
      BY <2>1, <2>2, <2>3, QuietStep
  <1>9. CASE Found(t)
    <2>1. /\ UNCHANGED ownVars /\ raced \subseteq raced'
          /\ \A u \in Threads \ {t} : /\ pc'[u] = pc[u] /\ ip'[u] = ip[u]
                                     /\ jp'[u] = jp[u] /\ res'[u] = res[u]
      BY <1>9 DEF Found
    <2>2. ASSUME PrivateOK, TInv(t), "link" \notin raced', pc'[t] # "exited" PROVE TInv(t)'
      <3>1. pc[t] # "exited" /\ PosOK(t) /\ Owned(t) /\ Dest(t)
        BY <1>9, <2>2 DEF TInv, Found
      <3>2. PosOK(t)'
        BY <1>0, <1>9, <2>1, <2>2, <3>1 DEF Found, PosOK, PrivateOK, Inner, privateVars, LoopPcs, DeletePcs
      <3>3. Dest(t)'
        BY <1>9, <2>1, <2>2, <3>1 DEF Found, Dest, Inner, First, Mine, PoolOK, privateVars
      <3> QED
        BY <2>1, <3>1, <3>2, <3>3, SameOwned DEF TInv
    <2>3. pc'[t] = "exited" => TInv(t)'
      BY DEF TInv
    <2> QED
      BY <2>1, <2>2, <2>3, QuietStep
  <1>10. CASE CopyRead(t) \/ CopyStore(t) \/ CopyFollow(t)
    <2>1. /\ UNCHANGED ownVars /\ raced \subseteq raced'
          /\ \A u \in Threads \ {t} : /\ pc'[u] = pc[u] /\ ip'[u] = ip[u]
                                     /\ jp'[u] = jp[u] /\ res'[u] = res[u]
      BY <1>10 DEF CopyRead, CopyStore, CopyFollow
    <2>2. ASSUME PrivateOK, TInv(t), "link" \notin raced', pc'[t] # "exited" PROVE TInv(t)'
      <3>1. pc[t] # "exited" /\ PosOK(t) /\ Owned(t) /\ Dest(t)
        BY <1>10, <2>2 DEF TInv, CopyRead, CopyStore, CopyFollow
      <3>2. PosOK(t)'
        BY <1>0, <1>10, <2>1, <2>2, <3>1 DEF CopyRead, CopyStore, CopyFollow, PosOK, PrivateOK, Inner, privateVars, LoopPcs, DeletePcs
      <3>3. Dest(t)'
        BY <1>10, <2>1, <2>2, <3>1 DEF CopyRead, CopyStore, CopyFollow, Dest, Inner, First, Mine, PoolOK, privateVars
      <3> QED
        BY <2>1, <3>1, <3>2, <3>3, SameOwned DEF TInv
    <2>3. pc'[t] = "exited" => TInv(t)'
      BY DEF TInv
    <2> QED
      BY <2>1, <2>2, <2>3, QuietStep
  <1>11. CASE WakeupDone(t)
    <2>1. /\ UNCHANGED ownVars /\ raced \subseteq raced'
          /\ \A u \in Threads \ {t} : /\ pc'[u] = pc[u] /\ ip'[u] = ip[u]
                                     /\ jp'[u] = jp[u] /\ res'[u] = res[u]
      BY <1>11 DEF WakeupDone, AdvanceAll
    <2>2. ASSUME PrivateOK, TInv(t), "link" \notin raced', pc'[t] # "exited" PROVE TInv(t)'
      <3>1. pc[t] # "exited" /\ PosOK(t) /\ Owned(t) /\ Dest(t)
        BY <1>11, <2>2 DEF TInv, WakeupDone, AdvanceAll
      <3>2. PosOK(t)'
        <4>1. /\ ip'[t] \in 1..Len(tf_thrd_fops[t]) /\ jp'[t] \in 0..Len(Inner(t, ip'[t]))
          BY <1>11, <2>2, <3>1, AdvancePos DEF WakeupDone, PosOK, LoopPcs
        <4>2. pc'[t] = "loop"
          BY <1>11 DEF WakeupDone
        <4> QED
          BY <2>1, <4>1, <4>2 DEF PosOK, Inner, privateVars, LoopPcs, DeletePcs
      <3>3. Dest(t)'
        BY <1>11, <2>1, <2>2, <3>1 DEF WakeupDone, AdvanceAll, Dest, Inner, First, Mine, PoolOK, privateVars
      <3> QED
        BY <2>1, <3>1, <3>2, <3>3, SameOwned DEF TInv
    <2>3. pc'[t] = "exited" => TInv(t)'
      BY DEF TInv
    <2> QED
      BY <2>1, <2>2, <2>3, QuietStep
  <1>12. CASE Leave(t)
    <2>1. /\ UNCHANGED ownVars /\ raced \subseteq raced'
          /\ \A u \in Threads \ {t} : /\ pc'[u] = pc[u] /\ ip'[u] = ip[u]
                                     /\ jp'[u] = jp[u] /\ res'[u] = res[u]
      BY <1>12 DEF Leave
    <2>2. ASSUME PrivateOK, TInv(t), "link" \notin raced', pc'[t] # "exited" PROVE TInv(t)'
      <3>1. pc[t] # "exited" /\ PosOK(t) /\ Owned(t) /\ Dest(t)
        BY <1>12, <2>2 DEF TInv, Leave
      <3>2. PosOK(t)'
        BY <1>0, <1>12, <2>1, <2>2, <3>1 DEF Leave, PosOK, PrivateOK, Inner, privateVars, LoopPcs, DeletePcs
      <3>3. Dest(t)'
        BY <1>12, <2>1, <2>2, <3>1 DEF Leave, Dest, Inner, First, Mine, PoolOK, privateVars
      <3> QED
        BY <2>1, <3>1, <3>2, <3>3, SameOwned DEF TInv
    <2>3. pc'[t] = "exited" => TInv(t)'
      BY DEF TInv
    <2> QED
      BY <2>1, <2>2, <2>3, QuietStep
  <1>13. CASE Destruct(t)
    <2>1. /\ UNCHANGED ownVars /\ raced \subseteq raced'
          /\ \A u \in Threads \ {t} : /\ pc'[u] = pc[u] /\ ip'[u] = ip[u]
                                     /\ jp'[u] = jp[u] /\ res'[u] = res[u]
      BY <1>13 DEF Destruct
    <2>2. ASSUME PrivateOK, TInv(t), "link" \notin raced', pc'[t] # "exited" PROVE TInv(t)'
      <3>1. pc[t] # "exited" /\ PosOK(t) /\ Owned(t) /\ Dest(t)
        BY <1>13, <2>2 DEF TInv, Destruct
      <3>2. PosOK(t)'
        BY <1>0, <1>13, <2>1, <2>2, <3>1 DEF Destruct, PosOK, PrivateOK, Inner, privateVars, LoopPcs, DeletePcs
      <3>3. Dest(t)'
        BY <1>13, <2>1, <2>2, <3>1 DEF Destruct, Dest, Inner, First, Mine, PoolOK, privateVars
      <3> QED
        BY <2>1, <3>1, <3>2, <3>3, SameOwned DEF TInv
    <2>3. pc'[t] = "exited" => TInv(t)'
      BY DEF TInv
    <2> QED
      BY <2>1, <2>2, <2>3, QuietStep
  <1>14. CASE Seek(t)
    <2>1. /\ UNCHANGED ownVars /\ raced \subseteq raced'
          /\ \A u \in Threads \ {t} : /\ pc'[u] = pc[u] /\ ip'[u] = ip[u]
                                     /\ jp'[u] = jp[u] /\ res'[u] = res[u]
      BY <1>14 DEF Seek
    <2>2. ASSUME PrivateOK, TInv(t), "link" \notin raced', pc'[t] # "exited" PROVE TInv(t)'
      <3>1. pc[t] # "exited" /\ PosOK(t) /\ Owned(t) /\ Dest(t)
        BY <1>14, <2>2 DEF TInv, Seek
      <3>2. PosOK(t)'
        BY <1>0, <1>14, <2>1, <2>2, <3>1 DEF Seek, PosOK, PrivateOK, Inner, privateVars, LoopPcs, DeletePcs
      <3>3. Dest(t)'
        BY <1>14, <2>1, <2>2, <3>1 DEF Seek, Dest, Inner, First, Mine, PoolOK, privateVars
      <3> QED
        BY <2>1, <3>1, <3>2, <3>3, SameOwned DEF TInv
    <2>3. pc'[t] = "exited" => TInv(t)'
      BY DEF TInv
    <2> QED
      BY <2>1, <2>2, <2>3, QuietStep
  <1>15. CASE Unlink(t)
    <2>1. /\ UNCHANGED ownVars /\ raced \subseteq raced'
          /\ \A u \in Threads \ {t} : /\ pc'[u] = pc[u] /\ ip'[u] = ip[u]
                                     /\ jp'[u] = jp[u] /\ res'[u] = res[u]
      BY <1>15 DEF Unlink
    <2>2. ASSUME PrivateOK, TInv(t), "link" \notin raced', pc'[t] # "exited" PROVE TInv(t)'
      <3>1. pc[t] # "exited" /\ PosOK(t) /\ Owned(t) /\ Dest(t)
        BY <1>15, <2>2 DEF TInv, Unlink
      <3>2. PosOK(t)'
        BY <1>0, <1>15, <2>1, <2>2, <3>1 DEF Unlink, PosOK, PrivateOK, Inner, privateVars, LoopPcs, DeletePcs
      <3>3. Dest(t)'
        BY <1>15, <2>1, <2>2, <3>1 DEF Unlink, Dest, Inner, First, Mine, PoolOK, privateVars
      <3> QED
        BY <2>1, <3>1, <3>2, <3>3, SameOwned DEF TInv
    <2>3. pc'[t] = "exited" => TInv(t)'
      BY DEF TInv
    <2> QED
      BY <2>1, <2>2, <2>3, QuietStep
  <1>16. CASE NextInner(t)
    <2>1. /\ UNCHANGED ownVars /\ raced \subseteq raced'
          /\ \A u \in Threads \ {t} : /\ pc'[u] = pc[u] /\ ip'[u] = ip[u]
                                     /\ jp'[u] = jp[u] /\ res'[u] = res[u]
      BY <1>16 DEF NextInner
    <2>2. ASSUME PrivateOK, TInv(t), "link" \notin raced', pc'[t] # "exited" PROVE TInv(t)'
      <3>1. pc[t] # "exited" /\ PosOK(t) /\ Owned(t) /\ Dest(t)
        BY <1>16, <2>2 DEF TInv, NextInner
      <3>2. PosOK(t)'
        BY <1>0, <1>16, <2>1, <2>2, <3>1 DEF NextInner, PosOK, PrivateOK, Inner, privateVars, LoopPcs, DeletePcs
      <3>3. Dest(t)'
        BY <1>16, <2>1, <2>2, <3>1 DEF NextInner, Dest, Inner, First, Mine, PoolOK, privateVars
      <3> QED
        BY <2>1, <3>1, <3>2, <3>3, SameOwned DEF TInv
    <2>3. pc'[t] = "exited" => TInv(t)'
      BY DEF TInv
    <2> QED
      BY <2>1, <2>2, <2>3, QuietStep
  <1>17. CASE DeletedAll(t)
    <2>1. /\ UNCHANGED ownVars /\ raced \subseteq raced'
          /\ \A u \in Threads \ {t} : /\ pc'[u] = pc[u] /\ ip'[u] = ip[u]
                                     /\ jp'[u] = jp[u] /\ res'[u] = res[u]
      BY <1>17 DEF DeletedAll
    <2>2. ASSUME PrivateOK, TInv(t), "link" \notin raced', pc'[t] # "exited" PROVE TInv(t)'
      <3>1. pc[t] # "exited" /\ PosOK(t) /\ Owned(t) /\ Dest(t)
        BY <1>17, <2>2 DEF TInv, DeletedAll
      <3>2. PosOK(t)'
        BY <1>0, <1>17, <2>1, <2>2, <3>1 DEF DeletedAll, PosOK, PrivateOK, Inner, privateVars, LoopPcs, DeletePcs
      <3>3. Dest(t)'
        BY <1>17, <2>1, <2>2, <3>1 DEF DeletedAll, Dest, Inner, First, Mine, PoolOK, privateVars
      <3> QED
        BY <2>1, <3>1, <3>2, <3>3, SameOwned DEF TInv
    <2>3. pc'[t] = "exited" => TInv(t)'
      BY DEF TInv
    <2> QED
      BY <2>1, <2>2, <2>3, QuietStep
  <1>18. CASE Kill(t)
    <2>1. /\ UNCHANGED ownVars /\ raced \subseteq raced'
          /\ \A u \in Threads \ {t} : /\ pc'[u] = pc[u] /\ ip'[u] = ip[u]
                                     /\ jp'[u] = jp[u] /\ res'[u] = res[u]
      BY <1>18 DEF Kill
    <2>2. ASSUME PrivateOK, TInv(t), "link" \notin raced', pc'[t] # "exited" PROVE TInv(t)'
      <3>1. pc[t] # "exited" /\ PosOK(t) /\ Owned(t) /\ Dest(t)
        BY <1>18, <2>2 DEF TInv, Kill
      <3>2. PosOK(t)'
        BY <1>0, <1>18, <2>1, <2>2, <3>1 DEF Kill, PosOK, PrivateOK, Inner, privateVars, LoopPcs, DeletePcs
      <3>3. Dest(t)'
        BY <1>18, <2>1, <2>2, <3>1 DEF Kill, Dest, Inner, First, Mine, PoolOK, privateVars
      <3> QED
        BY <2>1, <3>1, <3>2, <3>3, SameOwned DEF TInv
    <2>3. pc'[t] = "exited" => TInv(t)'
      BY DEF TInv
    <2> QED
      BY <2>1, <2>2, <2>3, QuietStep
  <1> QED
    BY <1>1, <1>2, <1>3, <1>4, <1>5, <1>6, <1>7, <1>8, <1>9, <1>10, <1>11, <1>12, <1>13, <1>14, <1>15, <1>16, <1>17, <1>18, <1>21 DEF QuietAction

\* A broadcast moves the threads it wakes on, and no other.
LEMMA BroadcastSlots ==
  ASSUME Shape, SlotInv, NEW t \in Threads, Broadcast(t)
  PROVE  SlotInv'
  <1> DEFINE W == IF flowop[cur[t]].instance = FLOW_MASTER THEN {}
                  ELSE {u \in Threads : pc[u] = "blocked" /\ At(u) = cur[t]}
  <1>1. /\ UNCHANGED ownVars /\ raced' = raced /\ res' = res
        /\ pc' = [u \in Threads |-> IF u \in W THEN "loop" ELSE pc[u]]
        /\ AdvanceAll(W)
    BY DEF Broadcast, ownVars, privateVars, poolVars, listVars, runVars
  <1> SUFFICES ASSUME "link" \notin raced
               PROVE  PrivateOK' /\ \A u \in Threads : TInv(u)'
    BY <1>1 DEF SlotInv
  <1>2. PrivateOK /\ \A u \in Threads : TInv(u)
    BY DEF SlotInv
  <1>3. PrivateOK'
    BY <1>1, <1>2 DEF PrivateOK, ownVars, privateVars
  <1>4. \A u \in W : u \in Threads /\ pc[u] = "blocked"
    OBVIOUS
  <1> HIDE DEF W
  <1>5. ASSUME NEW u \in Threads PROVE TInv(u)'
    <2>1. CASE u \notin W
      <3>1. pc'[u] = pc[u] /\ ip'[u] = ip[u] /\ jp'[u] = jp[u] /\ res'[u] = res[u]
        BY <1>1, <2>1 DEF AdvanceAll
      <3> QED
        BY <1>1, <1>2, <3>1, SameThread
    <2>2. CASE u \in W
      <3>1. pc[u] = "blocked" /\ pc'[u] = "loop"
        BY <1>1, <1>4, <2>2
      <3>2. PosOK(u) /\ Owned(u)
        BY <1>2, <3>1 DEF TInv
      <3>3. ip'[u] \in 1..Len(tf_thrd_fops[u]) /\ jp'[u] \in 0..Len(Inner(u, ip'[u]))
        BY <1>1, <1>2, <2>2, <3>1, <3>2, AdvancePos DEF PosOK, LoopPcs
      <3>4. PosOK(u)'
        BY <1>1, <3>1, <3>3 DEF PosOK, Inner, ownVars, privateVars, LoopPcs, DeletePcs
      <3>5. Dest(u)'
        BY <3>1 DEF Dest
      <3> QED
        BY <1>1, <3>2, <3>4, <3>5, SameOwned DEF TInv
    <2> QED
      BY <2>1, <2>2
  <1> QED
    BY <1>3, <1>5

\* A thread keeps its private state when a step leaves alone the slots that are
\* its own.
LEMMA KeepThread ==
  ASSUME PoolOK, PrivateOK, NEW u \in Threads, TInv(u),
         tf_thrd_fops'[u] = tf_thrd_fops[u], run' = run,
         pc'[u] = pc[u], ip'[u] = ip[u], jp'[u] = jp[u], res'[u] = res[u],
         \A s \in Slots : Mine(s, u) => /\ s \in shm_bitmap' /\ flowop'[s] = flowop[s]
                                        /\ fo_comp_fops'[s] = fo_comp_fops[s],
         \A s \in Slots : flowop'[s].thread = u =>
                           flowop[s].thread = u /\ fo_exec_next'[s] = fo_exec_next[s]
  PROVE  TInv(u)'
  <1> SUFFICES ASSUME pc[u] # "exited" PROVE PosOK(u)' /\ Owned(u)' /\ Dest(u)'
    BY DEF TInv
  <1> DEFINE list == tf_thrd_fops[u]
  <1>1. PosOK(u) /\ Owned(u) /\ Dest(u)
    BY DEF TInv
  <1>2. ASSUME NEW s, Mine(s, u)
        PROVE  s \in Slots /\ Mine(s, u)' /\ fo_exec_next'[s] = fo_exec_next[s]
               /\ fo_comp_fops'[s] = fo_comp_fops[s]
    BY <1>2 DEF Mine, PoolOK
  <1>3. ASSUME NEW i \in 1..Len(list) PROVE Inner(u, i)' = Inner(u, i)
    <2>1. Mine(list[i], u)
      BY <1>1 DEF Owned
    <2> QED
      BY <1>2, <2>1 DEF Inner
  <1>4. PosOK(u)'
    BY <1>1, <1>3 DEF PosOK
  <1>5. Owned(u)'
    <2>1. \A i \in 1..Len(list) : Mine(list[i], u)'
      BY <1>1, <1>2 DEF Owned
    <2>2. ASSUME NEW i \in 1..Len(list), NEW j \in 1..Len(Inner(u, i))
          PROVE  /\ Mine(Inner(u, i)[j], u)
                 /\ \A k \in 1..Len(list) : Inner(u, i)[j] # list[k]
                 /\ \A k \in 1..Len(list) : \A l \in 1..Len(Inner(u, k)) :
                      Inner(u, i)[j] = Inner(u, k)[l] => list[i] = list[k] /\ j = l
                 /\ fo_exec_next[Inner(u, i)[j]] =
                      IF j < Len(Inner(u, i)) THEN Inner(u, i)[j + 1] ELSE NULL
      BY <1>1 DEF Owned
    <2>3. ASSUME NEW i \in 1..Len(list), NEW j \in 1..Len(Inner(u, i))
          PROVE  /\ Inner(u, i)[j] \in shm_bitmap'
                 /\ flowop'[Inner(u, i)[j]].thread = u /\ flowop'[Inner(u, i)[j]].run = run'
                 /\ fo_exec_next'[Inner(u, i)[j]] = fo_exec_next[Inner(u, i)[j]]
      <3>1. Mine(Inner(u, i)[j], u)
        BY <2>2
      <3> QED
        BY <1>2, <3>1 DEF Mine
    <2>4. ASSUME NEW i \in 1..Len(list), NEW j \in 1..Len(Inner(u, i)')
          PROVE  /\ Mine(Inner(u, i)[j], u)'
                 /\ \A k \in 1..Len(list) : Inner(u, i)'[j] # list[k]
                 /\ \A k \in 1..Len(list) : \A l \in 1..Len(Inner(u, k)') :
                      Inner(u, i)'[j] = Inner(u, k)'[l] => list[i] = list[k] /\ j = l
                 /\ fo_exec_next'[Inner(u, i)'[j]] =
                      IF j < Len(Inner(u, i)') THEN Inner(u, i)'[j + 1] ELSE NULL
      <3>1. Inner(u, i)' = Inner(u, i) /\ j \in 1..Len(Inner(u, i))
        BY <1>3
      <3>2. Mine(Inner(u, i)[j], u)'
        BY <2>3, <3>1 DEF Mine
      <3>3. \A k \in 1..Len(list) : \A l \in 1..Len(Inner(u, k)') :
              Inner(u, i)'[j] = Inner(u, k)'[l] => list[i] = list[k] /\ j = l
        <4> TAKE k \in 1..Len(list)
        <4> TAKE l \in 1..Len(Inner(u, k)')
        <4>1. Inner(u, k)' = Inner(u, k)
          BY <1>3
        <4> QED
          BY <2>2, <3>1, <4>1
      <3>4. fo_exec_next'[Inner(u, i)'[j]] =
              IF j < Len(Inner(u, i)') THEN Inner(u, i)'[j + 1] ELSE NULL
        BY <2>2, <2>3, <3>1
      <3> QED
        BY <2>2, <3>1, <3>2, <3>3, <3>4
    <2> QED
      BY <2>1, <2>4 DEF Owned
  <1>6. Dest(u)'
    <2>1. pc[u] \in DeletePcs => Inner(u, ip[u])' = Inner(u, ip[u])
      BY <1>1, <1>3 DEF PosOK
    <2>2. pc[u] = "inner" => Dest(u)'
      BY <1>1, <2>1 DEF Dest, DeletePcs
    <2>3. pc[u] \in {"seek", "unlink", "free"} => Dest(u)'
      BY <1>1, <1>2, <1>3, <2>1 DEF Dest, DeletePcs
    <2>4. pc[u] = "next" => Dest(u)'
      BY <1>1, <2>1 DEF Dest, DeletePcs
    <2>5. pc[u] \notin DeletePcs => Dest(u)'
      BY DEF Dest, DeletePcs
    <2> QED
      BY <2>2, <2>3, <2>4, <2>5 DEF DeletePcs
  <1> QED
    BY <1>4, <1>5, <1>6

\* What Owned() says of one inner flowop.
LEMMA OwnedFacts ==
  ASSUME NEW t, Owned(t), NEW i \in 1..Len(tf_thrd_fops[t]), NEW j \in 1..Len(Inner(t, i))
  PROVE  /\ Mine(Inner(t, i)[j], t)
         /\ \A k \in 1..Len(tf_thrd_fops[t]) : Inner(t, i)[j] # tf_thrd_fops[t][k]
         /\ \A k \in 1..Len(tf_thrd_fops[t]) : \A l \in 1..Len(Inner(t, k)) :
              Inner(t, i)[j] = Inner(t, k)[l] => tf_thrd_fops[t][i] = tf_thrd_fops[t][k] /\ j = l
         /\ fo_exec_next[Inner(t, i)[j]] =
              IF j < Len(Inner(t, i)) THEN Inner(t, i)[j + 1] ELSE NULL
  BY DEF Owned

\* ipc_free() takes a slot that is on no thread's lists.
LEMMA FreeSlots ==
  ASSUME Shape, PoolOK, SlotInv, NEW t \in Threads, Free(t)
  PROVE  SlotInv'
  <1>1. /\ UNCHANGED <<flowop, privateVars, posVars, res, run, raced>>
        /\ shm_bitmap' = shm_bitmap \ {res[t]}
        /\ pc[t] = "free" /\ pc' = [pc EXCEPT ![t] = "next"]
    BY DEF Free, listVars, runVars
  <1> SUFFICES ASSUME "link" \notin raced
               PROVE  PrivateOK' /\ \A u \in Threads : TInv(u)'
    BY <1>1 DEF SlotInv
  <1>2. PrivateOK /\ \A u \in Threads : TInv(u)
    BY DEF SlotInv
  <1>3. PrivateOK'
    BY <1>1, <1>2 DEF PrivateOK, privateVars
  <1>4. PosOK(t) /\ Owned(t) /\ Dest(t)
    BY <1>1, <1>2 DEF TInv
  <1>5. res[t] \in Slots /\ Mine(res[t], t)
    BY <1>1, <1>4 DEF Dest, Mine, PoolOK
  <1>6. ASSUME NEW u \in Threads \ {t} PROVE TInv(u)'
    <2>1. pc'[u] = pc[u]
      BY <1>1, <1>6 DEF Shape
    <2>2. \A s \in Slots : Mine(s, u) => s \in shm_bitmap'
      BY <1>1, <1>5, <1>6 DEF Mine
    <2> QED
      BY <1>1, <1>2, <2>1, <2>2, KeepThread DEF privateVars, posVars
  <1>7. TInv(t)'
    <2>1. pc'[t] = "next"
      BY <1>1 DEF Shape
    <2>2. PosOK(t)'
      BY <1>1, <1>4, <2>1 DEF PosOK, Inner, privateVars, posVars, LoopPcs, DeletePcs
    <2>3. \A s : Mine(s, t) /\ s # res[t] => Mine(s, t)'
      BY <1>1 DEF Mine
    <2>4. \A i \in 1..Len(tf_thrd_fops[t]) :
            /\ res[t] # tf_thrd_fops[t][i]
            /\ \A j \in 1..Len(Inner(t, i)) : res[t] # Inner(t, i)[j]
      BY <1>1, <1>4 DEF Dest
    <2>5. Owned(t)'
      <3>1. /\ tf_thrd_fops' = tf_thrd_fops /\ fo_exec_next' = fo_exec_next
            /\ \A i : Inner(t, i)' = Inner(t, i)
        BY <1>1 DEF Inner, privateVars
      <3>2. \A i \in 1..Len(tf_thrd_fops[t]) : Mine(tf_thrd_fops[t][i], t)'
        <4>1. \A i \in 1..Len(tf_thrd_fops[t]) :
                Mine(tf_thrd_fops[t][i], t) /\ tf_thrd_fops[t][i] # res[t]
          BY <1>4, <2>4 DEF Owned
        <4> QED
          BY <1>1, <3>1, <4>1 DEF Mine
      <3>3. \A i \in 1..Len(tf_thrd_fops[t]) : \A j \in 1..Len(Inner(t, i)) :
              Mine(Inner(t, i)[j], t)'
        <4>1. \A i \in 1..Len(tf_thrd_fops[t]) : \A j \in 1..Len(Inner(t, i)) :
                Mine(Inner(t, i)[j], t) /\ Inner(t, i)[j] # res[t]
          BY <1>4, <2>4 DEF Owned
        <4> QED
          BY <1>1, <3>1, <4>1 DEF Mine
      <3>4. ASSUME NEW i \in 1..Len(tf_thrd_fops[t]), NEW j \in 1..Len(Inner(t, i)')
            PROVE  /\ Mine(Inner(t, i)[j], t)'
                   /\ \A k \in 1..Len(tf_thrd_fops[t]) : Inner(t, i)'[j] # tf_thrd_fops[t][k]
                   /\ \A k \in 1..Len(tf_thrd_fops[t]) : \A l \in 1..Len(Inner(t, k)') :
                        Inner(t, i)'[j] = Inner(t, k)'[l] =>
                          tf_thrd_fops[t][i] = tf_thrd_fops[t][k] /\ j = l
                   /\ fo_exec_next'[Inner(t, i)'[j]] =
                        IF j < Len(Inner(t, i)') THEN Inner(t, i)'[j + 1] ELSE NULL
        <4>1. Inner(t, i)' = Inner(t, i) /\ j \in 1..Len(Inner(t, i))
          BY <3>1
        <4>2. Mine(Inner(t, i)[j], t)'
          BY <3>3, <4>1
        <4>3. \A k \in 1..Len(tf_thrd_fops[t]) : \A l \in 1..Len(Inner(t, k)') :
                Inner(t, i)'[j] = Inner(t, k)'[l] =>
                  tf_thrd_fops[t][i] = tf_thrd_fops[t][k] /\ j = l
          <5> TAKE k \in 1..Len(tf_thrd_fops[t])
          <5> TAKE l \in 1..Len(Inner(t, k)')
          <5>1. Inner(t, k)' = Inner(t, k)
            BY <3>1
          <5> QED
            BY <1>4, <4>1, <5>1, OwnedFacts
        <4>4. /\ \A k \in 1..Len(tf_thrd_fops[t]) : Inner(t, i)[j] # tf_thrd_fops[t][k]
              /\ fo_exec_next[Inner(t, i)[j]] =
                   IF j < Len(Inner(t, i)) THEN Inner(t, i)[j + 1] ELSE NULL
          BY <1>4, <4>1, OwnedFacts
        <4> QED
          BY <3>1, <4>1, <4>2, <4>3, <4>4
      <3> QED
        BY <3>1, <3>2, <3>4 DEF Owned
    <2>6. Dest(t)'
      BY <1>1, <1>4, <1>5, <2>1 DEF Dest, Inner, First, privateVars, posVars
    <2> QED
      BY <2>2, <2>5, <2>6 DEF TInv
  <1> QED
    BY <1>3, <1>6, <1>7

\* flowop_delete() takes the first of the inner flowops off the private list.
LEMMA DeleteDoes ==
  ASSUME Shape, PoolOK, NEW t \in Threads, Delete(t), PrivateOK, TInv(t)
  PROVE  LET outer == tf_thrd_fops[t][ip[t]]
             list == fo_comp_fops[outer]
         IN  /\ ip[t] \in 1..Len(tf_thrd_fops[t]) /\ outer \in Slots
             /\ list \in Seq(Slots) /\ list # <<>> /\ res[t] = list[1] /\ res[t] = Head(list)
             /\ fo_comp_fops' = [fo_comp_fops EXCEPT ![outer] = Tail(list)]
             /\ pc'[t] = (IF shm_flowoplist = res[t] THEN "unlink" ELSE "seek")
             /\ cur'[t] = (IF shm_flowoplist = res[t] THEN NULL ELSE shm_flowoplist)
             /\ \A u \in Threads \ {t} : pc'[u] = pc[u] /\ cur'[u] = cur[u]
             /\ UNCHANGED <<poolVars, listVars, flowop, findVars, tf_thrd_fops, fo_exec_next,
                            posVars, res, lockVars, runVars>>
  <1> DEFINE outer == tf_thrd_fops[t][ip[t]]
             list == fo_comp_fops[outer]
  <1>1. pc[t] = "inner" /\ res[t] # NULL
    BY DEF Delete
  <1>2. ip[t] \in 1..Len(tf_thrd_fops[t]) /\ res[t] = First(list)
    BY <1>1 DEF TInv, PosOK, Dest, Inner, DeletePcs
  <1>3. outer \in Slots /\ list \in Seq(Slots)
    BY <1>2 DEF PrivateOK
  <1>4. list # <<>> /\ res[t] = list[1] /\ res[t] = Head(list)
    BY <1>1, <1>2, <1>3 DEF First
  <1> QED
    BY <1>2, <1>3, <1>4 DEF Delete, Shape, runVars

\* The inner flowops that are left stay the thread's own, and the one that is
\* being deleted is on no list.
LEMMA DeleteSlots ==
  ASSUME Shape, PoolOK, SlotInv, NEW t \in Threads, Delete(t)
  PROVE  SlotInv'
  <1> SUFFICES ASSUME "link" \notin raced
               PROVE  PrivateOK' /\ \A u \in Threads : TInv(u)'
    BY DEF SlotInv, Delete, listVars
  <1>1. PrivateOK /\ \A u \in Threads : TInv(u)
    BY DEF SlotInv
  <1> DEFINE outer == tf_thrd_fops[t][ip[t]]
             list == fo_comp_fops[outer]
             n == Len(tf_thrd_fops[t])
  <1>2. /\ ip[t] \in 1..n /\ outer \in Slots
        /\ list \in Seq(Slots) /\ list # <<>> /\ res[t] = list[1]
        /\ fo_comp_fops' = [fo_comp_fops EXCEPT ![outer] = Tail(list)]
        /\ pc'[t] \in {"unlink", "seek"}
        /\ \A u \in Threads \ {t} : pc'[u] = pc[u]
        /\ UNCHANGED <<shm_bitmap, flowop, tf_thrd_fops, fo_exec_next, ip, jp, res, run>>
    BY <1>1, DeleteDoes DEF poolVars, posVars, runVars
  <1>3. PosOK(t) /\ Owned(t)
    BY <1>1 DEF TInv, Delete
  <1>4. Tail(list) \in Seq(Slots) /\ Len(Tail(list)) = Len(list) - 1
        /\ \A j \in 1..Len(Tail(list)) : Tail(list)[j] = list[j + 1]
    BY <1>2
  <1>5. PrivateOK'
    BY <1>1, <1>2, <1>4 DEF PrivateOK
  <1>6. Mine(outer, t)
    BY <1>2, <1>3 DEF Owned
  <1>7. ASSUME NEW u \in Threads \ {t} PROVE TInv(u)'
    <2>1. \A s \in Slots : Mine(s, u) => s # outer
      BY <1>6, <1>7 DEF Mine
    <2>2. \A s \in Slots : Mine(s, u) => s \in shm_bitmap' /\ fo_comp_fops'[s] = fo_comp_fops[s]
      BY <1>1, <1>2, <2>1 DEF Mine, PrivateOK
    <2> QED
      BY <1>1, <1>2, <2>2, KeepThread
  <1>8. ASSUME NEW i \in 1..n
        PROVE  /\ tf_thrd_fops[t][i] # outer => Inner(t, i)' = Inner(t, i)
               /\ tf_thrd_fops[t][i] = outer => Inner(t, i) = list /\ Inner(t, i)' = Tail(list)
    <2>1. tf_thrd_fops[t][i] \in Slots
      BY <1>1 DEF PrivateOK
    <2> QED
      BY <1>1, <1>2, <2>1 DEF Inner, PrivateOK
  <1> DEFINE shift(i) == IF tf_thrd_fops[t][i] = outer THEN 1 ELSE 0
  <1>9. ASSUME NEW i \in 1..n
        PROVE  /\ Len(Inner(t, i)) \in Nat /\ Len(Inner(t, i)') \in Nat /\ shift(i) \in {0, 1}
               /\ Len(Inner(t, i)) = Len(Inner(t, i)') + shift(i)
               /\ \A j \in 1..Len(Inner(t, i)') : /\ Inner(t, i)'[j] = Inner(t, i)[j + shift(i)]
                                                 /\ j + shift(i) \in 1..Len(Inner(t, i))
    <2>1. Inner(t, i) \in Seq(Slots)
      BY <1>1 DEF PrivateOK, Inner
    <2>2. Len(list) \in Nat /\ Len(list) - 1 \in Nat
      BY <1>2
    <2>3. CASE tf_thrd_fops[t][i] = outer
      <3>1. shift(i) = 1 /\ Inner(t, i) = list /\ Inner(t, i)' = Tail(list)
        BY <1>8, <2>3
      <3>2. Len(Inner(t, i)') = Len(list) - 1 /\ Len(Inner(t, i)) = Len(list)
        BY <1>4, <3>1
      <3>3. \A j \in 1..(Len(list) - 1) : Inner(t, i)'[j] = Inner(t, i)[j + 1]
        BY <1>4, <3>1
      <3> HIDE DEF list, shift
      <3> QED
        BY <2>2, <3>1, <3>2, <3>3
    <2>4. CASE tf_thrd_fops[t][i] # outer
      <3>1. shift(i) = 0 /\ Inner(t, i)' = Inner(t, i)
        BY <1>8, <2>4
      <3> QED
        BY <2>1, <3>1
    <2> QED
      BY <2>3, <2>4
  <1>10. TInv(t)'
    <2>1. PosOK(t)'
      BY <1>2, <1>3 DEF PosOK, LoopPcs, DeletePcs, Delete
    <2>2. ASSUME NEW i \in 1..n, NEW j \in 1..Len(Inner(t, i)')
          PROVE  /\ Mine(Inner(t, i)'[j], t)
                 /\ \A k \in 1..n : Inner(t, i)'[j] # tf_thrd_fops[t][k]
                 /\ \A k \in 1..n : \A l \in 1..Len(Inner(t, k)') :
                      Inner(t, i)'[j] = Inner(t, k)'[l] => tf_thrd_fops[t][i] = tf_thrd_fops[t][k] /\ j = l
                 /\ fo_exec_next[Inner(t, i)'[j]] =
                      IF j < Len(Inner(t, i)') THEN Inner(t, i)'[j + 1] ELSE NULL
                 /\ Inner(t, i)'[j] # res[t]
      <3> DEFINE d == shift(i)
      <3>1. /\ d \in {0, 1} /\ d = (IF tf_thrd_fops[t][i] = outer THEN 1 ELSE 0)
            /\ Len(Inner(t, i)) = Len(Inner(t, i)') + d /\ Len(Inner(t, i)') \in Nat
            /\ \A m \in 1..Len(Inner(t, i)') : /\ Inner(t, i)'[m] = Inner(t, i)[m + d]
                                              /\ m + d \in 1..Len(Inner(t, i))
        BY <1>9
      <3> HIDE DEF d, shift
      <3>2. Inner(t, i)'[j] = Inner(t, i)[j + d] /\ j + d \in 1..Len(Inner(t, i))
        BY <3>1
      <3>8. PICK m \in 1..Len(Inner(t, i)) : m = j + d /\ Inner(t, i)'[j] = Inner(t, i)[m]
        BY <3>2
      <3>3. Mine(Inner(t, i)'[j], t) /\ \A k \in 1..n : Inner(t, i)'[j] # tf_thrd_fops[t][k]
        BY <1>3, <3>8 DEF Owned
      <3>4. ASSUME NEW k \in 1..n, NEW l \in 1..Len(Inner(t, k)'), Inner(t, i)'[j] = Inner(t, k)'[l]
            PROVE  tf_thrd_fops[t][i] = tf_thrd_fops[t][k] /\ j = l
        <4> DEFINE e == shift(k)
        <4>1. /\ e \in {0, 1} /\ e = (IF tf_thrd_fops[t][k] = outer THEN 1 ELSE 0)
              /\ Inner(t, k)'[l] = Inner(t, k)[l + e]
              /\ l + e \in 1..Len(Inner(t, k)) /\ Len(Inner(t, k)') \in Nat
          BY <1>9 DEF shift
        <4> HIDE DEF e
        <4>5. Inner(t, i)[j + d] = Inner(t, k)[l + e]
          BY <3>2, <3>4, <4>1
        <4>2. tf_thrd_fops[t][i] = tf_thrd_fops[t][k] /\ j + d = l + e
          <5>1. PICK m1 \in 1..Len(Inner(t, i)), m2 \in 1..Len(Inner(t, k)) :
                  m1 = j + d /\ m2 = l + e /\ Inner(t, i)[m1] = Inner(t, k)[m2]
            BY <3>2, <4>1, <4>5
          <5>2. tf_thrd_fops[t][i] = tf_thrd_fops[t][k] /\ m1 = m2
            BY <1>3, <5>1 DEF Owned
          <5> QED
            BY <5>1, <5>2
        <4>3. d = e
          BY <3>1, <4>1, <4>2
        <4>4. j \in Int /\ l \in Int
          BY <3>1, <4>1
        <4> QED
          BY <3>1, <4>2, <4>3, <4>4
      <3>5. fo_exec_next[Inner(t, i)[j + d]] =
              IF j + d < Len(Inner(t, i)) THEN Inner(t, i)[j + d + 1] ELSE NULL
        BY <1>3, <3>2 DEF Owned
      <3>6. fo_exec_next[Inner(t, i)'[j]] =
              IF j < Len(Inner(t, i)') THEN Inner(t, i)'[j + 1] ELSE NULL
        <4>1. /\ Len(Inner(t, i)') \in Nat /\ j \in 1..Len(Inner(t, i)')
              /\ Len(Inner(t, i)) = Len(Inner(t, i)') + d /\ d \in {0, 1}
          BY <1>9, <3>1
        <4>2. CASE j < Len(Inner(t, i)')
          <5>1. j + d < Len(Inner(t, i)) /\ (j + 1) + d = j + d + 1 /\ j + 1 \in 1..Len(Inner(t, i)')
            BY <4>1, <4>2
          <5>2. Inner(t, i)'[j + 1] = Inner(t, i)[(j + 1) + d]
            BY <3>1, <5>1
          <5> QED
            BY <3>2, <3>5, <4>2, <5>1, <5>2
        <4>3. CASE ~(j < Len(Inner(t, i)'))
          <5>1. ~(j + d < Len(Inner(t, i)))
            BY <4>1, <4>3
          <5> QED
            BY <3>2, <3>5, <4>3, <5>1
        <4> QED
          BY <4>2, <4>3
      <3>7. Inner(t, i)'[j] # res[t]
        <4> SUFFICES ASSUME Inner(t, i)'[j] = res[t] PROVE FALSE
          OBVIOUS
        <4>1. Inner(t, ip[t]) = list /\ 1 \in 1..Len(Inner(t, ip[t]))
          BY <1>2, <1>8
        <4>2. tf_thrd_fops[t][i] = outer /\ j + d = 1
          <5>1. PICK m1 \in 1..Len(Inner(t, ip[t])) : m1 = 1 /\ Inner(t, i)[m] = Inner(t, ip[t])[m1]
            BY <1>2, <3>7, <3>8, <4>1
          <5>2. tf_thrd_fops[t][i] = tf_thrd_fops[t][ip[t]] /\ m = m1
            BY <1>2, <1>3, <3>8, <5>1 DEF Owned
          <5> QED
            BY <3>8, <5>1, <5>2
        <4> QED
          BY <3>1, <4>2
      <3> QED
        BY <3>3, <3>4, <3>6, <3>7
    <2>3. Owned(t)'
      BY <1>2, <1>3, <2>2 DEF Owned, Mine
    <2>4. Dest(t)'
      <3>0. Len(list) \in Nat \ {0}
        BY <1>2
      <3>1. Inner(t, ip[t]) = list /\ 1 \in 1..Len(list) /\ Inner(t, ip[t])' = Tail(list)
        <4>1. fo_comp_fops'[tf_thrd_fops'[t][ip'[t]]] = Tail(list)
          BY <1>1, <1>2 DEF PrivateOK
        <4>2. 1 \in 1..Len(list)
          BY <3>0
        <4> QED
          BY <4>1, <4>2 DEF Inner
      <3>2. Mine(res[t], t) /\ \A i \in 1..n : res[t] # tf_thrd_fops[t][i]
        BY <1>2, <1>3, <3>1 DEF Owned
      <3>3. fo_exec_next[res[t]] = IF 1 < Len(list) THEN list[2] ELSE NULL
        BY <1>2, <1>3, <3>1 DEF Owned
      <3>4. First(Tail(list)) = IF 1 < Len(list) THEN list[2] ELSE NULL
        <4>0. \A q \in Seq(Slots) : q = <<>> <=> Len(q) = 0
          OBVIOUS
        <4> HIDE DEF list
        <4>1. Tail(list) = <<>> <=> ~(1 < Len(list))
          <5>1. Tail(list) \in Seq(Slots) /\ Len(Tail(list)) = Len(list) - 1
            BY <1>4
          <5>2. \A n0 \in Nat \ {0} : (n0 - 1 = 0) <=> ~(1 < n0)
            OBVIOUS
          <5> QED
            BY <3>0, <4>0, <5>1, <5>2
        <4>2. 1 < Len(list) => Tail(list)[1] = list[2]
          BY <1>4, <3>0
        <4> QED
          BY <4>1, <4>2 DEF First
      <3>5. pc'[t] \in {"unlink", "seek"} /\ res'[t] = res[t] /\ tf_thrd_fops'[t] = tf_thrd_fops[t]
            /\ fo_exec_next'[res[t]] = First(Tail(list)) /\ ip'[t] = ip[t]
        BY <1>2, <3>3, <3>4
      <3>6. Mine(res[t], t)'
        BY <1>2, <3>2 DEF Mine
      <3>7. \A i \in 1..n : \A j \in 1..Len(Inner(t, i)') : res[t] # Inner(t, i)'[j]
        BY <2>2
      <3> HIDE DEF list
      <3> QED
        BY <3>1, <3>2, <3>5, <3>6, <3>7 DEF Dest
    <2> QED
      BY <2>1, <2>3, <2>4 DEF TInv
  <1> QED
    BY <1>5, <1>7, <1>10

\* The list flowop_define_common() adds to: the thread's, or the composite's.
PrivateList(t) == IF jp[t] = 0 THEN tf_thrd_fops[t] ELSE Inner(t, ip[t])

\* How a thread goes on to create its next flowop, or to its loop.
LEMMA GoOnDoes ==
  ASSUME Shape, NEW t \in Threads, NEW created \in BOOLEAN, GoOn(t, created), pc[t] = "create"
  PROVE  /\ \A u \in Threads \ {t} : pc'[u] = pc[u] /\ ip'[u] = ip[u] /\ jp'[u] = jp[u]
         /\ pc'[t] \in {"create", "loop"}
         /\ created /\ jp[t] < Len(Program[t][ip[t]].inner) =>
              pc'[t] = "create" /\ ip'[t] = ip[t] /\ jp'[t] = jp[t] + 1
         /\ ~(created /\ jp[t] < Len(Program[t][ip[t]].inner)) =>
              /\ jp'[t] = 0
              /\ ip[t] < Len(Program[t]) => pc'[t] = "create" /\ ip'[t] = ip[t] + 1
              /\ ~(ip[t] < Len(Program[t])) => pc'[t] = "loop" /\ ip'[t] = 1
  <1>1. CASE created /\ jp[t] < Len(Program[t][ip[t]].inner)
    <2>1. jp' = [jp EXCEPT ![t] = @ + 1] /\ ip' = ip /\ pc' = pc
      BY <1>1 DEF GoOn
    <2> QED
      BY <1>1, <2>1 DEF Shape
  <1>2. CASE ~(created /\ jp[t] < Len(Program[t][ip[t]].inner)) /\ ip[t] < Len(Program[t])
    <2>1. jp' = [jp EXCEPT ![t] = 0] /\ ip' = [ip EXCEPT ![t] = @ + 1] /\ pc' = pc
      BY <1>2 DEF GoOn
    <2> QED
      BY <1>2, <2>1 DEF Shape
  <1>3. CASE ~(created /\ jp[t] < Len(Program[t][ip[t]].inner)) /\ ~(ip[t] < Len(Program[t]))
    <2>1. /\ jp' = [jp EXCEPT ![t] = 0] /\ ip' = [ip EXCEPT ![t] = 1]
          /\ pc' = [pc EXCEPT ![t] = "loop"]
      BY <1>3 DEF GoOn
    <2> QED
      BY <1>3, <2>1 DEF Shape
  <1> QED
    BY <1>1, <1>2, <1>3

\* What flowop_define_common() does to the private lists.
LEMMA DefineDoes ==
  ASSUME Shape, PoolOK, NEW t \in Threads, Define(t), PrivateOK, TInv(t)
  PROVE  LET s == ipc_malloc
             list == PrivateList(t)
             outer == tf_thrd_fops[t][ip[t]]
         IN  /\ s \in Slots \ shm_bitmap /\ pc[t] = "create"
             /\ PosOK(t) /\ Owned(t)
             /\ list \in Seq(Slots) /\ (jp[t] # 0 => outer \in Slots)
             /\ shm_bitmap' = shm_bitmap \cup {s} /\ run' = run
             /\ flowop'[s].thread = t /\ flowop'[s].run = run
             /\ \A e \in Slots \ {s} : flowop'[e] = flowop[e]
             /\ fo_exec_next' = [e \in Slots |-> IF e = s THEN NULL
                                                 ELSE IF list # <<>> /\ e = list[Len(list)] THEN s
                                                 ELSE fo_exec_next[e]]
             /\ tf_thrd_fops' = [tf_thrd_fops EXCEPT ![t] = IF jp[t] = 0 THEN Append(list, s) ELSE @]
             /\ fo_comp_fops' = [e \in Slots |-> IF e = s THEN <<>>
                                                 ELSE IF jp[t] # 0 /\ e = outer THEN Append(list, s)
                                                 ELSE fo_comp_fops[e]]
             /\ \A u \in Threads \ {t} : /\ pc'[u] = pc[u] /\ ip'[u] = ip[u]
                                         /\ jp'[u] = jp[u] /\ res'[u] = res[u]
             /\ pc'[t] \in {"create", "loop"}
             /\ list # <<>> => Mine(list[Len(list)], t)
  <1>1. pc[t] = "create" /\ ipc_malloc \in Slots \ shm_bitmap
    BY MallocFacts DEF Define
  <1>2. PosOK(t) /\ Owned(t)
    BY <1>1 DEF TInv
  <1>3. jp[t] # 0 => ip[t] \in 1..Len(tf_thrd_fops[t])
    BY <1>1, <1>2 DEF PosOK
  <1>4. tf_thrd_fops[t] \in Seq(Slots) /\ (jp[t] # 0 => tf_thrd_fops[t][ip[t]] \in Slots)
    BY <1>3 DEF PrivateOK
  <1>5. PrivateList(t) \in Seq(Slots)
    BY <1>4 DEF PrivateOK, PrivateList, Inner
  <1>6. PrivateList(t) # <<>> => Mine(PrivateList(t)[Len(PrivateList(t))], t)
    <2>1. PrivateList(t) # <<>> => Len(PrivateList(t)) \in 1..Len(PrivateList(t))
      BY <1>5
    <2>2. CASE jp[t] = 0
      BY <1>2, <2>1, <2>2 DEF Owned, PrivateList
    <2>3. CASE jp[t] # 0
      BY <1>2, <1>3, <2>1, <2>3 DEF Owned, PrivateList
    <2> QED
      BY <2>2, <2>3
  <1>7. PrivateList(t) = IF jp[t] = 0 THEN tf_thrd_fops[t] ELSE fo_comp_fops[tf_thrd_fops[t][ip[t]]]
    BY DEF PrivateList, Inner
  <1>8. /\ shm_bitmap' = shm_bitmap \cup {ipc_malloc} /\ run' = run
        /\ flowop'[ipc_malloc].thread = t /\ flowop'[ipc_malloc].run = run
        /\ \A e \in Slots \ {ipc_malloc} : flowop'[e] = flowop[e]
    BY <1>1 DEF Define, Field, Shape, runVars
  <1>9. /\ \A u \in Threads \ {t} : /\ pc'[u] = pc[u] /\ ip'[u] = ip[u]
                                    /\ jp'[u] = jp[u] /\ res'[u] = res[u]
        /\ pc'[t] \in {"create", "loop"}
    <2>1. GoOn(t, TRUE) /\ res' = res
      BY DEF Define
    <2> QED
      BY <1>1, <2>1, GoOnDoes
  <1>10. /\ fo_exec_next' = [e \in Slots |->
              IF e = ipc_malloc THEN NULL
              ELSE IF PrivateList(t) # <<>> /\ e = PrivateList(t)[Len(PrivateList(t))] THEN ipc_malloc
              ELSE fo_exec_next[e]]
         /\ tf_thrd_fops' =
              [tf_thrd_fops EXCEPT ![t] = IF jp[t] = 0 THEN Append(PrivateList(t), ipc_malloc) ELSE @]
    BY <1>7 DEF Define
  <1>11. fo_comp_fops' = [e \in Slots |->
              IF e = ipc_malloc THEN <<>>
              ELSE IF jp[t] # 0 /\ e = tf_thrd_fops[t][ip[t]] THEN Append(PrivateList(t), ipc_malloc)
              ELSE fo_comp_fops[e]]
    BY <1>7 DEF Define
  <1> QED
    BY <1>1, <1>2, <1>4, <1>5, <1>6, <1>8, <1>9, <1>10, <1>11

\* A new flowop is the thread's own: its slot was free.
LEMMA DefineSlots ==
  ASSUME Shape, PoolOK, SlotInv, NEW t \in Threads, Define(t)
  PROVE  SlotInv'
  <1> SUFFICES ASSUME "link" \notin raced
               PROVE  PrivateOK' /\ \A u \in Threads : TInv(u)'
    BY DEF SlotInv, Define
  <1>1. PrivateOK /\ \A u \in Threads : TInv(u)
    BY DEF SlotInv
  <1> DEFINE s == ipc_malloc
             list == PrivateList(t)
             outer == tf_thrd_fops[t][ip[t]]
             n == Len(tf_thrd_fops[t])
  <1>2. /\ s \in Slots \ shm_bitmap /\ pc[t] = "create"
        /\ PosOK(t) /\ Owned(t)
        /\ list \in Seq(Slots) /\ (jp[t] # 0 => outer \in Slots)
        /\ shm_bitmap' = shm_bitmap \cup {s} /\ run' = run
        /\ flowop'[s].thread = t /\ flowop'[s].run = run
        /\ \A e \in Slots \ {s} : flowop'[e] = flowop[e]
    BY <1>1, DefineDoes
  <1>3. /\ fo_exec_next' = [e \in Slots |-> IF e = s THEN NULL
                                            ELSE IF list # <<>> /\ e = list[Len(list)] THEN s
                                            ELSE fo_exec_next[e]]
        /\ tf_thrd_fops' = [tf_thrd_fops EXCEPT ![t] = IF jp[t] = 0 THEN Append(list, s) ELSE @]
        /\ fo_comp_fops' = [e \in Slots |-> IF e = s THEN <<>>
                                            ELSE IF jp[t] # 0 /\ e = outer THEN Append(list, s)
                                            ELSE fo_comp_fops[e]]
    BY <1>1, DefineDoes
  <1>4. /\ \A u \in Threads \ {t} : /\ pc'[u] = pc[u] /\ ip'[u] = ip[u]
                                    /\ jp'[u] = jp[u] /\ res'[u] = res[u]
        /\ pc'[t] \in {"create", "loop"}
        /\ list # <<>> => Mine(list[Len(list)], t)
    BY <1>1, DefineDoes
  <1>5. /\ jp[t] = 0 => list = tf_thrd_fops[t]
        /\ jp[t] # 0 => list = Inner(t, ip[t]) /\ list = fo_comp_fops[outer]
    BY DEF PrivateList, Inner
  <1> HIDE DEF list, s
  <1>6. /\ Append(list, s) \in Seq(Slots) /\ Len(Append(list, s)) = Len(list) + 1
        /\ Len(list) \in Nat
        /\ Append(list, s)[Len(list) + 1] = s
        /\ \A i \in 1..Len(list) : Append(list, s)[i] = list[i]
    BY <1>2
  <1>7. PrivateOK'
    <2>1. tf_thrd_fops' \in [Threads -> Seq(Slots)]
      BY <1>1, <1>3, <1>6 DEF PrivateOK
    <2>2. fo_comp_fops' \in [Slots -> Seq(Slots)]
      BY <1>1, <1>3, <1>6 DEF PrivateOK
    <2>3. fo_exec_next' \in [Slots -> Slots \cup {NULL}]
      BY <1>1, <1>2, <1>3 DEF PrivateOK
    <2> QED
      BY <2>1, <2>2, <2>3 DEF PrivateOK
  <1>8. /\ n \in Nat /\ ip[t] \in 1..Len(Program[t]) /\ jp[t] \in 0..Len(Program[t][ip[t]].inner)
        /\ n = (IF jp[t] = 0 THEN ip[t] - 1 ELSE ip[t])
        /\ \A i \in 1..n : tf_thrd_fops[t][i] \in Slots /\ tf_thrd_fops[t][i] # s
        /\ jp[t] # 0 => ip[t] \in 1..n /\ Mine(outer, t)
    <2>1. n \in Nat /\ \A i \in 1..n : tf_thrd_fops[t][i] \in Slots
      BY <1>1 DEF PrivateOK
    <2>2. /\ ip[t] \in 1..Len(Program[t]) /\ jp[t] \in 0..Len(Program[t][ip[t]].inner)
          /\ n = (IF jp[t] = 0 THEN ip[t] - 1 ELSE ip[t])
      BY <1>2 DEF PosOK
    <2>3. \A i \in 1..n : Mine(tf_thrd_fops[t][i], t)
      BY <1>2 DEF Owned
    <2>4. \A i \in 1..n : tf_thrd_fops[t][i] # s
      BY <1>2, <2>3 DEF Mine
    <2>5. jp[t] # 0 => ip[t] \in 1..n
      BY <2>1, <2>2
    <2> QED
      BY <2>1, <2>2, <2>3, <2>4, <2>5
  <1>9. ASSUME NEW u \in Threads \ {t} PROVE TInv(u)'
    <2>1. ASSUME NEW e \in Slots, Mine(e, u)
          PROVE  e \in shm_bitmap' /\ flowop'[e] = flowop[e] /\ fo_comp_fops'[e] = fo_comp_fops[e]
      <3>1. e # s /\ (jp[t] # 0 => e # outer)
        BY <1>2, <1>8, <1>9, <2>1 DEF Mine
      <3> QED
        BY <1>2, <1>3, <2>1, <3>1 DEF Mine
    <2>2. ASSUME NEW e \in Slots, flowop'[e].thread = u
          PROVE  flowop[e].thread = u /\ fo_exec_next'[e] = fo_exec_next[e]
      <3>1. e # s
        BY <1>2, <1>9, <2>2
      <3>2. flowop[e].thread = u
        BY <1>2, <2>2, <3>1
      <3>3. ~(list # <<>> /\ e = list[Len(list)])
        BY <1>4, <1>9, <3>2 DEF Mine
      <3> QED
        BY <1>3, <3>1, <3>2, <3>3
    <2>3. tf_thrd_fops'[u] = tf_thrd_fops[u]
      BY <1>1, <1>3, <1>9 DEF PrivateOK
    <2> QED
      BY <1>1, <1>2, <1>4, <2>1, <2>2, <2>3, KeepThread
  <1>10. /\ Len(tf_thrd_fops'[t]) = ip[t]
         /\ \A i \in 1..n : tf_thrd_fops'[t][i] = tf_thrd_fops[t][i]
         /\ jp[t] = 0 => ip[t] = n + 1 /\ tf_thrd_fops'[t][ip[t]] = s
         /\ jp[t] # 0 => ip[t] = n
    <2>1. CASE jp[t] = 0
      <3>1. tf_thrd_fops'[t] = Append(list, s) /\ Len(list) = n /\ ip[t] = n + 1
        BY <1>1, <1>3, <1>5, <1>8, <2>1 DEF PrivateOK
      <3>2. \A i \in 1..n : list[i] = tf_thrd_fops[t][i]
        BY <1>5, <2>1
      <3> HIDE DEF n
      <3> QED
        BY <1>6, <2>1, <3>1, <3>2
    <2>2. CASE jp[t] # 0
      <3>1. tf_thrd_fops'[t] = tf_thrd_fops[t] /\ ip[t] = n
        BY <1>1, <1>3, <1>8, <2>2 DEF PrivateOK
      <3> QED
        BY <2>2, <3>1
    <2> QED
      BY <2>1, <2>2
  <1>11. PosOK(t)'
    <2>1. Len(Program[t]) \in Nat \ {0} /\ Len(Program[t][ip[t]].inner) \in Nat
      BY <1>8, ProgramAssumption
    <2>0. GoOn(t, TRUE) /\ tf_thrd_fops'[t] \in Seq(Slots)
      BY <1>7 DEF Define, PrivateOK
    <2>2. CASE jp[t] < Len(Program[t][ip[t]].inner)
      <3>1. pc'[t] = "create" /\ ip'[t] = ip[t] /\ jp'[t] = jp[t] + 1
        BY <1>2, <2>0, <2>2, GoOnDoes
      <3>2. jp'[t] \in 0..Len(Program[t][ip[t]].inner) /\ jp'[t] # 0
        BY <1>8, <2>1, <2>2, <3>1
      <3>3. Len(tf_thrd_fops'[t]) = ip'[t] /\ ip'[t] \in 1..Len(Program[t])
        BY <1>8, <1>10, <3>1
      <3> QED
        BY <3>1, <3>2, <3>3 DEF PosOK, LoopPcs, DeletePcs
    <2>3. CASE ~(jp[t] < Len(Program[t][ip[t]].inner)) /\ ip[t] < Len(Program[t])
      <3>1. pc'[t] = "create" /\ ip'[t] = ip[t] + 1 /\ jp'[t] = 0
        BY <1>2, <2>0, <2>3, GoOnDoes
      <3>2. ip'[t] \in 1..Len(Program[t]) /\ ip'[t] - 1 = ip[t]
        BY <1>8, <2>1, <2>3, <3>1
      <3>3. jp'[t] \in 0..Len(Program[t][ip'[t]].inner)
        BY <3>1, <3>2, ProgramAssumption
      <3>4. Len(tf_thrd_fops'[t]) = ip'[t] - 1
        BY <1>10, <3>2
      <3> QED
        BY <3>1, <3>2, <3>3, <3>4 DEF PosOK, LoopPcs, DeletePcs
    <2>4. CASE ~(jp[t] < Len(Program[t][ip[t]].inner)) /\ ~(ip[t] < Len(Program[t]))
      <3>1. pc'[t] = "loop" /\ ip'[t] = 1 /\ jp'[t] = 0
        BY <1>2, <2>0, <2>4, GoOnDoes
      <3>2. 1 \in 1..Len(tf_thrd_fops'[t])
        BY <1>8, <1>10
      <3>3. Len(Inner(t, ip[t])') \in Nat
        <4>1. tf_thrd_fops'[t][1] \in Slots
          BY <2>0, <3>2
        <4> QED
          BY <1>7, <3>1, <4>1 DEF PrivateOK, Inner
      <3>4. jp'[t] \in 0..Len(Inner(t, ip[t])')
        BY <3>1, <3>3
      <3> QED
        BY <3>1, <3>2, <3>4 DEF PosOK, LoopPcs, DeletePcs
    <2> QED
      BY <2>2, <2>3, <2>4
  <1>12. Dest(t)'
    BY <1>4 DEF Dest

  <1> DEFINE ext(i) == IF jp[t] # 0 /\ tf_thrd_fops[t][i] = outer THEN 1 ELSE 0
             In(i) == Inner(t, i)
             New(i) == fo_comp_fops'[tf_thrd_fops'[t][i]]
  <1>13. ASSUME NEW i \in 1..n
         PROVE  /\ In(i) \in Seq(Slots) /\ Len(In(i)) \in Nat
                /\ ext(i) = 0 => New(i) = In(i)
                /\ ext(i) = 1 => /\ In(i) = list /\ New(i) = Append(In(i), s) /\ jp[t] # 0
                                 /\ tf_thrd_fops[t][i] = outer
                /\ ext(i) \in {0, 1}
    <2>1. tf_thrd_fops[t][i] \in Slots \ {s} /\ tf_thrd_fops'[t][i] = tf_thrd_fops[t][i]
      BY <1>8, <1>10
    <2>2. In(i) = fo_comp_fops[tf_thrd_fops[t][i]] /\ In(i) \in Seq(Slots)
      BY <1>1, <2>1 DEF PrivateOK, Inner
    <2>3. New(i) = IF jp[t] # 0 /\ tf_thrd_fops[t][i] = outer THEN Append(list, s) ELSE In(i)
      BY <1>3, <2>1, <2>2
    <2>4. CASE jp[t] # 0 /\ tf_thrd_fops[t][i] = outer
      <3>1. ext(i) = 1 /\ In(i) = list
        BY <1>5, <2>2, <2>4
      <3> QED
        BY <2>2, <2>3, <2>4, <3>1
    <2>5. CASE ~(jp[t] # 0 /\ tf_thrd_fops[t][i] = outer)
      <3>1. ext(i) = 0 /\ New(i) = In(i)
        BY <2>3, <2>5
      <3> QED
        BY <2>2, <3>1
    <2> QED
      BY <2>4, <2>5
  <1>14. ASSUME NEW i \in 1..n, NEW j \in 1..Len(In(i))
         PROVE  /\ Mine(In(i)[j], t) /\ In(i)[j] # s /\ In(i)[j] \in Slots
                /\ \A k \in 1..n : In(i)[j] # tf_thrd_fops[t][k]
                /\ \A k \in 1..n : \A l \in 1..Len(In(k)) :
                     In(i)[j] = In(k)[l] => tf_thrd_fops[t][i] = tf_thrd_fops[t][k] /\ j = l
                /\ fo_exec_next[In(i)[j]] = IF j < Len(In(i)) THEN In(i)[j + 1] ELSE NULL
    <2>1. Mine(In(i)[j], t)
      BY <1>2 DEF Owned
    <2>2. In(i)[j] # s /\ In(i)[j] \in Slots
      BY <1>2, <2>1 DEF Mine, PoolOK
    <2>3. /\ \A k \in 1..n : In(i)[j] # tf_thrd_fops[t][k]
          /\ \A k \in 1..n : \A l \in 1..Len(In(k)) :
               In(i)[j] = In(k)[l] => tf_thrd_fops[t][i] = tf_thrd_fops[t][k] /\ j = l
          /\ fo_exec_next[In(i)[j]] = IF j < Len(In(i)) THEN In(i)[j + 1] ELSE NULL
      BY <1>2, OwnedFacts
    <2> QED
      BY <2>1, <2>2, <2>3
  <1>15. jp[t] = 0 => New(ip[t]) = <<>>
    BY <1>2, <1>3, <1>10
  <1> HIDE DEF ext, In, New
  <1>16. ASSUME NEW i \in 1..n, NEW j \in 1..Len(New(i))
         PROVE  \/ j \in 1..Len(In(i)) /\ New(i)[j] = In(i)[j]
                \/ ext(i) = 1 /\ j = Len(In(i)) + 1 /\ New(i)[j] = s
    <2>1. CASE ext(i) = 0
      BY <1>13, <2>1
    <2>2. CASE ext(i) = 1
      <3>1. In(i) = list /\ New(i) = Append(list, s)
        BY <1>13, <2>2
      <3> QED
        BY <1>6, <2>2, <3>1
    <2> QED
      BY <1>13, <2>1, <2>2
  <1>17. Owned(t)'
    <2> DEFINE Own(e) == e \in shm_bitmap' /\ flowop'[e].thread = t /\ flowop'[e].run = run'
    <2>1. ASSUME NEW e, Mine(e, t) PROVE Own(e)
      <3>1. e \in Slots \ {s}
        BY <1>2, <2>1 DEF Mine, PoolOK
      <3> QED
        BY <1>2, <2>1, <3>1 DEF Mine
    <2>2. Own(s)
      BY <1>2
    <2> HIDE DEF Own
    <2>3. \A i \in 1..ip[t] : Own(tf_thrd_fops'[t][i])
      <3>1. \A i \in 1..n : Own(tf_thrd_fops'[t][i])
        BY <1>2, <1>10, <2>1 DEF Owned
      <3> QED
        BY <1>8, <1>10, <2>2, <3>1
    <2>4. ASSUME NEW i \in 1..ip[t], NEW j \in 1..Len(New(i))
          PROVE  /\ i \in 1..n /\ Own(New(i)[j])
                 /\ \A k \in 1..ip[t] : New(i)[j] # tf_thrd_fops'[t][k]
                 /\ \A k \in 1..ip[t] : \A l \in 1..Len(New(k)) :
                      New(i)[j] = New(k)[l] => tf_thrd_fops'[t][i] = tf_thrd_fops'[t][k] /\ j = l
                 /\ fo_exec_next'[New(i)[j]] = IF j < Len(New(i)) THEN New(i)[j + 1] ELSE NULL
      <3>0. \A k \in 1..ip[t] : New(k) # <<>> => k \in 1..n
        BY <1>8, <1>10, <1>15
      <3>1. i \in 1..n
        BY <3>0
      <3>2. Own(New(i)[j])
        BY <1>14, <1>16, <2>1, <2>2, <3>1
      <3>3. \A k \in 1..n : s # tf_thrd_fops'[t][k]
        BY <1>8, <1>10
      <3>4. \A k \in 1..ip[t] : New(i)[j] # tf_thrd_fops'[t][k]
        <4>1. CASE j \in 1..Len(In(i)) /\ New(i)[j] = In(i)[j]
          <5>1. In(i)[j] # s /\ \A k \in 1..n : In(i)[j] # tf_thrd_fops[t][k]
            BY <1>14, <3>1, <4>1
          <5> QED
            BY <1>8, <1>10, <4>1, <5>1
        <4>2. CASE ext(i) = 1 /\ New(i)[j] = s
          <5>1. ip[t] = n
            BY <1>10, <1>13, <3>1, <4>2
          <5> QED
            BY <3>3, <4>2, <5>1
        <4> QED
          BY <1>16, <3>1, <4>1, <4>2
      <3>5. ASSUME NEW k \in 1..ip[t], NEW l \in 1..Len(New(k)), New(i)[j] = New(k)[l]
            PROVE  tf_thrd_fops'[t][i] = tf_thrd_fops'[t][k] /\ j = l
        <4>1. k \in 1..n
          BY <3>0
        <4>2. CASE /\ j \in 1..Len(In(i)) /\ New(i)[j] = In(i)[j]
                   /\ l \in 1..Len(In(k)) /\ New(k)[l] = In(k)[l]
          <5>1. In(i)[j] = In(k)[l]
            BY <3>5, <4>2
          <5>2. tf_thrd_fops[t][i] = tf_thrd_fops[t][k] /\ j = l
            BY <1>14, <3>1, <4>1, <4>2, <5>1
          <5> QED
            BY <1>10, <3>1, <4>1, <5>2
        <4>3. CASE /\ ext(i) = 1 /\ j = Len(In(i)) + 1 /\ New(i)[j] = s
                   /\ ext(k) = 1 /\ l = Len(In(k)) + 1
          <5>1. In(i) = list /\ In(k) = list /\ tf_thrd_fops[t][i] = tf_thrd_fops[t][k]
            BY <1>13, <3>1, <4>1, <4>3
          <5> QED
            BY <1>10, <3>1, <4>1, <4>3, <5>1
        <4>4. CASE /\ j \in 1..Len(In(i)) /\ New(i)[j] = In(i)[j] /\ New(k)[l] = s
          <5>1. In(i)[j] # s
            BY <1>14, <3>1, <4>4
          <5> QED
            BY <3>5, <4>4, <5>1
        <4>5. CASE /\ l \in 1..Len(In(k)) /\ New(k)[l] = In(k)[l] /\ New(i)[j] = s
          BY <1>14, <3>5, <4>1, <4>5
        <4> QED
          BY <1>16, <3>1, <4>1, <4>2, <4>3, <4>4, <4>5
      <3>6. fo_exec_next'[New(i)[j]] = IF j < Len(New(i)) THEN New(i)[j + 1] ELSE NULL
        <4>1. CASE j \in 1..Len(In(i)) /\ New(i)[j] = In(i)[j]
          <5>0. /\ In(i)[j] \in Slots /\ In(i)[j] # s /\ Len(In(i)) \in Nat /\ j \in Nat
                /\ fo_exec_next[In(i)[j]] = IF j < Len(In(i)) THEN In(i)[j + 1] ELSE NULL
            BY <1>13, <1>14, <3>1, <4>1
          <5>1. CASE list # <<>> /\ In(i)[j] = list[Len(list)]
            <6>1. jp[t] # 0
              <7> SUFFICES ASSUME jp[t] = 0 PROVE FALSE
                OBVIOUS
              <7>1. list = tf_thrd_fops[t] /\ Len(list) \in 1..n
                BY <1>2, <1>5, <1>6, <5>1
              <7>2. \A k \in 1..n : In(i)[j] # tf_thrd_fops[t][k]
                BY <1>14, <3>1, <4>1
              <7> QED
                BY <5>1, <7>1, <7>2
            <6>2. ip[t] \in 1..n /\ In(ip[t]) = list /\ Len(list) \in 1..Len(In(ip[t]))
              BY <1>2, <1>5, <1>6, <1>8, <5>1, <6>1 DEF In
            <6>3. tf_thrd_fops[t][i] = tf_thrd_fops[t][ip[t]] /\ j = Len(list)
              <7>1. PICK m \in 1..Len(In(ip[t])) : m = Len(list) /\ In(i)[j] = In(ip[t])[m]
                BY <5>1, <6>2
              <7>2. \A k \in 1..n : \A l \in 1..Len(In(k)) :
                      In(i)[j] = In(k)[l] => tf_thrd_fops[t][i] = tf_thrd_fops[t][k] /\ j = l
                BY <1>14, <3>1, <4>1
              <7> QED
                BY <6>2, <7>1, <7>2
            <6>4. ext(i) = 1
              BY <6>1, <6>3 DEF ext
            <6>5. In(i) = list /\ New(i) = Append(list, s)
              BY <1>13, <3>1, <6>4
            <6>6. j < Len(New(i)) /\ New(i)[j + 1] = s
              BY <1>6, <6>3, <6>5
            <6>7. fo_exec_next'[In(i)[j]] = s
              BY <1>3, <5>0, <5>1
            <6> QED
              BY <4>1, <6>6, <6>7
          <5>2. CASE ~(list # <<>> /\ In(i)[j] = list[Len(list)])
            <6>1. fo_exec_next'[In(i)[j]] = fo_exec_next[In(i)[j]]
              BY <1>3, <5>0, <5>2
            <6>2. CASE ext(i) = 0
              BY <1>13, <3>1, <4>1, <5>0, <6>1, <6>2
            <6>3. CASE ext(i) = 1
              <7>1. In(i) = list /\ New(i) = Append(list, s)
                BY <1>13, <3>1, <6>3
              <7>2. list # <<>> /\ j # Len(list)
                BY <4>1, <5>2, <7>1
              <7>3. j < Len(In(i)) /\ j < Len(New(i)) /\ New(i)[j + 1] = In(i)[j + 1]
                BY <1>6, <4>1, <5>0, <7>1, <7>2
              <7> QED
                BY <4>1, <5>0, <6>1, <7>3
            <6> QED
              BY <1>13, <3>1, <6>2, <6>3
          <5> QED
            BY <5>1, <5>2
        <4>2. CASE ext(i) = 1 /\ j = Len(In(i)) + 1 /\ New(i)[j] = s
          <5>1. New(i) = Append(list, s) /\ In(i) = list
            BY <1>13, <3>1, <4>2
          <5>2. ~(j < Len(New(i)))
            BY <1>6, <4>2, <5>1
          <5> QED
            BY <1>2, <1>3, <4>2, <5>2
        <4> QED
          BY <1>16, <3>1, <4>1, <4>2
      <3> QED
        BY <3>1, <3>2, <3>4, <3>5, <3>6
    <2>5. Len(tf_thrd_fops'[t]) = ip[t] /\ \A i : Inner(t, i)' = New(i)
      BY <1>10 DEF Inner, New
    <2> QED
      BY <2>3, <2>4, <2>5 DEF Owned, Mine, Own
  <1> QED
    BY <1>7, <1>9, <1>11, <1>12, <1>17 DEF TInv

\* The threads' slots are kept by every step.
LEMMA SlotStep ==
  ASSUME PoolOK, Shape, SlotInv, [Next]_vars
  PROVE  SlotInv'
  <1>1. ASSUME NEW t \in Threads, Step(t) \/ Kill(t) PROVE SlotInv'
    BY <1>1, QuietSlots, BroadcastSlots, FreeSlots, DeleteSlots, DefineSlots
       DEF Step, Flow, QuietAction
  <1>2. CASE NextRun
    <2>1. /\ raced' = raced /\ fo_comp_fops' = fo_comp_fops /\ fo_exec_next' = fo_exec_next
          /\ tf_thrd_fops' = [t \in Threads |-> <<>>] /\ pc' = [t \in Threads |-> "start"]
          /\ ip' = [t \in Threads |-> 1] /\ jp' = [t \in Threads |-> 0]
      BY <1>2 DEF NextRun, listVars
    <2>2. SlotInv => (SlotInv' \/ PrivateOK')
      BY <2>1 DEF SlotInv, PrivateOK
    <2>3. \A t \in Threads : PosOK(t)' /\ Owned(t)' /\ Dest(t)'
      BY <2>1 DEF PosOK, Owned, Dest, LoopPcs, DeletePcs
    <2> QED
      BY <2>2, <2>3 DEF SlotInv, TInv
  <1>3. CASE AllStarted \/ Abort \/ UNCHANGED vars
    <2>1. UNCHANGED <<ownVars, raced, pc, ip, jp, res>>
      BY <1>3 DEF AllStarted, Abort, vars, ownVars, poolVars, listVars, posVars, runVars
    <2>2. PrivateOK => PrivateOK'
      BY <2>1 DEF PrivateOK, ownVars, privateVars
    <2>3. \A u \in Threads : TInv(u) => TInv(u)'
      BY <2>1, SameThread
    <2> QED
      BY <2>1, <2>2, <2>3 DEF SlotInv
  <1> QED
    BY <1>1, <1>2, <1>3 DEF Next

\* It all holds at the start.
LEMMA SlotInit ==
  ASSUME Init
  PROVE  PoolOK /\ Shape /\ SlotInv
  <1>1. PoolOK
    BY RoomForMasters, ProgramAssumption DEF Init, PoolOK, Slots
  <1>2. Shape
    BY DEF Init, Shape
  <1>3. PrivateOK
    BY DEF Init, PrivateOK
  <1>4. \A t \in Threads : PosOK(t) /\ Owned(t) /\ Dest(t)
    BY DEF Init, PosOK, Owned, Dest, LoopPcs, DeletePcs
  <1> QED
    BY <1>1, <1>2, <1>3, <1>4 DEF SlotInv, TInv

\* The pool and the threads' private state are as described, at all times.
THEOREM SlotsInvariant == Spec => [](PoolOK /\ Shape /\ SlotInv)
  <1>1. Init => PoolOK /\ Shape /\ SlotInv
    BY SlotInit
  <1>2. PoolOK /\ Shape /\ SlotInv /\ [Next]_vars => (PoolOK /\ Shape /\ SlotInv)'
    BY ShapeStep, SlotStep
  <1> QED
    BY <1>1, <1>2, PTL DEF Spec

\* ipc_malloc() gives up only when at most one slot is free, for any number of
\* slots and whatever has been allocated and freed before.
THEOREM MallocFailsOnlyFull == Spec => []FailsOnlyFull
  <1>1. PoolOK => FailsOnlyFull
    <2> SUFFICES ASSUME PoolOK, ipc_malloc = NULL
                 PROVE  Cardinality(Slots \ shm_bitmap) <= 1
      BY DEF FailsOnlyFull
    <2>1. Slots \ shm_bitmap \in SUBSET {shm_lastbitmapindex}
      BY MallocFacts
    <2>2. IsFiniteSet({shm_lastbitmapindex}) /\ Cardinality({shm_lastbitmapindex}) = 1
      BY FS_Singleton
    <2> QED
      BY <2>1, <2>2, FS_Subset
  <1> QED
    BY <1>1, SlotsInvariant, PTL

\* Every thread's flowops are allocated and its own, for any programs and any
\* number of threads and slots, as long as no thread has followed a link of a
\* flowop that had become another's.
THEOREM FlowopSlotsExclusive == Spec => []SlotsExclusive
  <1>1. SlotInv => SlotsExclusive
    <2> SUFFICES ASSUME SlotInv, "link" \notin raced
                 PROVE  /\ Live \subseteq shm_bitmap
                        /\ \A t \in Threads : pc[t] # "exited" =>
                             \A s \in Range(tf_thrd_fops[t]) :
                               /\ flowop[s].thread = t /\ flowop[s].run = run
                               /\ \A i \in Range(fo_comp_fops[s]) :
                                    flowop[i].thread = t /\ flowop[i].run = run
      BY DEF SlotsExclusive
    <2>1. PrivateOK
      BY DEF SlotInv
    <2>2. ASSUME NEW t \in Threads, pc[t] # "exited", NEW s \in Range(tf_thrd_fops[t])
          PROVE  /\ Mine(s, t)
                 /\ \A i \in Range(fo_comp_fops[s]) : Mine(i, t)
      <3>1. Owned(t)
        BY <2>2 DEF SlotInv, TInv
      <3>2. PICK k \in 1..Len(tf_thrd_fops[t]) : s = tf_thrd_fops[t][k]
        BY <2>1, <2>2 DEF PrivateOK, Range
      <3>3. fo_comp_fops[s] = Inner(t, k) /\ Inner(t, k) \in Seq(Slots)
        BY <2>1, <3>2 DEF PrivateOK, Inner
      <3>4. Mine(s, t) /\ \A j \in 1..Len(Inner(t, k)) : Mine(Inner(t, k)[j], t)
        BY <3>1, <3>2 DEF Owned
      <3> QED
        BY <3>3, <3>4 DEF Range
    <2>3. Live \subseteq shm_bitmap
      BY <2>2 DEF Live, Mine
    <2> QED
      BY <2>2, <2>3 DEF Mine
  <1> QED
    BY <1>1, SlotsInvariant, PTL

-----------------------------------------------------------------------------
(* The global list.                                                        *)

UnlockedPcs == {"seek", "unlink", "free"}

\* L is the global list from its end on.  It holds the allocated flowops that no
\* thread is about to free; a thread that looks for its flowop is above it, and
\* one that is about to unlink it is right before it.
IsList(n, L) ==
  /\ \A i \in 1..n : \A j \in 1..n : L[i] = L[j] => i = j
  /\ shm_flowoplist = IF n = 0 THEN NULL ELSE L[n]
  /\ \A i \in 1..n : fo_next[L[i]] = IF i = 1 THEN NULL ELSE L[i - 1]
  /\ \A i \in 1..n : L[i] \in shm_bitmap
  /\ \A t \in Threads : pc[t] = "free" => \A i \in 1..n : res[t] # L[i]
  /\ \A s \in shm_bitmap : (\E i \in 1..n : s = L[i])
                             \/ \E t \in Threads : pc[t] = "free" /\ s = res[t]
  /\ \A t \in Threads : pc[t] = "seek" =>
       \E i \in 1..n : \E j \in 1..n : j < i /\ cur[t] = L[i] /\ res[t] = L[j]
  /\ \A t \in Threads : pc[t] = "unlink" =>
       IF cur[t] = NULL THEN n # 0 /\ res[t] = L[n]
       ELSE \E i \in 2..n : cur[t] = L[i] /\ res[t] = L[i - 1]

ListInv == raced = {} => \E n \in Nat : \E L \in [1..n -> Slots] : IsList(n, L)

\* A step that leaves the list and the threads that change it alone.
LEMMA ListFrame ==
  ASSUME ListInv, raced \subseteq raced', UNCHANGED <<shm_bitmap, shm_flowoplist, fo_next>>,
         \A u \in Threads : pc'[u] \in UnlockedPcs =>
           pc'[u] = pc[u] /\ cur'[u] = cur[u] /\ res'[u] = res[u],
         \A u \in Threads : pc[u] = "free" => pc'[u] = "free"
  PROVE  ListInv'
  <1> SUFFICES ASSUME raced' = {}
               PROVE  \E n \in Nat : \E L \in [1..n -> Slots] : IsList(n, L)'
    BY DEF ListInv
  <1>1. raced = {}
    OBVIOUS
  <1>2. PICK n \in Nat : \E L \in [1..n -> Slots] : IsList(n, L)
    BY <1>1 DEF ListInv
  <1>3. PICK L \in [1..n -> Slots] : IsList(n, L)
    BY <1>2
  <1>4. /\ \A u \in Threads : pc'[u] = "free" => pc[u] = "free" /\ res'[u] = res[u]
        /\ \A u \in Threads : pc[u] = "free" => pc'[u] = "free" /\ res'[u] = res[u]
        /\ \A u \in Threads : pc'[u] = "seek" =>
             pc[u] = "seek" /\ res'[u] = res[u] /\ cur'[u] = cur[u]
        /\ \A u \in Threads : pc'[u] = "unlink" =>
             pc[u] = "unlink" /\ res'[u] = res[u] /\ cur'[u] = cur[u]
    BY DEF UnlockedPcs
  <1>5. IsList(n, L)'
    <2>1. /\ \A i \in 1..n : \A j \in 1..n : L[i] = L[j] => i = j
          /\ shm_flowoplist' = IF n = 0 THEN NULL ELSE L[n]
          /\ \A i \in 1..n : fo_next'[L[i]] = IF i = 1 THEN NULL ELSE L[i - 1]
          /\ \A i \in 1..n : L[i] \in shm_bitmap'
      BY <1>3 DEF IsList
    <2>2. \A u \in Threads : pc'[u] = "free" => \A i \in 1..n : res'[u] # L[i]
      BY <1>3, <1>4 DEF IsList
    <2>3. \A e \in shm_bitmap' : (\E i \in 1..n : e = L[i])
                                   \/ \E u \in Threads : pc'[u] = "free" /\ e = res'[u]
      BY <1>3, <1>4 DEF IsList
    <2>4. \A u \in Threads : pc'[u] = "seek" =>
            \E i \in 1..n : \E j \in 1..n : j < i /\ cur'[u] = L[i] /\ res'[u] = L[j]
      BY <1>3, <1>4 DEF IsList
    <2>5. \A u \in Threads : pc'[u] = "unlink" =>
            IF cur'[u] = NULL THEN n # 0 /\ res'[u] = L[n]
            ELSE \E i \in 2..n : cur'[u] = L[i] /\ res'[u] = L[i - 1]
      BY <1>3, <1>4 DEF IsList
    <2> QED
      BY <2>1, <2>2, <2>3, <2>4, <2>5 DEF IsList
  <1> QED
    BY <1>5

\* The flowop that a thread takes off the list is allocated, and its own.
LEMMA LeavingOwn ==
  ASSUME SlotInv, raced = {}, NEW u \in Threads, pc[u] \in UnlockedPcs
  PROVE  res[u] \in shm_bitmap /\ flowop[res[u]].thread = u
  BY DEF SlotInv, TInv, Dest, Mine, UnlockedPcs

\* The list grows at its head, while no other thread takes a flowop off it.
LEMMA ListDefine ==
  ASSUME PoolOK, Shape, SlotInv, ListInv, NEW t \in Threads, Define(t)
  PROVE  ListInv'
  <1> DEFINE s == ipc_malloc
  <1> SUFFICES ASSUME raced' = {}
               PROVE  \E n \in Nat : \E L \in [1..n -> Slots] : IsList(n, L)'
    BY DEF ListInv
  <1>1. /\ raced = {} /\ ~Unlocked(t) /\ s \in Slots \ shm_bitmap
        /\ shm_bitmap' = shm_bitmap \cup {s} /\ shm_flowoplist' = s
        /\ fo_next' = [fo_next EXCEPT ![s] = shm_flowoplist]
        /\ cur' = cur /\ res' = res
    BY MallocFacts DEF Define
  <1>2. /\ pc[t] = "create" /\ pc'[t] \in {"create", "loop"}
        /\ \A u \in Threads \ {t} : pc'[u] = pc[u] /\ pc[u] \notin {"seek", "unlink"}
    BY <1>1 DEF Define, GoOn, Unlocked, Shape
  <1>3. PICK n \in Nat : \E L \in [1..n -> Slots] : IsList(n, L)
    BY <1>1 DEF ListInv
  <1>4. PICK L \in [1..n -> Slots] : IsList(n, L)
    BY <1>3
  <1>5. PICK M \in [1..(n + 1) -> Slots] :
          /\ M[n + 1] = s /\ n + 1 \in Nat \ {0}
          /\ \A i \in 1..(n + 1) : i # n + 1 => i \in 1..n
          /\ \A i \in 1..n : M[i] = L[i] /\ i \in 1..(n + 1)
    <2>1. [i \in 1..(n + 1) |-> IF i = n + 1 THEN s ELSE L[i]] \in [1..(n + 1) -> Slots]
      BY <1>1
    <2> WITNESS [i \in 1..(n + 1) |-> IF i = n + 1 THEN s ELSE L[i]] \in [1..(n + 1) -> Slots]
    <2> QED
      OBVIOUS
  <1> HIDE DEF s
  <1>6. \A i \in 1..n : L[i] # s /\ L[i] \in Slots
    BY <1>1, <1>4 DEF IsList
  <1>7. \A i \in 1..(n + 1) : \A j \in 1..(n + 1) : M[i] = M[j] => i = j
    BY <1>4, <1>5, <1>6 DEF IsList
  <1>8. \A i \in 1..(n + 1) : fo_next'[M[i]] = IF i = 1 THEN NULL ELSE M[i - 1]
    <2> TAKE i \in 1..(n + 1)
    <2>1. CASE i = n + 1
      <3>1. fo_next'[M[i]] = shm_flowoplist
        BY <1>1, <1>5, <2>1 DEF Shape
      <3> QED
        BY <1>4, <1>5, <2>1, <3>1 DEF IsList
    <2>2. CASE i # n + 1
      <3>1. i \in 1..n /\ M[i] = L[i] /\ fo_next'[M[i]] = fo_next[L[i]]
        BY <1>1, <1>5, <1>6, <2>2 DEF Shape
      <3> QED
        BY <1>4, <1>5, <3>1 DEF IsList
    <2> QED
      BY <2>1, <2>2
  <1>9. /\ \A i \in 1..(n + 1) : M[i] \in shm_bitmap'
        /\ shm_flowoplist' = M[n + 1] /\ n + 1 # 0
    BY <1>1, <1>4, <1>5 DEF IsList
  <1>10. \A u \in Threads : pc'[u] = "free" =>
           pc[u] = "free" /\ \A i \in 1..(n + 1) : res'[u] # M[i]
    <2> SUFFICES ASSUME NEW u \in Threads, pc'[u] = "free"
                 PROVE  pc[u] = "free" /\ \A i \in 1..(n + 1) : res'[u] # M[i]
      OBVIOUS
    <2>1. u # t /\ pc[u] = "free" /\ res'[u] = res[u]
      BY <1>1, <1>2
    <2>2. res[u] \in shm_bitmap
      BY <1>1, <2>1, LeavingOwn DEF UnlockedPcs
    <2> QED
      BY <1>1, <1>4, <1>5, <2>1, <2>2 DEF IsList
  <1>11. \A e \in shm_bitmap' : (\E i \in 1..(n + 1) : e = M[i])
                                  \/ \E u \in Threads : pc'[u] = "free" /\ e = res'[u]
    <2> TAKE e \in shm_bitmap'
    <2>1. CASE e = s
      BY <1>5, <2>1
    <2>2. CASE e \in shm_bitmap
      <3>1. CASE \E i \in 1..n : e = L[i]
        BY <1>5, <3>1
      <3>2. CASE \E u \in Threads : pc[u] = "free" /\ e = res[u]
        BY <1>1, <1>2, <3>2
      <3> QED
        BY <1>4, <2>2, <3>1, <3>2 DEF IsList
    <2> QED
      BY <1>1, <2>1, <2>2
  <1>12. \A u \in Threads : pc'[u] \notin {"seek", "unlink"}
    BY <1>2
  <1>13. IsList(n + 1, M)'
    BY <1>7, <1>8, <1>9, <1>10, <1>11, <1>12 DEF IsList
  <1> QED
    BY <1>5, <1>13

\* The store that takes a flowop off the list, while no other thread does.
LEMMA ListUnlink ==
  ASSUME PoolOK, Shape, SlotInv, ListInv, NEW t \in Threads, Unlink(t)
  PROVE  ListInv'
  <1> SUFFICES ASSUME raced' = {}
               PROVE  \E n \in Nat : \E L \in [1..n -> Slots] : IsList(n, L)'
    BY DEF ListInv
  <1>1. raced = {} /\ ~Unlocked(t) /\ pc[t] = "unlink" /\ NULL \notin Slots
    BY ProgramAssumption DEF Unlink
  <1>2. shm_bitmap' = shm_bitmap /\ cur' = cur /\ res' = res
    BY DEF Unlink, poolVars
  <1>3. PICK n \in Nat : \E L \in [1..n -> Slots] : IsList(n, L)
    BY <1>1 DEF ListInv
  <1>4. PICK L \in [1..n -> Slots] : IsList(n, L)
    BY <1>3
  <1>5. PICK p \in 1..n : /\ res[t] = L[p] /\ (cur[t] = NULL <=> p = n)
                          /\ p # n => cur[t] = L[p + 1]
    <2>1. CASE cur[t] = NULL
      <3>1. n \in 1..n /\ res[t] = L[n]
        BY <1>1, <1>4, <2>1 DEF IsList
      <3> QED
        BY <2>1, <3>1
    <2>2. CASE cur[t] # NULL
      <3>1. PICK i \in 2..n : cur[t] = L[i] /\ res[t] = L[i - 1]
        BY <1>1, <1>4, <2>2 DEF IsList
      <3>2. i - 1 \in 1..n /\ i - 1 # n /\ (i - 1) + 1 = i
        BY <3>1
      <3> QED
        BY <2>2, <3>1, <3>2
    <2> QED
      BY <2>1, <2>2
  <1>6. /\ \A i \in 1..n : L[i] \in Slots /\ L[i] # NULL
        /\ \A i \in 1..n : fo_next[L[i]] = IF i = 1 THEN NULL ELSE L[i - 1]
        /\ \A i \in 1..n : \A j \in 1..n : L[i] = L[j] => i = j
    BY <1>1, <1>4 DEF IsList
  <1>7. PICK M \in [1..(n - 1) -> Slots] :
          \A k \in 1..(n - 1) : M[k] = IF k < p THEN L[k] ELSE L[k + 1]
    <2>1. [k \in 1..(n - 1) |-> IF k < p THEN L[k] ELSE L[k + 1]] \in [1..(n - 1) -> Slots]
      <3>1. \A k \in 1..(n - 1) : k \in 1..n /\ k + 1 \in 1..n
        OBVIOUS
      <3> QED
        BY <1>6, <3>1
    <2> WITNESS [k \in 1..(n - 1) |-> IF k < p THEN L[k] ELSE L[k + 1]] \in [1..(n - 1) -> Slots]
    <2> QED
      OBVIOUS
  <1>8. /\ pc' = [pc EXCEPT ![t] = "free"]
        /\ p = n => fo_next' = fo_next /\ shm_flowoplist' = fo_next[L[p]]
        /\ p # n => /\ shm_flowoplist' = shm_flowoplist
                    /\ fo_next' = [fo_next EXCEPT ![L[p + 1]] = fo_next[L[p]]]
    <2>1. CASE p = n
      BY <1>5, <2>1 DEF Unlink
    <2>2. CASE p # n
      <3>1. p + 1 \in 1..n /\ (p + 1) - 1 = p /\ p + 1 # 1
        BY <2>2
      <3>2. fo_next[L[p + 1]] = L[p] /\ L[p] # NULL
        BY <1>6, <3>1
      <3> QED
        BY <1>5, <2>2, <3>2 DEF Unlink
    <2> QED
      BY <2>1, <2>2
  <1>9. /\ \A u \in Threads : pc'[u] \notin {"seek", "unlink"}
        /\ \A u \in Threads \ {t} : pc'[u] = pc[u]
        /\ pc'[t] = "free"
    BY <1>1, <1>8 DEF Unlocked, Shape
  <1>10. \A k \in 1..(n - 1) : \E i \in 1..n : i # p /\ M[k] = L[i]
    <2> TAKE k \in 1..(n - 1)
    <2>1. CASE k < p
      BY <1>7, <2>1
    <2>2. CASE ~(k < p)
      <3>1. k + 1 \in 1..n /\ k + 1 # p
        BY <2>2
      <3> QED
        BY <1>7, <2>2, <3>1
    <2> QED
      BY <2>1, <2>2
  <1>11. \A i \in 1..n : i # p => \E k \in 1..(n - 1) : M[k] = L[i]
    <2> SUFFICES ASSUME NEW i \in 1..n, i # p PROVE \E k \in 1..(n - 1) : M[k] = L[i]
      OBVIOUS
    <2>1. CASE i < p
      <3>1. i \in 1..(n - 1)
        BY <2>1
      <3> QED
        BY <1>7, <2>1, <3>1
    <2>2. CASE i > p
      <3>1. i - 1 \in 1..(n - 1) /\ ~(i - 1 < p) /\ (i - 1) + 1 = i
        BY <2>2
      <3> QED
        BY <1>7, <3>1
    <2> QED
      BY <2>1, <2>2
  <1>12. \A i \in 1..(n - 1) : \A j \in 1..(n - 1) : M[i] = M[j] => i = j
    <2> SUFFICES ASSUME NEW i \in 1..(n - 1), NEW j \in 1..(n - 1), M[i] = M[j] PROVE i = j
      OBVIOUS
    <2>1. M[i] = (IF i < p THEN L[i] ELSE L[i + 1]) /\ M[j] = (IF j < p THEN L[j] ELSE L[j + 1])
      BY <1>7
    <2>2. i \in 1..n /\ j \in 1..n /\ i + 1 \in 1..n /\ j + 1 \in 1..n
      OBVIOUS
    <2>3. \A a \in 1..n : \A b \in 1..n : L[a] = L[b] => a = b
      BY <1>6
    <2>4. CASE i < p /\ j < p
      BY <2>1, <2>2, <2>3, <2>4
    <2>5. CASE i < p /\ ~(j < p)
      <3>1. L[i] = L[j + 1]
        BY <2>1, <2>5
      <3> QED
        BY <2>2, <2>3, <2>5, <3>1
    <2>6. CASE ~(i < p) /\ j < p
      <3>1. L[i + 1] = L[j]
        BY <2>1, <2>6
      <3> QED
        BY <2>2, <2>3, <2>6, <3>1
    <2>7. CASE ~(i < p) /\ ~(j < p)
      <3>1. L[i + 1] = L[j + 1]
        BY <2>1, <2>7
      <3>2. i + 1 = j + 1
        BY <2>2, <2>3, <3>1
      <3> QED
        BY <3>2
    <2> QED
      BY <2>4, <2>5, <2>6, <2>7
  <1>13. shm_flowoplist' = IF n - 1 = 0 THEN NULL ELSE M[n - 1]
    <2>1. CASE p = n
      <3>1. n # 1 => n - 1 \in 1..(n - 1) /\ n - 1 < p /\ M[n - 1] = L[n - 1]
        BY <1>7, <2>1
      <3> QED
        BY <1>6, <1>8, <2>1, <3>1
    <2>2. CASE p # n
      <3>1. n - 1 \in 1..(n - 1) /\ ~(n - 1 < p) /\ (n - 1) + 1 = n
        BY <2>2
      <3> QED
        BY <1>4, <1>7, <1>8, <2>2, <3>1 DEF IsList
    <2> QED
      BY <2>1, <2>2
  <1>14. \A i \in 1..(n - 1) : fo_next'[M[i]] = IF i = 1 THEN NULL ELSE M[i - 1]
    <2> TAKE i \in 1..(n - 1)
    <2>1. CASE i < p
      <3>1. i \in 1..n /\ M[i] = L[i] /\ (i # 1 => i - 1 \in 1..(n - 1) /\ M[i - 1] = L[i - 1])
        BY <1>7, <2>1
      <3>2. fo_next'[L[i]] = fo_next[L[i]]
        <4>1. p # n => p + 1 \in 1..n /\ L[p + 1] # L[i]
          BY <1>6, <2>1, <3>1
        <4> QED
          BY <1>6, <1>8, <3>1, <4>1 DEF Shape
      <3> QED
        BY <1>6, <3>1, <3>2
    <2>2. CASE i = p
      <3>1. i + 1 \in 1..n /\ M[i] = L[i + 1] /\ p # n
        BY <1>7, <2>2
      <3>2. fo_next'[M[i]] = fo_next[L[p]]
        BY <1>6, <1>8, <2>2, <3>1 DEF Shape
      <3>3. i # 1 => i - 1 \in 1..(n - 1) /\ M[i - 1] = L[i - 1]
        BY <1>7, <2>2
      <3> QED
        BY <1>6, <2>2, <3>2, <3>3
    <2>3. CASE i > p
      <3>1. /\ i + 1 \in 1..n /\ i # 1 /\ i + 1 # 1 /\ (i + 1) - 1 = i /\ (i - 1) + 1 = i
            /\ i - 1 \in 1..(n - 1)
        BY <2>3
      <3>2. M[i] = L[i + 1] /\ M[i - 1] = L[i]
        BY <1>7, <2>3, <3>1
      <3>3. fo_next'[L[i + 1]] = fo_next[L[i + 1]]
        <4>1. p # n => p + 1 \in 1..n /\ L[p + 1] # L[i + 1]
          BY <1>6, <2>3, <3>1
        <4> QED
          BY <1>6, <1>8, <3>1, <4>1 DEF Shape
      <3>4. fo_next[L[i + 1]] = L[i]
        BY <1>6, <3>1
      <3> QED
        BY <3>1, <3>2, <3>3, <3>4
    <2> QED
      BY <2>1, <2>2, <2>3
  <1>15. \A i \in 1..(n - 1) : M[i] \in shm_bitmap'
    BY <1>2, <1>4, <1>10 DEF IsList
  <1>16. \A u \in Threads : pc'[u] = "free" => \A i \in 1..(n - 1) : res'[u] # M[i]
    <2> SUFFICES ASSUME NEW u \in Threads, pc'[u] = "free", NEW i \in 1..(n - 1), res'[u] = M[i]
                 PROVE  FALSE
      OBVIOUS
    <2>1. PICK k \in 1..n : k # p /\ M[i] = L[k]
      BY <1>10
    <2>2. CASE u = t
      BY <1>2, <1>5, <1>6, <2>1, <2>2
    <2>3. CASE u # t
      BY <1>2, <1>4, <1>9, <2>1, <2>3 DEF IsList
    <2> QED
      BY <2>2, <2>3
  <1>17. \A e \in shm_bitmap' : (\E i \in 1..(n - 1) : e = M[i])
                                  \/ \E u \in Threads : pc'[u] = "free" /\ e = res'[u]
    <2> TAKE e \in shm_bitmap'
    <2>1. CASE \E i \in 1..n : e = L[i]
      <3>1. PICK i \in 1..n : e = L[i]
        BY <2>1
      <3>2. CASE i = p
        BY <1>2, <1>5, <1>9, <3>1, <3>2
      <3>3. CASE i # p
        BY <1>11, <3>1, <3>3
      <3> QED
        BY <3>2, <3>3
    <2>2. CASE \E u \in Threads : pc[u] = "free" /\ e = res[u]
      BY <1>2, <1>9, <2>2
    <2> QED
      BY <1>2, <1>4, <2>1, <2>2 DEF IsList
  <1>18. IsList(n - 1, M)'
    BY <1>9, <1>12, <1>13, <1>14, <1>15, <1>16, <1>17 DEF IsList
  <1>19. n - 1 \in Nat
    OBVIOUS
  <1> QED
    BY <1>18, <1>19

\* A thread starts to look for its flowop at the head of the list.
LEMMA ListDelete ==
  ASSUME PoolOK, Shape, SlotInv, SlotInv', ListInv, NEW t \in Threads, Delete(t)
  PROVE  ListInv'
  <1> SUFFICES ASSUME raced' = {}
               PROVE  \E n \in Nat : \E L \in [1..n -> Slots] : IsList(n, L)'
    BY DEF ListInv
  <1>1. /\ UNCHANGED <<shm_bitmap, flowop, shm_flowoplist, fo_next, raced, res>>
        /\ raced = {} /\ NULL \notin Slots
    BY ProgramAssumption DEF Delete, poolVars, listVars
  <1>2. /\ pc[t] = "inner" /\ \A u \in Threads \ {t} : pc'[u] = pc[u] /\ cur'[u] = cur[u]
        /\ \/ pc'[t] = "exited"
           \/ pc'[t] = "unlink" /\ cur'[t] = NULL /\ shm_flowoplist = res[t]
           \/ pc'[t] = "seek" /\ cur'[t] = shm_flowoplist /\ shm_flowoplist # res[t]
    BY DEF Delete, Shape
  <1>3. PICK n \in Nat : \E L \in [1..n -> Slots] : IsList(n, L)
    BY <1>1 DEF ListInv
  <1>4. PICK L \in [1..n -> Slots] : IsList(n, L)
    BY <1>3
  <1>5. ASSUME pc'[t] \in {"seek", "unlink"} PROVE \E i \in 1..n : res[t] = L[i]
    <2>1. res[t] \in shm_bitmap /\ flowop[res[t]].thread = t
      BY <1>1, <1>5 DEF SlotInv, TInv, Dest, Mine
    <2>2. \A u \in Threads : pc[u] = "free" => res[u] # res[t]
      <3> SUFFICES ASSUME NEW u \in Threads, pc[u] = "free" PROVE res[u] # res[t]
        OBVIOUS
      <3>1. u # t /\ flowop[res[u]].thread = u
        BY <1>1, <1>2, LeavingOwn DEF UnlockedPcs
      <3> QED
        BY <2>1, <3>1
    <2> QED
      BY <1>4, <2>1, <2>2 DEF IsList
  <1>6. pc'[t] = "seek" =>
          \E i \in 1..n : \E j \in 1..n : j < i /\ cur'[t] = L[i] /\ res'[t] = L[j]
    <2> SUFFICES ASSUME pc'[t] = "seek"
                 PROVE  \E i \in 1..n : \E j \in 1..n : j < i /\ cur'[t] = L[i] /\ res'[t] = L[j]
      OBVIOUS
    <2>1. PICK j \in 1..n : res[t] = L[j]
      BY <1>5
    <2>2. n \in 1..n /\ shm_flowoplist = L[n]
      BY <1>4, <2>1 DEF IsList
    <2>3. j < n /\ cur'[t] = L[n] /\ res'[t] = L[j]
      BY <1>1, <1>2, <2>1, <2>2
    <2> QED
      BY <2>2, <2>3
  <1>7. pc'[t] = "unlink" => cur'[t] = NULL /\ n # 0 /\ res'[t] = L[n]
    BY <1>1, <1>2, <1>4, <1>5 DEF IsList
  <1>8. \A u \in Threads : pc'[u] = "seek" =>
          \E i \in 1..n : \E j \in 1..n : j < i /\ cur'[u] = L[i] /\ res'[u] = L[j]
    BY <1>1, <1>2, <1>4, <1>6 DEF IsList
  <1>9. \A u \in Threads : pc'[u] = "unlink" =>
          IF cur'[u] = NULL THEN n # 0 /\ res'[u] = L[n]
          ELSE \E i \in 2..n : cur'[u] = L[i] /\ res'[u] = L[i - 1]
    BY <1>1, <1>2, <1>4, <1>7 DEF IsList
  <1>10. /\ \A u \in Threads : pc'[u] = "free" => pc[u] = "free" /\ res'[u] = res[u]
         /\ \A u \in Threads : pc[u] = "free" => pc'[u] = "free" /\ res'[u] = res[u]
    BY <1>1, <1>2
  <1>11. /\ \A u \in Threads : pc'[u] = "free" => \A i \in 1..n : res'[u] # L[i]
         /\ \A e \in shm_bitmap : (\E i \in 1..n : e = L[i])
                                     \/ \E u \in Threads : pc'[u] = "free" /\ e = res'[u]
    BY <1>4, <1>10 DEF IsList
  <1>12. IsList(n, L)'
    BY <1>1, <1>4, <1>8, <1>9, <1>11 DEF IsList
  <1> QED
    BY <1>12

\* One turn of the search gets closer to the flowop.
LEMMA ListSeek ==
  ASSUME PoolOK, Shape, ListInv, NEW t \in Threads, Seek(t)
  PROVE  ListInv'
  <1> SUFFICES ASSUME raced' = {}
               PROVE  \E n \in Nat : \E L \in [1..n -> Slots] : IsList(n, L)'
    BY DEF ListInv
  <1>1. /\ UNCHANGED <<shm_bitmap, shm_flowoplist, fo_next, raced, res>>
        /\ raced = {} /\ NULL \notin Slots
    BY ProgramAssumption DEF Seek, poolVars, listVars
  <1>2. PICK n \in Nat : \E L \in [1..n -> Slots] : IsList(n, L)
    BY <1>1 DEF ListInv
  <1>3. PICK L \in [1..n -> Slots] : IsList(n, L)
    BY <1>2
  <1>4. PICK i \in 1..n : \E j \in 1..n : j < i /\ cur[t] = L[i] /\ res[t] = L[j]
    BY <1>3 DEF IsList, Seek
  <1>5. PICK j \in 1..n : j < i /\ cur[t] = L[i] /\ res[t] = L[j]
    BY <1>4
  <1>6. i \in 2..n /\ i - 1 \in 1..n /\ fo_next[cur[t]] = L[i - 1] /\ L[i - 1] # NULL
    <2>1. i \in 2..n /\ i - 1 \in 1..n /\ i # 1
      BY <1>5
    <2>2. fo_next[L[i]] = L[i - 1]
      BY <1>3, <2>1 DEF IsList
    <2> QED
      BY <1>1, <1>5, <2>1, <2>2
  <1>7. /\ pc[t] = "seek" /\ \A u \in Threads \ {t} : pc'[u] = pc[u] /\ cur'[u] = cur[u]
        /\ L[i - 1] = res[t] => pc'[t] = "unlink" /\ cur'[t] = cur[t]
        /\ L[i - 1] # res[t] => pc'[t] = "seek" /\ cur'[t] = L[i - 1]
    BY <1>6 DEF Seek, Shape
  <1>8. pc'[t] = "seek" =>
          \E a \in 1..n : \E b \in 1..n : b < a /\ cur'[t] = L[a] /\ res'[t] = L[b]
    <2> SUFFICES ASSUME L[i - 1] # res[t]
                 PROVE  \E a \in 1..n : \E b \in 1..n : b < a /\ cur'[t] = L[a] /\ res'[t] = L[b]
      BY <1>7
    <2>1. j < i - 1 /\ cur'[t] = L[i - 1] /\ res'[t] = L[j]
      BY <1>1, <1>5, <1>6, <1>7
    <2> QED
      BY <1>6, <2>1
  <1>9. pc'[t] = "unlink" => cur'[t] # NULL /\ cur'[t] = L[i] /\ res'[t] = L[i - 1]
    BY <1>1, <1>5, <1>6, <1>7
  <1>10. \A u \in Threads : pc'[u] = "seek" =>
           \E a \in 1..n : \E b \in 1..n : b < a /\ cur'[u] = L[a] /\ res'[u] = L[b]
    BY <1>1, <1>3, <1>7, <1>8 DEF IsList
  <1>11. \A u \in Threads : pc'[u] = "unlink" =>
           IF cur'[u] = NULL THEN n # 0 /\ res'[u] = L[n]
           ELSE \E a \in 2..n : cur'[u] = L[a] /\ res'[u] = L[a - 1]
    <2> TAKE u \in Threads
    <2> HAVE pc'[u] = "unlink"
    <2>1. CASE u = t
      BY <1>6, <1>9, <2>1
    <2>2. CASE u # t
      <3>1. pc[u] = "unlink" /\ cur'[u] = cur[u] /\ res'[u] = res[u]
        BY <1>1, <1>7, <2>2
      <3> QED
        BY <1>3, <3>1 DEF IsList
    <2> QED
      BY <2>1, <2>2
  <1>12. /\ \A u \in Threads : pc'[u] = "free" => pc[u] = "free" /\ res'[u] = res[u]
         /\ \A u \in Threads : pc[u] = "free" => pc'[u] = "free" /\ res'[u] = res[u]
    BY <1>1, <1>7
  <1>13. /\ \A u \in Threads : pc'[u] = "free" => \A a \in 1..n : res'[u] # L[a]
         /\ \A e \in shm_bitmap : (\E a \in 1..n : e = L[a])
                                     \/ \E u \in Threads : pc'[u] = "free" /\ e = res'[u]
    BY <1>3, <1>12 DEF IsList
  <1>14. IsList(n, L)'
    BY <1>1, <1>3, <1>10, <1>11, <1>13 DEF IsList
  <1> QED
    BY <1>14

\* A flowop that is freed is off the list, and nobody else is about to free it.
LEMMA ListFree ==
  ASSUME PoolOK, Shape, SlotInv, ListInv, NEW t \in Threads, Free(t)
  PROVE  ListInv'
  <1> SUFFICES ASSUME raced' = {}
               PROVE  \E n \in Nat : \E L \in [1..n -> Slots] : IsList(n, L)'
    BY DEF ListInv
  <1>1. /\ UNCHANGED <<shm_flowoplist, fo_next, raced, res, cur>> /\ raced = {}
        /\ shm_bitmap' = shm_bitmap \ {res[t]}
        /\ pc[t] = "free" /\ pc'[t] = "next" /\ \A u \in Threads \ {t} : pc'[u] = pc[u]
    BY DEF Free, listVars, Shape
  <1>2. PICK n \in Nat : \E L \in [1..n -> Slots] : IsList(n, L)
    BY <1>1 DEF ListInv
  <1>3. PICK L \in [1..n -> Slots] : IsList(n, L)
    BY <1>2
  <1>4. \A i \in 1..n : L[i] # res[t] /\ L[i] \in shm_bitmap'
    BY <1>1, <1>3 DEF IsList
  <1>5. \A e \in shm_bitmap' : (\E a \in 1..n : e = L[a])
                                 \/ \E u \in Threads : pc'[u] = "free" /\ e = res'[u]
    <2> TAKE e \in shm_bitmap'
    <2>1. CASE \E u \in Threads : pc[u] = "free" /\ e = res[u]
      <3>1. PICK u \in Threads : pc[u] = "free" /\ e = res[u]
        BY <2>1
      <3>2. u # t
        BY <1>1, <3>1
      <3> QED
        BY <1>1, <3>1, <3>2
    <2> QED
      BY <1>1, <1>3, <2>1 DEF IsList
  <1>6. /\ \A u \in Threads : pc'[u] = "free" => pc[u] = "free" /\ res'[u] = res[u]
        /\ \A u \in Threads : pc'[u] = "seek" =>
             pc[u] = "seek" /\ res'[u] = res[u] /\ cur'[u] = cur[u]
        /\ \A u \in Threads : pc'[u] = "unlink" =>
             pc[u] = "unlink" /\ res'[u] = res[u] /\ cur'[u] = cur[u]
    BY <1>1
  <1>7. IsList(n, L)'
    BY <1>1, <1>3, <1>4, <1>5, <1>6 DEF IsList
  <1> QED
    BY <1>7

\* Every step keeps the list.
LEMMA ListStep ==
  ASSUME PoolOK, Shape, SlotInv, SlotInv', ListInv, [Next]_vars
  PROVE  ListInv'
  <1> DEFINE Frame == /\ raced \subseteq raced' /\ UNCHANGED <<shm_bitmap, shm_flowoplist, fo_next>>
                      /\ \A u \in Threads : pc'[u] \in UnlockedPcs =>
                           pc'[u] = pc[u] /\ cur'[u] = cur[u] /\ res'[u] = res[u]
                      /\ \A u \in Threads : pc[u] = "free" => pc'[u] = "free"
  <1>1. Frame => ListInv'
    BY ListFrame
  <1>2. ASSUME NEW t \in Threads, TakeFindLock(t) \/ CreateLock(t) \/ Block(t) \/ Wakeup(t)
                                   \/ flowop_find_barrier(t) \/ FindLock(t) \/ Kill(t)
        PROVE  Frame
    BY <1>2 DEF TakeFindLock, CreateLock, Block, Wakeup, flowop_find_barrier, FindLock, Kill, Shape, UnlockedPcs,
                poolVars, listVars, Calls
  <1>3. ASSUME NEW t \in Threads, DefineFails(t) PROVE Frame
    BY <1>3 DEF DefineFails, GoOn, Shape, UnlockedPcs, poolVars, listVars
  <1>4. ASSUME NEW t \in Threads, Composite(t) PROVE Frame
    BY <1>4 DEF Composite, Shape, UnlockedPcs, poolVars, listVars
  <1>5. ASSUME NEW t \in Threads, Walk(t) \/ Found(t) \/ CopyRead(t) \/ CopyStore(t) \/ CopyFollow(t) PROVE Frame
    <2>1. CASE Walk(t)
      BY <2>1 DEF Walk, Shape, UnlockedPcs, poolVars, listVars
    <2>2. CASE Found(t)
      BY <2>2 DEF Found, Shape, UnlockedPcs, poolVars, listVars
    <2>3. CASE CopyRead(t) \/ CopyStore(t) \/ CopyFollow(t)
      BY <2>3 DEF CopyRead, CopyStore, CopyFollow, Shape, UnlockedPcs, poolVars, listVars
    <2> QED
      BY <1>5, <2>1, <2>2, <2>3
  <1>6. ASSUME NEW t \in Threads, Broadcast(t) PROVE Frame
    BY <1>6 DEF Broadcast, Shape, UnlockedPcs, poolVars, listVars
  <1>7. ASSUME NEW t \in Threads, WakeupDone(t) \/ Leave(t) \/ Destruct(t) \/ DeletedAll(t)
                                    \/ NextInner(t)
        PROVE  Frame
    <2>1. CASE WakeupDone(t) \/ Leave(t) \/ DeletedAll(t)
      BY <2>1 DEF WakeupDone, Leave, DeletedAll, Shape, UnlockedPcs, poolVars, listVars
    <2>2. CASE Destruct(t)
      BY <2>2 DEF Destruct, Shape, UnlockedPcs, poolVars, listVars
    <2>3. CASE NextInner(t)
      BY <2>3 DEF NextInner, Shape, UnlockedPcs, poolVars
    <2> QED
      BY <1>7, <2>1, <2>2, <2>3
  <1>8. AllStarted \/ Abort \/ UNCHANGED vars => Frame
    BY DEF AllStarted, Abort, vars, UnlockedPcs, poolVars, listVars
  <1>9. NextRun => Frame
    BY DEF NextRun, UnlockedPcs, poolVars, listVars
  <1> HIDE DEF Frame
  <1>10. ASSUME NEW t \in Threads, Step(t) \/ Kill(t) PROVE ListInv'
    BY <1>1, <1>2, <1>3, <1>4, <1>5, <1>6, <1>7, <1>10, ListDefine, ListUnlink, ListDelete, ListSeek,
       ListFree DEF Step, Flow
  <1> QED
    BY <1>1, <1>8, <1>9, <1>10 DEF Next

\* At the start the list is that of the FLOW_MASTERs.
LEMMA ListInit ==
  ASSUME Init
  PROVE  ListInv
  <1> DEFINE m == Len(Masters)
  <1>1. m \in 0..(NSlots - 1) /\ NSlots \in Nat \ {0}
    BY RoomForMasters, ProgramAssumption
  <1>2. /\ shm_bitmap = 1..m /\ shm_flowoplist = (IF m = 0 THEN NULL ELSE m)
        /\ fo_next = [s \in Slots |-> IF s \in 2..m THEN s - 1 ELSE NULL]
        /\ \A t \in Threads : pc[t] = "start"
    BY DEF Init
  <1> HIDE DEF m
  <1> DEFINE L == [i \in 1..m |-> i]
  <1>3. L \in [1..m -> Slots] /\ m \in Nat
    BY <1>1 DEF Slots
  <1>4. \A i \in 1..m : fo_next[i] = IF i = 1 THEN NULL ELSE i - 1
    BY <1>1, <1>2 DEF Slots
  <1>5. \A i \in 1..m : L[i] = i
    OBVIOUS
  <1> HIDE DEF L
  <1>6. \A i \in 1..m : fo_next[L[i]] = IF i = 1 THEN NULL ELSE L[i - 1]
    <2> TAKE i \in 1..m
    <2>1. i # 1 => i - 1 \in 1..m
      BY <1>1
    <2> QED
      BY <1>4, <1>5, <2>1
  <1>7. shm_flowoplist = IF m = 0 THEN NULL ELSE L[m]
    <2>1. m # 0 => m \in 1..m
      BY <1>1
    <2> QED
      BY <1>2, <1>5, <2>1
  <1>8. IsList(m, L)
    BY <1>2, <1>5, <1>6, <1>7 DEF IsList
  <1> QED
    BY <1>3, <1>8 DEF ListInv

-----------------------------------------------------------------------------
(* The nodes of a list.                                                    *)

\* A function that is the nodes of a list, in their order.
Follows(c, head, next) ==
  /\ c[0] = head
  /\ \A n \in 1..NSlots : c[n] = IF c[n - 1] = NULL THEN NULL ELSE next[c[n - 1]]

\* Chain() follows the links, wherever they lead.
LEMMA ChainSteps ==
  ASSUME NEW head, NEW next
  PROVE  Follows(Chain(head, next), head, next)
  <1> DEFINE After(s) == IF s = NULL THEN NULL ELSE next[s]
             Is(n, g) == /\ g = [k \in 0..n |-> g[k]]
                         /\ g[0] = head
                         /\ \A k \in 1..n : g[k] = After(g[k - 1])
             Bad == {n \in 0..NSlots : ~ \E g : Is(n, g)}
  <1>0. NSlots \in Nat
    BY ProgramAssumption
  <1> HIDE DEF After
  <1>2. Bad = {}
    <2> SUFFICES ASSUME Bad # {} PROVE FALSE
      OBVIOUS
    <2>1. Bad \in SUBSET Nat
      BY <1>0
    <2>2. PICK n \in Bad : \A m \in Bad : n <= m
      BY <2>1, Least
    <2>3. n \in 0..NSlots /\ ~ \E g : Is(n, g)
      OBVIOUS
    <2>4. CASE n = 0
      <3>1. Is(0, [k \in 0..0 |-> head])
        OBVIOUS
      <3> QED
        BY <2>3, <2>4, <3>1
    <2>5. CASE n # 0
      <3>1. n - 1 \in 0..NSlots /\ ~(n <= n - 1)
        BY <1>0, <2>3, <2>5
      <3>2. PICK g : Is(n - 1, g)
        BY <2>2, <3>1
      <3> DEFINE h == [k \in 0..n |-> IF k = n THEN After(g[n - 1]) ELSE g[k]]
      <3>3. /\ n \in Nat /\ n - 1 \in 0..(n - 1) /\ 0 \in 0..(n - 1)
            /\ \A k \in 0..n : k # n => k \in 0..(n - 1)
            /\ \A k \in 1..n : k - 1 \in 0..(n - 1) /\ k - 1 \in 0..n /\ k - 1 # n
            /\ \A k \in 1..n : k # n => k \in 1..(n - 1)
        BY <1>0, <2>3, <2>5
      <3>5. h = [k \in 0..n |-> h[k]]
        OBVIOUS
      <3>6. h[0] = head /\ h[n] = After(g[n - 1]) /\ \A k \in 0..n : k # n => h[k] = g[k]
        BY <2>5, <3>2, <3>3
      <3> HIDE DEF h
      <3>7. \A k \in 1..n : h[k] = After(h[k - 1])
        <4> TAKE k \in 1..n
        <4>1. h[k - 1] = g[k - 1]
          BY <3>3, <3>6
        <4>2. CASE k = n
          BY <3>6, <4>1, <4>2
        <4>3. CASE k # n
          <5>1. k \in 1..(n - 1) /\ k \in 0..n
            BY <3>3, <4>3
          <5> QED
            BY <3>2, <3>6, <4>1, <4>3, <5>1
        <4> QED
          BY <4>2, <4>3
      <3>8. Is(n, h)
        BY <3>5, <3>6, <3>7
      <3> HIDE DEF Is
      <3> QED
        BY <2>3, <3>8
    <2> QED
      BY <2>4, <2>5
  <1>3. NSlots \in 0..NSlots
    BY <1>0
  <1>4. PICK c : Is(NSlots, c)
    BY <1>2, <1>3
  <1> DEFINE Rec(f) == f = [n \in 0..NSlots |-> IF n = 0 THEN head ELSE After(f[n - 1])]
  <1>5. Rec(c)
    <2>1. \A n \in 0..NSlots : n # 0 => n \in 1..NSlots
      BY <1>0
    <2>2. \A n \in 0..NSlots : c[n] = IF n = 0 THEN head ELSE After(c[n - 1])
      BY <1>4, <2>1
    <2>3. c = [n \in 0..NSlots |-> c[n]]
      BY <1>4
    <2>4. [n \in 0..NSlots |-> c[n]] = [n \in 0..NSlots |-> IF n = 0 THEN head ELSE After(c[n - 1])]
      BY <2>2
    <2> QED
      BY <2>3, <2>4
  <1>6. ASSUME NEW f, Rec(f) PROVE f = c
    <2> DEFINE B == {n \in 0..NSlots : f[n] # c[n]}
    <2>1. /\ \A n \in 0..NSlots : f[n] = IF n = 0 THEN head ELSE After(f[n - 1])
          /\ \A n \in 0..NSlots : c[n] = IF n = 0 THEN head ELSE After(c[n - 1])
      BY <1>5, <1>6
    <2>2. ASSUME B # {} PROVE FALSE
      <3>1. B \in SUBSET Nat
        BY <1>0
      <3>2. PICK n \in B : \A m \in B : n <= m
        BY <2>2, <3>1, Least
      <3>3. n \in 0..NSlots /\ f[n] # c[n]
        OBVIOUS
      <3>4. n # 0
        BY <2>1, <3>3
      <3>5. n - 1 \in 0..NSlots /\ ~(n <= n - 1)
        BY <1>0, <3>3, <3>4
      <3>6. f[n - 1] = c[n - 1]
        BY <3>2, <3>5
      <3> QED
        BY <2>1, <3>3, <3>4, <3>6
    <2>3. f = [n \in 0..NSlots |-> f[n]] /\ c = [n \in 0..NSlots |-> c[n]]
      BY <1>4, <1>6
    <2> QED
      BY <2>2, <2>3
  <1>7. Chain(head, next) = CHOOSE f : Rec(f)
    BY DEF Chain, After
  <1>8. Chain(head, next) = c
    <2>1. Rec(CHOOSE f : Rec(f))
      BY <1>5
    <2> QED
      BY <1>6, <1>7, <2>1
  <1> QED
    BY <1>4, <1>8 DEF After, Follows

\* As many different slots as there are, at most.
LEMMA FewSlots ==
  ASSUME NEW n \in Nat, NEW L \in [1..n -> Slots],
         \A i \in 1..n : \A j \in 1..n : L[i] = L[j] => i = j
  PROVE  n <= NSlots
  <1>1. NSlots \in Nat \ {0}
    BY ProgramAssumption
  <1>2. IsFiniteSet(Slots) /\ Cardinality(Slots) = NSlots
    BY <1>1, FS_Interval DEF Slots
  <1>3. IsFiniteSet(1..n) /\ Cardinality(1..n) = n
    BY FS_Interval
  <1> SUFFICES ASSUME ~(n <= NSlots) PROVE FALSE
    OBVIOUS
  <1>4. Cardinality(Slots) < Cardinality(1..n)
    BY <1>1, <1>2, <1>3
  <1>5. \E i, j \in 1..n : i # j /\ L[i] = L[j]
    BY <1>2, <1>3, <1>4, FS_PigeonHole
  <1> QED
    BY <1>5

\* The nodes of the global list, from its head on.
LEMMA ListChain ==
  ASSUME NEW n \in Nat, NEW L \in [1..n -> Slots], IsList(n, L)
  PROVE  /\ n <= NSlots
         /\ \A k \in 0..NSlots :
              Chain(shm_flowoplist, fo_next)[k] = IF k < n THEN L[n - k] ELSE NULL
  <1> DEFINE c == Chain(shm_flowoplist, fo_next)
             B == {k \in 0..NSlots : c[k] # IF k < n THEN L[n - k] ELSE NULL}
  <1>1. NSlots \in Nat \ {0} /\ NULL \notin Slots
    BY ProgramAssumption
  <1>2. n <= NSlots
    BY FewSlots DEF IsList
  <1>3. /\ shm_flowoplist = IF n = 0 THEN NULL ELSE L[n]
        /\ \A i \in 1..n : fo_next[L[i]] = IF i = 1 THEN NULL ELSE L[i - 1]
    BY DEF IsList
  <1>6. /\ c[0] = shm_flowoplist
        /\ \A k \in 1..NSlots : c[k] = IF c[k - 1] = NULL THEN NULL ELSE fo_next[c[k - 1]]
    <2>1. Follows(c, shm_flowoplist, fo_next)
      BY ChainSteps
    <2> HIDE DEF c
    <2> QED
      BY <2>1 DEF Follows
  <1> HIDE DEF c
  <1>7. ASSUME B # {} PROVE FALSE
    <2>1. B \in SUBSET Nat
      BY <1>1
    <2>2. PICK k \in B : \A m \in B : k <= m
      BY <1>7, <2>1, Least
    <2>3. k \in 0..NSlots /\ c[k] # IF k < n THEN L[n - k] ELSE NULL
      OBVIOUS
    <2>4. CASE k = 0
      <3>1. n # 0 => 0 < n /\ n - 0 = n
        OBVIOUS
      <3> QED
        BY <1>3, <1>6, <2>3, <2>4, <3>1
    <2>5. CASE k # 0
      <3>1. k - 1 \in 0..NSlots /\ k \in 1..NSlots /\ ~(k <= k - 1)
        BY <1>1, <2>3, <2>5
      <3>2. c[k - 1] = IF k - 1 < n THEN L[n - (k - 1)] ELSE NULL
        BY <2>2, <3>1
      <3>3. CASE k - 1 < n
        <4>1. n - (k - 1) \in 1..n /\ (n - (k - 1)) - 1 = n - k /\ (n - (k - 1) = 1 <=> ~(k < n))
          BY <3>1, <3>3
        <4>2. c[k - 1] = L[n - (k - 1)] /\ c[k - 1] \in Slots
          BY <3>2, <3>3, <4>1
        <4>3. c[k] = fo_next[L[n - (k - 1)]]
          BY <1>1, <1>6, <3>1, <4>2
        <4> QED
          BY <1>3, <2>3, <4>1, <4>3
      <3>4. CASE ~(k - 1 < n)
        <4>1. ~(k < n)
          BY <3>1, <3>4
        <4> QED
          BY <1>6, <2>3, <3>1, <3>2, <3>4, <4>1
      <3> QED
        BY <3>3, <3>4
    <2> QED
      BY <2>4, <2>5
  <1> QED
    BY <1>2, <1>7 DEF c

\* The state of the flowops, the pool and the list, at all times.
THEOREM ListInvariant == Spec => [](PoolOK /\ Shape /\ SlotInv /\ ListInv)
  <1>1. Init => PoolOK /\ Shape /\ SlotInv /\ ListInv
    BY SlotInit, ListInit
  <1>2. PoolOK /\ Shape /\ SlotInv /\ ListInv /\ [Next]_vars
          => (PoolOK /\ Shape /\ SlotInv /\ ListInv)'
    BY ShapeStep, SlotStep, ListStep
  <1> QED
    BY <1>1, <1>2, PTL DEF Spec

\* The global list ends within as many nodes as there are slots and holds
\* exactly the allocated flowops that no thread is about to free, for any
\* programs, threads and slots, as long as no unlocked deletion has met another
\* update of it.
THEOREM FlowopListExact == Spec => []ListExact
  <1>1. SlotInv /\ ListInv => ListExact
    <2> SUFFICES ASSUME SlotInv, ListInv, raced = {}
                 PROVE  /\ Chain(shm_flowoplist, fo_next)[NSlots] = NULL
                        /\ OnChain(shm_flowoplist, fo_next) \cup Leaving = shm_bitmap
                        /\ OnChain(shm_flowoplist, fo_next) \cap Leaving = {}
      BY DEF ListExact
    <2>1. NSlots \in Nat \ {0} /\ NULL \notin Slots
      BY ProgramAssumption
    <2>2. PICK n \in Nat : \E L \in [1..n -> Slots] : IsList(n, L)
      BY DEF ListInv
    <2>3. PICK L \in [1..n -> Slots] : IsList(n, L)
      BY <2>2
    <2> DEFINE c == Chain(shm_flowoplist, fo_next)
               On == {L[i] : i \in 1..n}
    <2>4. n <= NSlots /\ \A k \in 0..NSlots : c[k] = IF k < n THEN L[n - k] ELSE NULL
      BY <2>3, ListChain
    <2>5. OnChain(shm_flowoplist, fo_next) = {c[k] : k \in 0..NSlots} \ {NULL}
      BY DEF OnChain
    <2> HIDE DEF c
    <2>6. c[NSlots] = NULL
      BY <2>1, <2>4
    <2>7. {c[k] : k \in 0..NSlots} \ {NULL} \subseteq On
      <3> SUFFICES ASSUME NEW k \in 0..NSlots, c[k] # NULL PROVE \E i \in 1..n : c[k] = L[i]
        OBVIOUS
      <3>1. k < n /\ c[k] = L[n - k]
        BY <2>4
      <3>2. n - k \in 1..n
        BY <2>1, <3>1
      <3> QED
        BY <3>1, <3>2
    <2>8. On \subseteq {c[k] : k \in 0..NSlots} \ {NULL}
      <3> SUFFICES ASSUME NEW i \in 1..n PROVE L[i] # NULL /\ \E k \in 0..NSlots : L[i] = c[k]
        OBVIOUS
      <3>1. n - i \in 0..NSlots /\ n - i < n /\ n - (n - i) = i
        BY <2>1, <2>4
      <3> QED
        BY <2>1, <2>4, <3>1
    <2>9. On \subseteq shm_bitmap /\ Leaving \cap On = {}
      BY <2>3 DEF IsList, Leaving
    <2>10. shm_bitmap \subseteq On \cup Leaving
      BY <2>3 DEF IsList, Leaving
    <2>11. Leaving \subseteq shm_bitmap
      BY LeavingOwn DEF Leaving, UnlockedPcs
    <2> HIDE DEF On
    <2> QED
      BY <2>5, <2>6, <2>7, <2>8, <2>9, <2>10, <2>11 DEF c
  <1> QED
    BY <1>1, ListInvariant, PTL

-----------------------------------------------------------------------------
(* The target lists.                                                       *)

CopyPcs == {"copy", "store", "follow"}

\* The phases of a run: a thread that creates flowops after the first look-up
\* is late; look-ups come after the barrier, and the composites are taken apart
\* after the abort.
PhaseInv ==
  /\ \A t \in Threads : pc[t] \in {"held", "create"} => t \in find_lock /\ (looked => t \in late)
  /\ \A t \in Threads : pc[t] \in {"find", "walk"} \cup CopyPcs => looked
  /\ \A t \in Threads : pc[t] \in {"create", "walk"} => flowop_lock = t
  /\ \A t \in Threads : pc[t] \in {"destruct"} \cup DeletePcs => f_abort

\* A flowop on the lists of a thread.
Owns(t, w) ==
  \E i \in 1..Len(tf_thrd_fops[t]) :
    w = tf_thrd_fops[t][i] \/ \E j \in 1..Len(Inner(t, i)) : w = Inner(t, i)[j]

\* A wakeup of a thread that has looked its targets up, or is copying them.
HasTargets(t, w) == pc[t] # "exited" /\ Owns(t, w) /\ fo_targets[w] # NULL

\* Positions are numbers that grow from the end of the list to its head.  The
\* list is followed downwards, and the lists of results and targets upwards: NULL
\* ends the first below all positions, and is itself above them all.
Down(pos, s) == IF s = NULL THEN 0 ELSE pos[s]

\* How far a thread has got with copying the results for w.
Frontier(t, w) == IF pc[t] \in CopyPcs /\ At(t) = w THEN cur[t] ELSE NULL

\* The links of the global list go down and leave out nothing.
ListBelow(pos) ==
  /\ \A x \in shm_bitmap : \A y \in shm_bitmap : pos[x] = pos[y] => x = y
  /\ shm_flowoplist \in shm_bitmap \cup {NULL}
  /\ \A x \in shm_bitmap : pos[x] < pos[NULL] /\ pos[x] <= Down(pos, shm_flowoplist)
  /\ \A x \in shm_bitmap :
       /\ fo_next[x] \in shm_bitmap \cup {NULL}
       /\ Down(pos, fo_next[x]) < pos[x]
       /\ \A y \in shm_bitmap : ~(Down(pos, fo_next[x]) < pos[y] /\ pos[y] < pos[x])

\* A link from x to y that a look-up has made goes up to the same name, and
\* leaves out nothing but late flowops (N) above the last one.
GoodLink(pos, N, R, x, y) ==
  /\ y \in R \cup {NULL}
  /\ y # NULL => flowop[y].name = flowop[x].name
  /\ pos[x] < pos[y]
  /\ \A v \in shm_bitmap :
       flowop[v].name = flowop[x].name /\ pos[x] < pos[v] /\ pos[v] < pos[y] => y = NULL /\ v \in N

\* A look-up: nothing between it and its results has its name.
Lookup(t, pos, R) ==
  /\ cur[t] \in shm_bitmap \cup {NULL}
  /\ res[t] \in R \cup {NULL}
  /\ res[t] # NULL => flowop[res[t]].name = flowop[At(t)].target
  /\ Down(pos, cur[t]) < pos[res[t]]
  /\ \A v \in shm_bitmap : flowop[v].name = flowop[At(t)].target =>
       ~(Down(pos, cur[t]) < pos[v] /\ pos[v] < pos[res[t]])

\* A thread that has read the link of a result, which it stores (T).
Copying(t, pos, N, R, T) ==
  /\ cur[t] \in R /\ GoodLink(pos, N, R, cur[t], res[t])
  /\ pc[t] = "follow" => cur[t] \in T

\* The target list of w, copied up to f: it holds all that is not late.
Targets(w, f, pos, N, R, T, q) ==
  LET a == fo_targets[w]
      ofName(x) == flowop[x].name = flowop[w].target
  IN  /\ a \in q \/ f = a
      /\ f # NULL => f \in R /\ ofName(f)
      /\ \A x \in q : x \in T /\ ofName(x)
      /\ \A v \in shm_bitmap \ N : ofName(v) => pos[a] <= pos[v] /\ (pos[v] < pos[f] => v \in q)

\* R and T are the flowops whose links of results and of targets have been set in
\* this run, Q what has been copied for each wakeup.
Ghost(pos, R, T, N, Q) ==
  /\ pos \in [Slots \cup {NULL} -> Nat \ {0}]
  /\ R \subseteq shm_bitmap /\ T \subseteq R /\ N \subseteq shm_bitmap
  /\ ListBelow(pos)
  /\ \A x \in N : /\ flowop[x].thread \in late
                  /\ \A y \in shm_bitmap \ N : pos[y] < pos[x]
  /\ \A x \in R : GoodLink(pos, N, R, x, fo_resultnext[x])
  /\ \A x \in T : GoodLink(pos, N, R, x, fo_targetnext[x])
  /\ \A t \in Threads : pc[t] = "walk" => Lookup(t, pos, R)
  /\ \A t \in Threads : pc[t] \in {"store", "follow"} => Copying(t, pos, N, R, T)
  /\ \A t \in Threads : \A w \in Slots :
       HasTargets(t, w) => Targets(w, Frontier(t, w), pos, N, R, T, Q[w])

HasGhost == \E pos, R, T, N, Q : Q \in [Slots -> SUBSET Slots] /\ Ghost(pos, R, T, N, Q)

\* From the first look-up of a run to its abort the links are as described.
TargetInv ==
  raced = {} /\ ~f_abort =>
    /\ looked => HasGhost
    /\ ~looked => \A t \in Threads : \A w \in Slots : ~HasTargets(t, w)
    /\ \A t \in Threads : pc[t] \in CopyPcs \cup {"wake"} => fo_targets[At(t)] # NULL

\* The phases are kept.
LEMMA PhaseStep ==
  ASSUME Shape, PhaseInv, [Next]_vars
  PROVE  PhaseInv'
  <1> USE DEF Shape, PhaseInv, lockVars, runVars, barrierVars, CopyPcs, DeletePcs
  <1>0. NULL \notin Threads
    BY ProgramAssumption
  <1>1. ASSUME NEW t \in Threads, TakeFindLock(t) PROVE PhaseInv'
    BY <1>1 DEF TakeFindLock
  <1>2. ASSUME NEW t \in Threads, flowop_find_barrier(t) PROVE PhaseInv'
    BY <1>2 DEF flowop_find_barrier
  <1>3. ASSUME NEW t \in Threads, CreateLock(t) \/ Block(t) \/ Wakeup(t) \/ FindLock(t) \/ Kill(t),
               UNCHANGED barrierVars
        PROVE  PhaseInv'
    <2>1. CASE CreateLock(t)
      BY <1>0, <1>3, <2>1 DEF CreateLock
    <2>2. CASE Block(t) \/ Kill(t)
      BY <1>3, <2>2 DEF Block, Kill
    <2>3. CASE Wakeup(t)
      BY <1>3, <2>3 DEF Wakeup, Calls
    <2>4. CASE FindLock(t)
      BY <1>0, <1>3, <2>4 DEF FindLock
    <2> QED
      BY <1>3, <2>1, <2>2, <2>3, <2>4
  <1>4. ASSUME NEW t \in Threads, Define(t) \/ DefineFails(t), UNCHANGED barrierVars
        PROVE  PhaseInv'
    <2>1. CASE Define(t)
      <3>1. pc[t] = "create" /\ GoOn(t, TRUE) /\ f_abort' = f_abort
        BY <2>1 DEF Define
      <3> QED
        BY <1>4, <3>1 DEF GoOn
    <2>2. CASE DefineFails(t)
      <3>1. /\ pc[t] = "create"
            /\ \/ GoOn(t, FALSE) /\ f_abort' = f_abort
               \/ /\ pc' = [pc EXCEPT ![t] = "exited"] /\ flowop_lock' = NULL
                  /\ find_lock' = find_lock /\ f_abort' = TRUE
        BY <2>2 DEF DefineFails
      <3> QED
        BY <1>4, <3>1 DEF GoOn
    <2> QED
      BY <1>4, <2>1, <2>2
  <1>5. ASSUME NEW t \in Threads, Composite(t) \/ Walk(t) \/ CopyRead(t) \/ CopyStore(t) \/ CopyFollow(t),
               UNCHANGED barrierVars
        PROVE  PhaseInv'
    <2>1. CASE Composite(t)
      BY <1>5, <2>1 DEF Composite
    <2>2. CASE Walk(t)
      BY <1>5, <2>2 DEF Walk
    <2>3. CASE CopyRead(t) \/ CopyStore(t) \/ CopyFollow(t)
      BY <1>5, <2>3 DEF CopyRead, CopyStore, CopyFollow
    <2> QED
      BY <1>5, <2>1, <2>2, <2>3
  <1>6. ASSUME NEW t \in Threads, Found(t), UNCHANGED barrierVars PROVE PhaseInv'
    BY <1>6 DEF Found
  <1>7. ASSUME NEW t \in Threads, Broadcast(t), UNCHANGED barrierVars PROVE PhaseInv'
    BY <1>7 DEF Broadcast
  <1>8. ASSUME NEW t \in Threads, UNCHANGED barrierVars,
               WakeupDone(t) \/ Leave(t) \/ Destruct(t) \/ DeletedAll(t) \/ NextInner(t) \/ Free(t)
        PROVE  PhaseInv'
    BY <1>8 DEF WakeupDone, Leave, Destruct, DeletedAll, NextInner, Free
  <1>9. ASSUME NEW t \in Threads, Delete(t) \/ Seek(t) \/ Unlink(t), UNCHANGED barrierVars
        PROVE  PhaseInv'
    <2>1. CASE Delete(t)
      BY <1>9, <2>1 DEF Delete
    <2>2. CASE Seek(t)
      BY <1>9, <2>2 DEF Seek
    <2>3. CASE Unlink(t)
      BY <1>9, <2>3 DEF Unlink
    <2> QED
      BY <1>9, <2>1, <2>2, <2>3
  <1>10. CASE (AllStarted \/ Abort) /\ UNCHANGED barrierVars
    BY <1>10 DEF AllStarted, Abort
  <1>11. CASE NextRun
    BY <1>11 DEF NextRun
  <1>12. CASE UNCHANGED vars
    BY <1>12 DEF vars
  <1> QED
    BY <1>1, <1>2, <1>3, <1>4, <1>5, <1>6, <1>7, <1>8, <1>9, <1>10, <1>11, <1>12
       DEF Next, Step, Flow

\* They begin before any look-up.
LEMMA PhaseInit ==
  ASSUME Init
  PROVE  PhaseInv
  BY DEF Init, PhaseInv, CopyPcs, DeletePcs

\* The flowops of a thread are in slots and say whose they are, the flowop that
\* it is at among them.
LEMMA OwnsItsOwn ==
  ASSUME SlotInv, raced = {}, NEW t \in Threads, pc[t] # "exited"
  PROVE  /\ \A w : Owns(t, w) => w \in shm_bitmap /\ flowop[w].thread = t
         /\ pc[t] \in LoopPcs => Owns(t, At(t))
  <1>1. PosOK(t) /\ Owned(t)
    BY DEF SlotInv, TInv
  <1>2. \A w : Owns(t, w) => w \in shm_bitmap /\ flowop[w].thread = t
    BY <1>1 DEF Owns, Owned, Mine
  <1>3. ASSUME pc[t] \in LoopPcs PROVE Owns(t, At(t))
    <2>1. ip[t] \in 1..Len(tf_thrd_fops[t]) /\ jp[t] \in 0..Len(Inner(t, ip[t]))
      BY <1>1, <1>3 DEF PosOK
    <2>2. PrivateOK
      BY DEF SlotInv
    <2>3. CASE jp[t] = 0
      <3>1. At(t) = tf_thrd_fops[t][ip[t]]
        BY <2>3 DEF At
      <3> QED
        BY <2>1, <3>1 DEF Owns
    <2>4. CASE jp[t] # 0
      <3>1. At(t) = Inner(t, ip[t])[jp[t]]
        BY <2>4 DEF At, Inner
      <3>2. Len(Inner(t, ip[t])) \in Nat
        BY <2>1, <2>2 DEF PrivateOK, Inner
      <3>3. jp[t] \in 1..Len(Inner(t, ip[t]))
        BY <2>1, <2>4, <3>2
      <3> QED
        BY <2>1, <3>1, <3>3 DEF Owns
    <2> QED
      BY <2>3, <2>4
  <1> QED
    BY <1>2, <1>3

\* A step that changes no flowop and no list keeps all but the links, the look-up
\* and the target list that it works on.
LEMMA GhostStep ==
  ASSUME NEW pos, NEW R, NEW T, NEW N, NEW Q, Ghost(pos, R, T, N, Q),
         NEW S, NEW U, NEW P, R \subseteq S, S \subseteq shm_bitmap, T \subseteq U, U \subseteq S,
         UNCHANGED <<shm_bitmap, shm_flowoplist, fo_next, flowop>>, late \subseteq late',
         \A x \in S : \/ x \in R /\ fo_resultnext'[x] = fo_resultnext[x]
                      \/ GoodLink(pos, N, S, x, fo_resultnext'[x]),
         \A x \in U : \/ x \in T /\ fo_targetnext'[x] = fo_targetnext[x]
                      \/ GoodLink(pos, N, S, x, fo_targetnext'[x]),
         \A u \in Threads : pc'[u] = "walk" =>
           \/ pc[u] = "walk" /\ cur'[u] = cur[u] /\ res'[u] = res[u] /\ At(u)' = At(u)
           \/ Lookup(u, pos, S)',
         \A u \in Threads : pc'[u] \in {"store", "follow"} =>
           \/ pc'[u] = pc[u] /\ cur'[u] = cur[u] /\ res'[u] = res[u]
           \/ /\ cur'[u] \in S /\ GoodLink(pos, N, S, cur'[u], res'[u])
              /\ pc'[u] = "follow" => cur'[u] \in U,
         \A u \in Threads : \A w \in Slots : HasTargets(u, w)' =>
           \/ /\ HasTargets(u, w) /\ fo_targets'[w] = fo_targets[w] /\ P[w] = Q[w]
              /\ Frontier(u, w)' = Frontier(u, w)
           \/ \E f : Frontier(u, w)' = f /\ Targets(w, f, pos, N, S, U, P[w])'
  PROVE  Ghost(pos, S, U, N, P)'
  <1>1. \A x, y : GoodLink(pos, N, R, x, y) => GoodLink(pos, N, S, x, y)
    BY DEF GoodLink
  <1>2. \A x, y : GoodLink(pos, N, S, x, y) => GoodLink(pos, N, S, x, y)'
    BY DEF GoodLink
  <1>3. ListBelow(pos)'
    BY DEF Ghost, ListBelow, Down
  <1>4. \A x \in N : flowop'[x].thread \in late' /\ \A y \in shm_bitmap' \ N : pos[y] < pos[x]
    BY DEF Ghost
  <1>5. ASSUME NEW x \in S PROVE GoodLink(pos, N, S, x, fo_resultnext[x])'
    <2>1. GoodLink(pos, N, S, x, fo_resultnext'[x])
      BY <1>1 DEF Ghost
    <2> QED
      BY <2>1 DEF GoodLink
  <1>6. ASSUME NEW x \in U PROVE GoodLink(pos, N, S, x, fo_targetnext[x])'
    <2>1. GoodLink(pos, N, S, x, fo_targetnext'[x])
      BY <1>1 DEF Ghost
    <2> QED
      BY <2>1 DEF GoodLink
  <1>7. ASSUME NEW u \in Threads, pc'[u] = "walk" PROVE Lookup(u, pos, S)'
    <2> SUFFICES ASSUME pc[u] = "walk", cur'[u] = cur[u], res'[u] = res[u], At(u)' = At(u)
                 PROVE  Lookup(u, pos, S)'
      BY <1>7
    <2>1. Lookup(u, pos, R)
      BY DEF Ghost
    <2> QED
      BY <2>1 DEF Lookup, Down
  <1>8. ASSUME NEW u \in Threads, pc'[u] \in {"store", "follow"} PROVE Copying(u, pos, N, S, U)'
    <2>1. /\ cur'[u] \in S /\ GoodLink(pos, N, S, cur'[u], res'[u])
          /\ pc'[u] = "follow" => cur'[u] \in U
      BY <1>1, <1>8 DEF Ghost, Copying
    <2> QED
      BY <2>1 DEF Copying, GoodLink
  <1>9. ASSUME NEW u \in Threads, NEW w \in Slots, HasTargets(u, w)'
        PROVE  Targets(w, Frontier(u, w), pos, N, S, U, P[w])'
    <2> SUFFICES ASSUME HasTargets(u, w), fo_targets'[w] = fo_targets[w], P[w] = Q[w],
                        Frontier(u, w)' = Frontier(u, w)
                 PROVE  Targets(w, Frontier(u, w), pos, N, S, U, P[w])'
      <3>1. ASSUME NEW f, Frontier(u, w)' = f, Targets(w, f, pos, N, S, U, P[w])'
            PROVE  Targets(w, Frontier(u, w), pos, N, S, U, P[w])'
        BY <3>1 DEF Targets
      <3> QED
        BY <1>9, <3>1
    <2>1. Targets(w, Frontier(u, w), pos, N, R, T, Q[w])
      BY DEF Ghost
    <2> QED
      BY <2>1 DEF Targets
  <1> QED
    BY <1>3, <1>4, <1>5, <1>6, <1>7, <1>8, <1>9 DEF Ghost

\* A step that keeps each target list, or makes it one up to f.
KeepsTargets(pos, R, T, N, Q, P) ==
  \A u \in Threads : \A w \in Slots : HasTargets(u, w)' =>
    \/ /\ HasTargets(u, w) /\ fo_targets'[w] = fo_targets[w] /\ P[w] = Q[w]
       /\ Frontier(u, w)' = Frontier(u, w)
    \/ \E f : Frontier(u, w)' = f /\ Targets(w, f, pos, N, R, T, P[w])'

\* A step that sets no links.
LEMMA GhostTargets ==
  ASSUME NEW pos, NEW R, NEW T, NEW N, NEW Q, Ghost(pos, R, T, N, Q), NEW P,
         UNCHANGED <<shm_bitmap, shm_flowoplist, fo_next, flowop, fo_resultnext, fo_targetnext>>,
         late \subseteq late',
         \A u \in Threads : pc'[u] = "walk" =>
           pc[u] = "walk" /\ cur'[u] = cur[u] /\ res'[u] = res[u] /\ At(u)' = At(u),
         \A u \in Threads : pc'[u] \in {"store", "follow"} =>
           pc'[u] = pc[u] /\ cur'[u] = cur[u] /\ res'[u] = res[u],
         KeepsTargets(pos, R, T, N, Q, P)
  PROVE  Ghost(pos, R, T, N, P)'
  <1>1. R \subseteq shm_bitmap /\ T \subseteq R
    BY DEF Ghost
  <1> QED
    BY <1>1, GhostStep DEF KeepsTargets

\* A step that changes no target list, no look-up and no copying, the first to
\* pass the barrier among them.
LEMMA QuietTargets ==
  ASSUME Shape, TargetInv, raced \subseteq raced', f_abort' = f_abort,
         UNCHANGED <<shm_bitmap, shm_flowoplist, fo_next, flowop, findVars, privateVars>>,
         looked' = looked \/ (looked' /\ HasGhost), late \subseteq late',
         \A u \in Threads : pc'[u] \in {"walk"} \cup CopyPcs =>
           pc'[u] = pc[u] /\ cur'[u] = cur[u] /\ res'[u] = res[u],
         \A u \in Threads : pc[u] \in CopyPcs => pc'[u] \in CopyPcs \/ cur[u] = NULL,
         \A u \in Threads : pc'[u] \in {"walk", "wake"} \cup CopyPcs => ip'[u] = ip[u] /\ jp'[u] = jp[u],
         \A u \in Threads : pc'[u] = "wake" => pc[u] \in {"copy", "wake"} \/ fo_targets[At(u)] # NULL,
         \A u \in Threads : pc[u] = "exited" => pc'[u] = "exited"
  PROVE  TargetInv'
  <1> SUFFICES ASSUME raced' = {}, ~f_abort'
               PROVE  /\ looked' => HasGhost'
                      /\ ~looked' => \A t \in Threads : \A w \in Slots : ~HasTargets(t, w)'
                      /\ \A t \in Threads : pc'[t] \in CopyPcs \cup {"wake"} => fo_targets'[At(t)'] # NULL
    BY DEF TargetInv
  <1>1. /\ raced = {} /\ ~f_abort
        /\ fo_targets' = fo_targets /\ fo_resultnext' = fo_resultnext /\ fo_targetnext' = fo_targetnext
    BY DEF findVars
  <1>2. \A u \in Threads : pc'[u] \in {"walk", "wake"} \cup CopyPcs => At(u)' = At(u)
    BY DEF At, privateVars
  <1>3. ASSUME NEW u \in Threads, NEW w, HasTargets(u, w)'
        PROVE  HasTargets(u, w) /\ fo_targets'[w] = fo_targets[w]
    <2>1. pc[u] # "exited"
      BY <1>3 DEF HasTargets
    <2>2. Owns(u, w)
      BY <1>3 DEF HasTargets, Owns, Inner, privateVars
    <2> QED
      BY <1>1, <1>3, <2>1, <2>2 DEF HasTargets
  <1>4. ASSUME NEW u \in Threads, NEW w PROVE Frontier(u, w)' = Frontier(u, w)
    <2>1. CASE pc'[u] \in CopyPcs
      BY <1>2, <2>1 DEF Frontier
    <2>2. CASE pc'[u] \notin CopyPcs
      BY <2>2 DEF Frontier
    <2> QED
      BY <2>1, <2>2
  <1>5. ASSUME looked' PROVE HasGhost'
    <2>1. PICK pos, R, T, N, Q : Q \in [Slots -> SUBSET Slots] /\ Ghost(pos, R, T, N, Q)
      BY <1>1, <1>5 DEF TargetInv, HasGhost
    <2>2. R \subseteq shm_bitmap /\ T \subseteq R
      BY <2>1 DEF Ghost
    <2>3. /\ \A x \in R : fo_resultnext'[x] = fo_resultnext[x]
          /\ \A x \in T : fo_targetnext'[x] = fo_targetnext[x]
      BY <1>1
    <2>4. \A u \in Threads : pc'[u] \in {"store", "follow"} =>
            pc'[u] = pc[u] /\ cur'[u] = cur[u] /\ res'[u] = res[u]
      BY DEF CopyPcs
    <2>5. Ghost(pos, R, T, N, Q)'
      BY <1>2, <1>3, <1>4, <2>1, <2>2, <2>3, <2>4, GhostStep
    <2> QED
      BY <2>1, <2>5 DEF HasGhost
  <1>6. ASSUME ~looked', NEW u \in Threads, NEW w \in Slots PROVE ~HasTargets(u, w)'
    BY <1>1, <1>3, <1>6 DEF TargetInv
  <1>7. ASSUME NEW u \in Threads, pc'[u] \in CopyPcs \cup {"wake"} PROVE fo_targets'[At(u)'] # NULL
    <2>1. At(u)' = At(u)
      BY <1>2, <1>7
    <2>2. fo_targets[At(u)] # NULL
      BY <1>1, <1>7 DEF TargetInv, CopyPcs
    <2> QED
      BY <1>1, <2>1, <2>2
  <1> QED
    BY <1>5, <1>6, <1>7

\* Before the first look-up the positions are those of the list.
LEMMA FreshGhost ==
  ASSUME ListInv, PhaseInv, raced = {}, ~f_abort, ~looked,
         \A t \in Threads : \A w \in Slots : ~HasTargets(t, w)
  PROVE  HasGhost
  <1>1. PICK n \in Nat : \E L \in [1..n -> Slots] : IsList(n, L)
    BY DEF ListInv
  <1>2. PICK L \in [1..n -> Slots] : IsList(n, L)
    BY <1>1
  <1>3. /\ \A i \in 1..n : \A j \in 1..n : L[i] = L[j] => i = j
        /\ shm_flowoplist = IF n = 0 THEN NULL ELSE L[n]
        /\ \A i \in 1..n : fo_next[L[i]] = IF i = 1 THEN NULL ELSE L[i - 1]
    BY <1>2 DEF IsList
  <1>4. \A x : x \in shm_bitmap <=> \E i \in 1..n : x = L[i]
    <2>1. \A u \in Threads : pc[u] # "free"
      BY DEF PhaseInv, DeletePcs
    <2> QED
      BY <1>2, <2>1 DEF IsList
  <1>5. NULL \notin Slots /\ \A i \in 1..n : L[i] \in Slots
    BY ProgramAssumption
  <1> DEFINE pos == [x \in Slots \cup {NULL} |->
                       IF \E i \in 1..n : x = L[i] THEN CHOOSE i \in 1..n : x = L[i] ELSE n + 1]
  <1>6. \A i \in 1..n : pos[L[i]] = i
    BY <1>3, <1>5
  <1>7. pos[NULL] = n + 1
    BY <1>5
  <1>8. pos \in [Slots \cup {NULL} -> Nat \ {0}]
    <2>1. \A x : (\E i \in 1..n : x = L[i]) => (CHOOSE i \in 1..n : x = L[i]) \in 1..n
      OBVIOUS
    <2>2. \A x : (IF \E i \in 1..n : x = L[i] THEN CHOOSE i \in 1..n : x = L[i] ELSE n + 1) \in Nat \ {0}
      BY <2>1
    <2> QED
      BY <2>2
  <1> HIDE DEF pos
  <1>9. ListBelow(pos)
    <2>1. \A x \in shm_bitmap : \A y \in shm_bitmap : pos[x] = pos[y] => x = y
      BY <1>4, <1>6
    <2>2. /\ shm_flowoplist \in shm_bitmap \cup {NULL}
          /\ \A x \in shm_bitmap : pos[x] < pos[NULL] /\ pos[x] <= Down(pos, shm_flowoplist)
      <3>1. n # 0 => n \in 1..n
        OBVIOUS
      <3>2. n # 0 => shm_flowoplist = L[n] /\ Down(pos, shm_flowoplist) = n
        BY <1>3, <1>5, <1>6, <3>1 DEF Down
      <3>3. n = 0 => shm_flowoplist = NULL /\ shm_bitmap = {}
        BY <1>3, <1>4
      <3>4. \A x \in shm_bitmap : pos[x] \in 1..n
        BY <1>4, <1>6
      <3> QED
        BY <1>4, <1>7, <3>1, <3>2, <3>3, <3>4
    <2>3. ASSUME NEW x \in shm_bitmap
          PROVE  /\ fo_next[x] \in shm_bitmap \cup {NULL}
                 /\ Down(pos, fo_next[x]) < pos[x]
                 /\ \A y \in shm_bitmap : ~(Down(pos, fo_next[x]) < pos[y] /\ pos[y] < pos[x])
      <3>1. PICK i \in 1..n : x = L[i]
        BY <1>4
      <3>2. \A y \in shm_bitmap : pos[y] \in 1..n
        BY <1>4, <1>6
      <3>3. i # 1 => i - 1 \in 1..n
        OBVIOUS
      <3>4. fo_next[x] \in shm_bitmap \cup {NULL} /\ Down(pos, fo_next[x]) = i - 1
        <4>1. CASE i = 1
          BY <1>3, <3>1, <4>1 DEF Down
        <4>2. CASE i # 1
          <5>1. fo_next[x] = L[i - 1] /\ L[i - 1] # NULL
            BY <1>3, <1>5, <3>1, <3>3, <4>2
          <5> QED
            BY <1>4, <1>6, <3>3, <4>2, <5>1 DEF Down
        <4> QED
          BY <4>1, <4>2
      <3> QED
        BY <1>6, <3>1, <3>2, <3>4
    <2> QED
      BY <2>1, <2>2, <2>3 DEF ListBelow
  <1> DEFINE Q == [w \in Slots |-> {}]
  <1>10. Q \in [Slots -> SUBSET Slots]
    OBVIOUS
  <1>11. \A u \in Threads : pc[u] \notin {"walk", "store", "follow"}
    BY DEF PhaseInv, CopyPcs
  <1> HIDE DEF Q
  <1>12. Ghost(pos, {}, {}, {}, Q)
    BY <1>8, <1>9, <1>11 DEF Ghost
  <1> QED
    BY <1>10, <1>12 DEF HasGhost

\* What a thread needs to know about its wakeup while it works on the targets.
LEMMA Working ==
  ASSUME PoolOK, SlotInv, PhaseInv, TargetInv, raced = {}, ~f_abort, NEW t \in Threads,
         pc[t] \in {"find", "walk"} \cup CopyPcs
  PROVE  /\ HasGhost /\ looked
         /\ At(t) \in Slots /\ Owns(t, At(t))
         /\ \A u \in Threads : pc[u] # "exited" /\ u # t => ~Owns(u, At(t))
         /\ pc[t] \in CopyPcs => HasTargets(t, At(t))
  <1>1. looked /\ pc[t] \in LoopPcs /\ pc[t] # "exited"
    BY DEF PhaseInv, LoopPcs, CopyPcs
  <1>2. Owns(t, At(t))
    BY <1>1, OwnsItsOwn
  <1>3. At(t) \in shm_bitmap /\ flowop[At(t)].thread = t
    BY <1>1, <1>2, OwnsItsOwn
  <1>4. ASSUME NEW u \in Threads, pc[u] # "exited", u # t PROVE ~Owns(u, At(t))
    BY <1>3, <1>4, OwnsItsOwn
  <1>5. pc[t] \in CopyPcs => fo_targets[At(t)] # NULL
    BY DEF TargetInv
  <1> QED
    BY <1>1, <1>2, <1>3, <1>4, <1>5 DEF PoolOK, HasTargets, TargetInv

\* A step of one thread within a look-up or the copying after it changes nothing
\* for the others.
LEMMA OneWorks ==
  ASSUME Shape, NEW t \in Threads,
         UNCHANGED <<privateVars, posVars>>,
         \A u \in Threads \ {t} : pc'[u] = pc[u] /\ cur'[u] = cur[u] /\ res'[u] = res[u]
  PROVE  /\ \A u \in Threads : At(u)' = At(u)
         /\ \A u \in Threads : \A w : Owns(u, w)' <=> Owns(u, w)
         /\ \A u \in Threads \ {t} : \A w : Frontier(u, w)' = Frontier(u, w)
  <1>1. \A u \in Threads : At(u)' = At(u)
    BY DEF At, privateVars, posVars
  <1>2. \A u \in Threads : \A w : Owns(u, w)' <=> Owns(u, w)
    BY DEF Owns, Inner, privateVars
  <1> QED
    BY <1>1, <1>2 DEF Frontier

\* A look-up starts at the head of the list.
LEMMA LookupStarts ==
  ASSUME Shape, PoolOK, SlotInv, PhaseInv, TargetInv, NEW t \in Threads, FindLock(t),
         raced = {}, ~f_abort, late' = late, NEW pos, NEW R, NEW T, NEW N, NEW Q,
         Ghost(pos, R, T, N, Q)
  PROVE  Ghost(pos, R, T, N, Q)'
  <1>1. /\ pc[t] = "find" /\ pc' = [pc EXCEPT ![t] = "walk"]
        /\ cur' = [cur EXCEPT ![t] = shm_flowoplist] /\ res' = [res EXCEPT ![t] = NULL]
        /\ UNCHANGED <<shm_bitmap, shm_flowoplist, fo_next, flowop, fo_resultnext, fo_targetnext,
                       fo_targets, privateVars, posVars>>
    BY DEF FindLock, poolVars, listVars, findVars
  <1>2. /\ pc'[t] = "walk" /\ cur'[t] = shm_flowoplist /\ res'[t] = NULL
        /\ \A u \in Threads \ {t} : pc'[u] = pc[u] /\ cur'[u] = cur[u] /\ res'[u] = res[u]
    BY <1>1 DEF Shape
  <1>3. /\ \A u \in Threads : At(u)' = At(u)
        /\ \A u \in Threads : \A w : Owns(u, w)' <=> Owns(u, w)
        /\ \A u \in Threads \ {t} : \A w : Frontier(u, w)' = Frontier(u, w)
    BY <1>1, <1>2, OneWorks
  <1>4. Lookup(t, pos, R)'
    <2>1. ListBelow(pos) /\ shm_bitmap \subseteq Slots /\ pos[NULL] \in Nat \ {0}
          /\ \A x \in shm_bitmap : pos[x] \in Nat \ {0}
      BY DEF Ghost, PoolOK
    <2>2. Down(pos, shm_flowoplist) \in Nat /\ Down(pos, shm_flowoplist) < pos[NULL]
      BY <2>1 DEF ListBelow, Down
    <2>3. \A v \in shm_bitmap : ~(Down(pos, shm_flowoplist) < pos[v])
      BY <2>1, <2>2 DEF ListBelow
    <2>4. shm_flowoplist \in shm_bitmap \cup {NULL}
      BY <2>1 DEF ListBelow
    <2>5. Down(pos, cur[t])' = Down(pos, shm_flowoplist)
      BY <1>2 DEF Down
    <2> QED
      BY <1>1, <1>2, <2>2, <2>3, <2>4, <2>5 DEF Lookup
  <1>5. Frontier(t, At(t)) = NULL /\ \A w : Frontier(t, w)' = Frontier(t, w)
    BY <1>1, <1>2 DEF Frontier, CopyPcs
  <1>6. ASSUME NEW u \in Threads, NEW w \in Slots, HasTargets(u, w)'
        PROVE  HasTargets(u, w) /\ fo_targets'[w] = fo_targets[w] /\ Frontier(u, w)' = Frontier(u, w)
    BY <1>1, <1>2, <1>3, <1>5, <1>6 DEF HasTargets
  <1>7. R \subseteq shm_bitmap /\ T \subseteq R
    BY DEF Ghost
  <1>8. \A u \in Threads : pc'[u] = "walk" =>
           \/ pc[u] = "walk" /\ cur'[u] = cur[u] /\ res'[u] = res[u] /\ At(u)' = At(u)
           \/ Lookup(u, pos, R)'
    BY <1>2, <1>3, <1>4
  <1>9. \A u \in Threads : pc'[u] \in {"store", "follow"} =>
           pc'[u] = pc[u] /\ cur'[u] = cur[u] /\ res'[u] = res[u]
    BY <1>2
  <1>10. /\ \A x \in R : fo_resultnext'[x] = fo_resultnext[x]
         /\ \A x \in T : fo_targetnext'[x] = fo_targetnext[x]
    BY <1>1
  <1>11. UNCHANGED <<shm_bitmap, shm_flowoplist, fo_next, flowop>> /\ late \subseteq late'
    BY <1>1
  <1> QED
    BY <1>6, <1>7, <1>8, <1>9, <1>10, <1>11, GhostStep

\* One turn of a look-up: a match is put before the results.
LEMMA LookupGoesOn ==
  ASSUME Shape, PoolOK, SlotInv, PhaseInv, TargetInv, NEW t \in Threads, Walk(t),
         raced = {}, ~f_abort, late' = late, NEW pos, NEW R, NEW T, NEW N, NEW Q,
         Ghost(pos, R, T, N, Q)
  PROVE  \E S : Ghost(pos, S, T, N, Q)'
  <1> DEFINE s == cur[t]
             M == flowop[s].name = flowop[At(t)].target
             d == Down(pos, fo_next[s])
             r == res[t]
  <1>0. PICK S : S = IF M THEN R \cup {s} ELSE R
    OBVIOUS
  <1>1. /\ pc[t] = "walk" /\ pc' = pc /\ s # NULL
        /\ cur' = [cur EXCEPT ![t] = fo_next[s]]
        /\ M => /\ fo_resultnext' = [fo_resultnext EXCEPT ![s] = r]
                /\ res' = [res EXCEPT ![t] = s]
        /\ ~M => fo_resultnext' = fo_resultnext /\ res' = res
        /\ UNCHANGED <<shm_bitmap, shm_flowoplist, fo_next, flowop, fo_targetnext,
                       fo_targets, privateVars, posVars>>
    BY DEF Walk, poolVars, listVars
  <1>2. Lookup(t, pos, R) /\ ListBelow(pos) /\ R \subseteq shm_bitmap /\ T \subseteq R
    BY <1>1 DEF Ghost
  <1>3. /\ shm_bitmap \subseteq Slots /\ \A x \in Slots \cup {NULL} : pos[x] \in Nat \ {0}
    BY DEF Ghost, PoolOK
  <1>4. /\ s \in shm_bitmap /\ s \in Slots /\ pos[s] \in Nat /\ Down(pos, s) = pos[s]
        /\ r \in R \cup {NULL} /\ pos[r] \in Nat /\ pos[s] < pos[r]
        /\ r # NULL => flowop[r].name = flowop[At(t)].target
        /\ \A v \in shm_bitmap : flowop[v].name = flowop[At(t)].target =>
             ~(pos[s] < pos[v] /\ pos[v] < pos[r])
    BY <1>1, <1>2, <1>3 DEF Lookup, Down
  <1>5. /\ fo_next[s] \in shm_bitmap \cup {NULL} /\ d \in Nat /\ d < pos[s]
        /\ \A y \in shm_bitmap : ~(d < pos[y] /\ pos[y] < pos[s])
        /\ \A y \in shm_bitmap : pos[y] = pos[s] => y = s
    BY <1>2, <1>3, <1>4 DEF ListBelow, Down
  <1>6. /\ \A u \in Threads \ {t} : pc'[u] = pc[u] /\ cur'[u] = cur[u] /\ res'[u] = res[u]
        /\ cur'[t] = fo_next[s] /\ (M => res'[t] = s) /\ (~M => res'[t] = r)
    BY <1>1 DEF Shape
  <1>7. /\ \A u \in Threads : At(u)' = At(u)
        /\ \A u \in Threads : \A w : Owns(u, w)' <=> Owns(u, w)
        /\ \A u \in Threads \ {t} : \A w : Frontier(u, w)' = Frontier(u, w)
    BY <1>1, <1>6, OneWorks
  <1> HIDE DEF M, d
  <1>8. Lookup(t, pos, S)'
    <2>1. Down(pos, cur[t])' = d /\ At(t)' = At(t) /\ flowop' = flowop /\ shm_bitmap' = shm_bitmap
      BY <1>1, <1>6, <1>7 DEF Down, d
    <2>2. CASE M
      <3>1. res'[t] = s /\ s \in S /\ flowop[s].name = flowop[At(t)].target
        BY <1>0, <1>6, <2>2 DEF M
      <3> HIDE DEF s
      <3> QED
        BY <1>4, <1>5, <1>6, <2>1, <3>1 DEF Lookup
    <2>3. CASE ~M
      <3>1. res'[t] = r /\ S = R /\ flowop[s].name # flowop[At(t)].target
        BY <1>0, <1>6, <2>3 DEF M
      <3>2. ASSUME NEW v \in shm_bitmap, flowop[v].name = flowop[At(t)].target
            PROVE  ~(d < pos[v] /\ pos[v] < pos[r])
        <4>1. pos[v] \in Nat /\ pos[v] # pos[s]
          BY <1>3, <1>5, <3>1, <3>2
        <4>2. ~(pos[s] < pos[v] /\ pos[v] < pos[r]) /\ ~(d < pos[v] /\ pos[v] < pos[s])
          BY <1>4, <1>5, <3>2
        <4> QED
          BY <1>4, <4>1, <4>2
      <3>3. d < pos[r]
        BY <1>4, <1>5
      <3> HIDE DEF s, r
      <3> QED
        BY <1>4, <1>5, <1>6, <2>1, <3>1, <3>2, <3>3 DEF Lookup
    <2> QED
      BY <2>2, <2>3
  <1>9. R \subseteq S /\ S \subseteq shm_bitmap /\ T \subseteq S
    BY <1>0, <1>2, <1>4
  <1>10. ASSUME NEW x \in S
         PROVE  \/ x \in R /\ fo_resultnext'[x] = fo_resultnext[x]
                \/ GoodLink(pos, N, S, x, fo_resultnext'[x])
    <2>1. CASE x = s /\ M
      <3>1. fo_resultnext'[x] = r /\ flowop[x].name = flowop[At(t)].target
        BY <1>1, <1>4, <2>1 DEF Shape, M
      <3>2. r \in S \cup {NULL}
        BY <1>4, <1>9
      <3> HIDE DEF r
      <3> QED
        BY <1>4, <2>1, <3>1, <3>2 DEF GoodLink
    <2>2. CASE ~(x = s /\ M)
      <3>1. x \in R /\ x \in Slots
        BY <1>0, <1>2, <1>3, <2>2
      <3> QED
        BY <1>1, <2>2, <3>1 DEF Shape
    <2> QED
      BY <2>1, <2>2
  <1>11. \A w : Frontier(t, w)' = Frontier(t, w)
    BY <1>1 DEF Frontier, CopyPcs
  <1>12. ASSUME NEW u \in Threads, NEW w \in Slots, HasTargets(u, w)'
         PROVE  HasTargets(u, w) /\ fo_targets'[w] = fo_targets[w] /\ Frontier(u, w)' = Frontier(u, w)
    BY <1>1, <1>6, <1>7, <1>11, <1>12 DEF HasTargets
  <1>13. \A u \in Threads : pc'[u] = "walk" =>
           \/ pc[u] = "walk" /\ cur'[u] = cur[u] /\ res'[u] = res[u] /\ At(u)' = At(u)
           \/ Lookup(u, pos, S)'
    BY <1>6, <1>7, <1>8
  <1>14. \A u \in Threads : pc'[u] \in {"store", "follow"} =>
           pc'[u] = pc[u] /\ cur'[u] = cur[u] /\ res'[u] = res[u]
    BY <1>1, <1>6
  <1>15. \A x \in T : fo_targetnext'[x] = fo_targetnext[x]
    BY <1>1
  <1>16. UNCHANGED <<shm_bitmap, shm_flowoplist, fo_next, flowop>> /\ late \subseteq late'
    BY <1>1
  <1>17. Ghost(pos, S, T, N, Q)'
    BY <1>9, <1>10, <1>12, <1>13, <1>14, <1>15, <1>16, GhostStep
  <1> QED
    BY <1>17

\* The results of a look-up become a target list, of which nothing is copied yet.
LEMMA LookupEnds ==
  ASSUME Shape, PoolOK, SlotInv, PhaseInv, TargetInv, NEW t \in Threads, Found(t),
         raced = {}, ~f_abort, res[t] # NULL, late' = late, NEW pos, NEW R, NEW T, NEW N,
         NEW Q \in [Slots -> SUBSET Slots], Ghost(pos, R, T, N, Q),
         NEW w, w = At(t), NEW P, P = [Q EXCEPT ![w] = {}]
  PROVE  Ghost(pos, R, T, N, P)'
  <1>0. PICK a : a = res[t]
    OBVIOUS
  <1>1. /\ pc[t] = "walk" /\ cur[t] = NULL /\ pc' = [pc EXCEPT ![t] = "copy"]
        /\ cur' = [cur EXCEPT ![t] = a] /\ fo_targets' = [fo_targets EXCEPT ![w] = a]
        /\ UNCHANGED <<shm_bitmap, shm_flowoplist, fo_next, flowop, fo_resultnext, fo_targetnext,
                       privateVars, posVars, res>>
    BY <1>0 DEF Found, poolVars, listVars
  <1>2. /\ w \in Slots /\ Owns(t, w)
        /\ \A u \in Threads : pc[u] # "exited" /\ u # t => ~Owns(u, w)
    BY <1>1, Working
  <1>3. /\ pc'[t] = "copy" /\ cur'[t] = a /\ fo_targets'[w] = a
        /\ \A u \in Threads \ {t} : pc'[u] = pc[u] /\ cur'[u] = cur[u] /\ res'[u] = res[u]
        /\ \A e \in Slots \ {w} : fo_targets'[e] = fo_targets[e] /\ P[e] = Q[e]
        /\ P[w] = {}
    BY <1>1, <1>2 DEF Shape
  <1>4. /\ \A u \in Threads : At(u)' = At(u)
        /\ \A u \in Threads : \A e : Owns(u, e)' <=> Owns(u, e)
        /\ \A u \in Threads \ {t} : \A e : Frontier(u, e)' = Frontier(u, e)
    BY <1>1, <1>3, OneWorks
  <1>5. Lookup(t, pos, R) /\ R \subseteq shm_bitmap /\ T \subseteq R /\ shm_bitmap \subseteq Slots
        /\ \A x \in Slots \cup {NULL} : pos[x] \in Nat \ {0}
    BY <1>1 DEF Ghost, PoolOK
  <1>6. /\ a \in R /\ flowop[a].name = flowop[w].target /\ pos[a] \in Nat
        /\ \A v \in shm_bitmap : flowop[v].name = flowop[w].target => ~(0 < pos[v] /\ pos[v] < pos[a])
    BY <1>0, <1>1, <1>5 DEF Lookup, Down
  <1>7. \A v \in shm_bitmap : flowop[v].name = flowop[w].target => pos[a] <= pos[v] /\ ~(pos[v] < pos[a])
    BY <1>5, <1>6
  <1>8. Frontier(t, w)' = a
    BY <1>3, <1>4 DEF Frontier, CopyPcs
  <1>9. Targets(w, a, pos, N, R, T, P[w])'
    BY <1>1, <1>3, <1>6, <1>7 DEF Targets
  <1>10. ASSUME NEW e, e # w PROVE Frontier(t, e)' = Frontier(t, e)
    <2>1. At(t) = w /\ At(t)' = w
      BY <1>4
    <2> QED
      BY <1>10, <2>1 DEF Frontier
  <1>11. ASSUME NEW u \in Threads, NEW e \in Slots, HasTargets(u, e)'
         PROVE  \/ /\ HasTargets(u, e) /\ fo_targets'[e] = fo_targets[e] /\ P[e] = Q[e]
                   /\ Frontier(u, e)' = Frontier(u, e)
                \/ \E f : Frontier(u, e)' = f /\ Targets(e, f, pos, N, R, T, P[e])'
    <2>1. pc[u] # "exited" /\ Owns(u, e)
      BY <1>1, <1>3, <1>4, <1>11 DEF HasTargets
    <2>2. CASE u = t /\ e = w
      BY <1>8, <1>9, <2>2
    <2>3. CASE ~(u = t /\ e = w)
      <3>1. e # w
        BY <1>2, <2>1, <2>3
      <3> QED
        BY <1>3, <1>4, <1>10, <1>11, <2>1, <3>1 DEF HasTargets
    <2> QED
      BY <2>2, <2>3
  <1>12. \A u \in Threads : pc'[u] = "walk" =>
           pc[u] = "walk" /\ cur'[u] = cur[u] /\ res'[u] = res[u] /\ At(u)' = At(u)
    BY <1>3, <1>4
  <1>13. \A u \in Threads : pc'[u] \in {"store", "follow"} =>
           pc'[u] = pc[u] /\ cur'[u] = cur[u] /\ res'[u] = res[u]
    BY <1>3
  <1>14. /\ UNCHANGED <<shm_bitmap, shm_flowoplist, fo_next, flowop, fo_resultnext, fo_targetnext>>
         /\ late \subseteq late'
    BY <1>1
  <1>15. KeepsTargets(pos, R, T, N, Q, P)
    BY <1>11 DEF KeepsTargets
  <1> QED
    BY <1>12, <1>13, <1>14, <1>15, GhostTargets

\* The copying: the link of a result is read,
LEMMA CopyReads ==
  ASSUME Shape, PoolOK, SlotInv, PhaseInv, TargetInv, NEW t \in Threads, CopyRead(t),
         raced = {}, ~f_abort, cur[t] # NULL, late' = late, NEW pos, NEW R, NEW T, NEW N, NEW Q,
         Ghost(pos, R, T, N, Q)
  PROVE  Ghost(pos, R, T, N, Q)'
  <1>1. /\ pc[t] = "copy" /\ pc' = [pc EXCEPT ![t] = "store"] /\ cur' = cur
        /\ res' = [res EXCEPT ![t] = fo_resultnext[cur[t]]]
        /\ UNCHANGED <<shm_bitmap, shm_flowoplist, fo_next, flowop, fo_resultnext, fo_targetnext,
                       fo_targets, privateVars, posVars>>
    BY DEF CopyRead, poolVars, listVars, findVars
  <1>2. /\ pc'[t] = "store" /\ res'[t] = fo_resultnext[cur[t]]
        /\ \A u \in Threads \ {t} : pc'[u] = pc[u] /\ cur'[u] = cur[u] /\ res'[u] = res[u]
    BY <1>1 DEF Shape
  <1>3. /\ \A u \in Threads : At(u)' = At(u)
        /\ \A u \in Threads : \A w : Owns(u, w)' <=> Owns(u, w)
        /\ \A u \in Threads \ {t} : \A w : Frontier(u, w)' = Frontier(u, w)
    BY <1>1, <1>2, OneWorks
  <1>4. \A w : Frontier(t, w)' = Frontier(t, w)
    BY <1>1, <1>2, <1>3 DEF Frontier, CopyPcs
  <1>5. cur[t] \in R
    <2>1. At(t) \in Slots /\ HasTargets(t, At(t))
      BY <1>1, Working DEF CopyPcs
    <2>2. Targets(At(t), Frontier(t, At(t)), pos, N, R, T, Q[At(t)])
      BY <2>1 DEF Ghost
    <2>3. Frontier(t, At(t)) = cur[t]
      BY <1>1 DEF Frontier, CopyPcs
    <2> QED
      BY <2>2, <2>3 DEF Targets
  <1>6. GoodLink(pos, N, R, cur'[t], res'[t]) /\ cur'[t] \in R
    BY <1>1, <1>2, <1>5 DEF Ghost
  <1>7. ASSUME NEW u \in Threads, NEW w \in Slots, HasTargets(u, w)'
        PROVE  HasTargets(u, w) /\ fo_targets'[w] = fo_targets[w] /\ Frontier(u, w)' = Frontier(u, w)
    BY <1>1, <1>2, <1>3, <1>4, <1>7 DEF HasTargets
  <1>8. R \subseteq shm_bitmap /\ T \subseteq R
    BY DEF Ghost
  <1>9. \A u \in Threads : pc'[u] = "walk" =>
           \/ pc[u] = "walk" /\ cur'[u] = cur[u] /\ res'[u] = res[u] /\ At(u)' = At(u)
           \/ Lookup(u, pos, R)'
    BY <1>2, <1>3
  <1>10. \A u \in Threads : pc'[u] \in {"store", "follow"} =>
           \/ pc'[u] = pc[u] /\ cur'[u] = cur[u] /\ res'[u] = res[u]
           \/ /\ cur'[u] \in R /\ GoodLink(pos, N, R, cur'[u], res'[u])
              /\ pc'[u] = "follow" => cur'[u] \in T
    BY <1>2, <1>6
  <1>11. /\ \A x \in R : fo_resultnext'[x] = fo_resultnext[x]
         /\ \A x \in T : fo_targetnext'[x] = fo_targetnext[x]
         /\ UNCHANGED <<shm_bitmap, shm_flowoplist, fo_next, flowop>> /\ late \subseteq late'
    BY <1>1
  <1> QED
    BY <1>7, <1>8, <1>9, <1>10, <1>11, GhostStep

\* stored,
LEMMA CopyStores ==
  ASSUME Shape, PoolOK, SlotInv, PhaseInv, TargetInv, NEW t \in Threads, CopyStore(t),
         raced = {}, ~f_abort, late' = late, NEW pos, NEW R, NEW T, NEW N, NEW Q,
         Ghost(pos, R, T, N, Q)
  PROVE  \E U : Ghost(pos, R, U, N, Q)'
  <1>0. PICK c, U : c = cur[t] /\ U = T \cup {c}
    OBVIOUS
  <1>1. /\ pc[t] = "store" /\ pc' = [pc EXCEPT ![t] = "follow"] /\ cur' = cur /\ res' = res
        /\ fo_targetnext' = [fo_targetnext EXCEPT ![c] = res[t]]
        /\ UNCHANGED <<shm_bitmap, shm_flowoplist, fo_next, flowop, fo_resultnext, fo_targets,
                       privateVars, posVars>>
    BY <1>0 DEF CopyStore, poolVars, listVars
  <1>2. /\ pc'[t] = "follow"
        /\ \A u \in Threads \ {t} : pc'[u] = pc[u] /\ cur'[u] = cur[u] /\ res'[u] = res[u]
    BY <1>1 DEF Shape
  <1>3. /\ \A u \in Threads : At(u)' = At(u)
        /\ \A u \in Threads : \A w : Owns(u, w)' <=> Owns(u, w)
        /\ \A u \in Threads \ {t} : \A w : Frontier(u, w)' = Frontier(u, w)
    BY <1>1, <1>2, OneWorks
  <1>4. \A w : Frontier(t, w)' = Frontier(t, w)
    BY <1>1, <1>2, <1>3 DEF Frontier, CopyPcs
  <1>5. c \in R /\ GoodLink(pos, N, R, c, res[t]) /\ R \subseteq shm_bitmap /\ T \subseteq R
    BY <1>0, <1>1 DEF Ghost, Copying
  <1>6. c \in Slots /\ fo_targetnext'[c] = res[t] /\ \A x \in Slots \ {c} : fo_targetnext'[x] = fo_targetnext[x]
    BY <1>1, <1>5 DEF Shape, PoolOK
  <1>7. ASSUME NEW x \in U
        PROVE  \/ x \in T /\ fo_targetnext'[x] = fo_targetnext[x]
               \/ GoodLink(pos, N, R, x, fo_targetnext'[x])
    <2>1. CASE x = c
      BY <1>5, <1>6, <2>1
    <2>2. CASE x # c
      <3>1. x \in T /\ x \in Slots
        BY <1>0, <1>5, <2>2 DEF PoolOK
      <3> QED
        BY <1>6, <2>2, <3>1
    <2> QED
      BY <2>1, <2>2
  <1>8. ASSUME NEW u \in Threads, NEW w \in Slots, HasTargets(u, w)'
        PROVE  HasTargets(u, w) /\ fo_targets'[w] = fo_targets[w] /\ Frontier(u, w)' = Frontier(u, w)
    BY <1>1, <1>2, <1>3, <1>4, <1>8 DEF HasTargets
  <1>9. R \subseteq R /\ T \subseteq U /\ U \subseteq R
    BY <1>0, <1>5
  <1>10. \A u \in Threads : pc'[u] = "walk" =>
           \/ pc[u] = "walk" /\ cur'[u] = cur[u] /\ res'[u] = res[u] /\ At(u)' = At(u)
           \/ Lookup(u, pos, R)'
    BY <1>2, <1>3
  <1>11. \A u \in Threads : pc'[u] \in {"store", "follow"} =>
           \/ pc'[u] = pc[u] /\ cur'[u] = cur[u] /\ res'[u] = res[u]
           \/ /\ cur'[u] \in R /\ GoodLink(pos, N, R, cur'[u], res'[u])
              /\ pc'[u] = "follow" => cur'[u] \in U
    BY <1>0, <1>1, <1>2, <1>5
  <1>12. /\ \A x \in R : fo_resultnext'[x] = fo_resultnext[x]
         /\ UNCHANGED <<shm_bitmap, shm_flowoplist, fo_next, flowop>> /\ late \subseteq late'
    BY <1>1
  <1>13. Ghost(pos, R, U, N, Q)'
    BY <1>5, <1>7, <1>8, <1>9, <1>10, <1>11, <1>12, GhostStep
  <1> QED
    BY <1>13

\* and followed: what lies between it and the next one is late.
LEMMA CopyFollows ==
  ASSUME Shape, PoolOK, SlotInv, PhaseInv, TargetInv, NEW t \in Threads, CopyFollow(t),
         raced = {}, ~f_abort, late' = late, NEW pos, NEW R, NEW T, NEW N,
         NEW Q \in [Slots -> SUBSET Slots], Ghost(pos, R, T, N, Q)
  PROVE  \E P : P \in [Slots -> SUBSET Slots] /\ Ghost(pos, R, T, N, P)'
  <1>0. PICK c, d, w, P : /\ c = cur[t] /\ w = At(t) /\ P = [Q EXCEPT ![w] = @ \cup {c}]
                          /\ d \in {res[t], fo_resultnext[c]} /\ cur' = [cur EXCEPT ![t] = d]
    BY DEF CopyFollow
  <1>1. /\ pc[t] = "follow" /\ pc' = [pc EXCEPT ![t] = "copy"] /\ res' = res
        /\ UNCHANGED <<shm_bitmap, shm_flowoplist, fo_next, flowop, fo_resultnext, fo_targetnext,
                       fo_targets, privateVars, posVars>>
    BY DEF CopyFollow, poolVars, listVars, findVars
  <1>2. /\ pc'[t] = "copy" /\ cur'[t] = d
        /\ \A u \in Threads \ {t} : pc'[u] = pc[u] /\ cur'[u] = cur[u] /\ res'[u] = res[u]
    BY <1>0, <1>1 DEF Shape
  <1>3. /\ \A u \in Threads : At(u)' = At(u)
        /\ \A u \in Threads : \A e : Owns(u, e)' <=> Owns(u, e)
        /\ \A u \in Threads \ {t} : \A e : Frontier(u, e)' = Frontier(u, e)
    BY <1>1, <1>2, OneWorks
  <1>4. /\ w \in Slots /\ HasTargets(t, w)
        /\ \A u \in Threads : pc[u] # "exited" /\ u # t => ~Owns(u, w)
    BY <1>0, <1>1, Working DEF CopyPcs
  <1>5. Frontier(t, w) = c /\ Frontier(t, w)' = d
    BY <1>0, <1>1, <1>2, <1>3 DEF Frontier, CopyPcs
  <1>6. /\ c \in R /\ c \in T /\ R \subseteq shm_bitmap /\ shm_bitmap \subseteq Slots /\ NULL \notin Slots
        /\ GoodLink(pos, N, R, c, d)
        /\ Targets(w, c, pos, N, R, T, Q[w])
        /\ \A x \in Slots \cup {NULL} : pos[x] \in Nat
        /\ \A x \in shm_bitmap : \A y \in shm_bitmap : pos[x] = pos[y] => x = y
    BY <1>0, <1>1, <1>4, <1>5, ProgramAssumption DEF Ghost, Copying, PoolOK, ListBelow
  <1>7. /\ P \in [Slots -> SUBSET Slots] /\ P[w] = Q[w] \cup {c}
        /\ \A e \in Slots \ {w} : P[e] = Q[e]
    BY <1>0, <1>4, <1>6
  <1>8. Targets(w, d, pos, N, R, T, P[w])'
    <2> DEFINE a == fo_targets[w]
               ofName(x) == flowop[x].name = flowop[w].target
    <2>1. /\ a \in Q[w] \/ c = a
          /\ ofName(c)
          /\ \A x \in Q[w] : x \in T /\ ofName(x)
          /\ \A v \in shm_bitmap \ N : ofName(v) => pos[a] <= pos[v] /\ (pos[v] < pos[c] => v \in Q[w])
      BY <1>6 DEF Targets
    <2>2. /\ d \in R \cup {NULL} /\ (d # NULL => ofName(d))
          /\ \A v \in shm_bitmap \ N : ofName(v) => ~(pos[c] < pos[v] /\ pos[v] < pos[d])
      BY <1>6, <2>1 DEF GoodLink
    <2>3. ASSUME NEW v \in shm_bitmap \ N, ofName(v), pos[v] < pos[d] PROVE v \in P[w]
      <3>1. pos[v] \in Nat /\ pos[c] \in Nat /\ ~(pos[c] < pos[v])
        BY <1>6, <2>2, <2>3
      <3>2. pos[v] = pos[c] => v = c
        BY <1>6
      <3> QED
        BY <1>7, <2>1, <2>3, <3>1, <3>2
    <2>4. /\ a \in P[w]
          /\ \A x \in P[w] : x \in T /\ ofName(x)
          /\ \A v \in shm_bitmap \ N : ofName(v) => pos[a] <= pos[v] /\ (pos[v] < pos[d] => v \in P[w])
      BY <1>6, <1>7, <2>1, <2>3
    <2>5. flowop' = flowop /\ fo_targets' = fo_targets /\ shm_bitmap' = shm_bitmap
      BY <1>1
    <2> QED
      BY <2>2, <2>4, <2>5 DEF Targets
  <1>9. ASSUME NEW e, e # w PROVE Frontier(t, e)' = Frontier(t, e)
    BY <1>0, <1>3, <1>9 DEF Frontier
  <1>10. ASSUME NEW u \in Threads, NEW e \in Slots, HasTargets(u, e)'
         PROVE  \/ /\ HasTargets(u, e) /\ fo_targets'[e] = fo_targets[e] /\ P[e] = Q[e]
                   /\ Frontier(u, e)' = Frontier(u, e)
                \/ \E f : Frontier(u, e)' = f /\ Targets(e, f, pos, N, R, T, P[e])'
    <2>1. pc[u] # "exited" /\ Owns(u, e)
      BY <1>1, <1>2, <1>3, <1>10 DEF HasTargets
    <2>2. CASE u = t /\ e = w
      BY <1>5, <1>8, <2>2
    <2>3. CASE ~(u = t /\ e = w)
      <3>1. e # w
        BY <1>4, <2>1, <2>3
      <3> QED
        BY <1>1, <1>3, <1>7, <1>9, <1>10, <2>1, <3>1 DEF HasTargets
    <2> QED
      BY <2>2, <2>3
  <1>11. KeepsTargets(pos, R, T, N, Q, P)
    BY <1>10 DEF KeepsTargets
  <1>12. \A u \in Threads : pc'[u] = "walk" =>
           pc[u] = "walk" /\ cur'[u] = cur[u] /\ res'[u] = res[u] /\ At(u)' = At(u)
    BY <1>2, <1>3
  <1>13. \A u \in Threads : pc'[u] \in {"store", "follow"} =>
           pc'[u] = pc[u] /\ cur'[u] = cur[u] /\ res'[u] = res[u]
    BY <1>2
  <1>14. /\ UNCHANGED <<shm_bitmap, shm_flowoplist, fo_next, flowop, fo_resultnext, fo_targetnext>>
         /\ late \subseteq late'
    BY <1>1
  <1>15. Ghost(pos, R, T, N, P)'
    BY <1>11, <1>12, <1>13, <1>14, GhostTargets
  <1> QED
    BY <1>7, <1>15

\* Creating a flowop leaves the target lists and what the look-ups work on.
LEMMA DefineOwns ==
  ASSUME Shape, PoolOK, SlotInv, raced = {}, NEW t \in Threads, Define(t), NEW s, s = ipc_malloc
  PROVE  /\ pc[t] = "create" /\ pc'[t] \in {"create", "loop"} /\ s \in Slots \ shm_bitmap
         /\ \A u \in Threads \ {t} : pc'[u] = pc[u] /\ cur'[u] = cur[u] /\ res'[u] = res[u]
         /\ \A u \in Threads : pc[u] \in LoopPcs => At(u)' = At(u)
         /\ \A u \in Threads : \A w \in Slots : HasTargets(u, w)' =>
              w # s /\ HasTargets(u, w) /\ fo_targets'[w] = fo_targets[w]
  <1>1. PrivateOK /\ TInv(t)
    BY DEF SlotInv
  <1> DEFINE outer == tf_thrd_fops[t][ip[t]]
             list == PrivateList(t)
  <1>2. /\ s \in Slots \ shm_bitmap /\ pc[t] = "create" /\ Owned(t)
        /\ list \in Seq(Slots) /\ (jp[t] # 0 => outer \in Slots)
        /\ tf_thrd_fops' = [tf_thrd_fops EXCEPT ![t] = IF jp[t] = 0 THEN Append(list, s) ELSE @]
        /\ fo_comp_fops' = [e \in Slots |-> IF e = s THEN <<>>
                                            ELSE IF jp[t] # 0 /\ e = outer THEN Append(list, s)
                                            ELSE fo_comp_fops[e]]
        /\ \A u \in Threads \ {t} : /\ pc'[u] = pc[u] /\ ip'[u] = ip[u]
                                    /\ jp'[u] = jp[u] /\ res'[u] = res[u]
        /\ pc'[t] \in {"create", "loop"}
    BY <1>1, DefineDoes
  <1>3. cur' = cur /\ fo_targets' = [fo_targets EXCEPT ![s] = NULL]
    BY DEF Define
  <1>4. /\ \A u \in Threads : tf_thrd_fops[u] \in Seq(Slots)
        /\ \A e \in Slots : fo_comp_fops[e] \in Seq(Slots)
    BY <1>1 DEF PrivateOK
  <1>5. /\ jp[t] = 0 => list = tf_thrd_fops[t]
        /\ jp[t] # 0 => list = fo_comp_fops[outer]
    BY DEF PrivateList, Inner
  <1>6. jp[t] # 0 => flowop[outer].thread = t
    <2>1. jp[t] # 0 => ip[t] \in 1..Len(tf_thrd_fops[t])
      BY <1>1, <1>2 DEF TInv, PosOK
    <2> QED
      BY <1>2, <2>1 DEF Owned, Mine
  <1> HIDE DEF outer, list
  <1>7. \A e \in Slots : fo_comp_fops'[e] = IF e = s THEN <<>>
                                            ELSE IF jp[t] # 0 /\ e = outer
                                            THEN Append(fo_comp_fops[e], s)
                                            ELSE fo_comp_fops[e]
    BY <1>2, <1>5
  <1>8. ASSUME NEW u \in Threads
        PROVE  /\ tf_thrd_fops'[u] \in {tf_thrd_fops[u], Append(tf_thrd_fops[u], s)}
               /\ u # t => tf_thrd_fops'[u] = tf_thrd_fops[u]
    BY <1>1, <1>2, <1>5 DEF PrivateOK
  <1>9. ASSUME NEW u \in Threads, pc[u] \in LoopPcs PROVE At(u)' = At(u)
    <2>1. u # t /\ pc[u] # "exited"
      BY <1>2, <1>9 DEF LoopPcs
    <2>2. ip[u] \in 1..Len(tf_thrd_fops[u]) /\ Owned(u)
      BY <1>9, <2>1 DEF SlotInv, TInv, PosOK
    <2>3. PICK o \in Slots : o = tf_thrd_fops[u][ip[u]] /\ o # s /\ flowop[o].thread = u
      <3>1. Mine(tf_thrd_fops[u][ip[u]], u)
        BY <2>2 DEF Owned
      <3> QED
        BY <1>2, <3>1 DEF Mine, PoolOK
    <2>4. fo_comp_fops'[o] = fo_comp_fops[o]
      BY <1>6, <1>7, <2>1, <2>3
    <2>5. ip'[u] = ip[u] /\ jp'[u] = jp[u] /\ tf_thrd_fops'[u] = tf_thrd_fops[u]
      BY <1>2, <1>8, <2>1
    <2> QED
      BY <2>3, <2>4, <2>5 DEF At
  <1>10. ASSUME NEW u \in Threads, NEW w \in Slots, HasTargets(u, w)'
         PROVE  w # s /\ HasTargets(u, w) /\ fo_targets'[w] = fo_targets[w]
    <2>1. w # s /\ fo_targets'[w] = fo_targets[w] /\ fo_targets[w] # NULL
      BY <1>2, <1>3, <1>10 DEF HasTargets, Shape
    <2>2. PICK i \in 1..Len(tf_thrd_fops'[u]) :
            \/ w = tf_thrd_fops'[u][i]
            \/ \E j \in 1..Len(fo_comp_fops'[tf_thrd_fops'[u][i]]) :
                 w = fo_comp_fops'[tf_thrd_fops'[u][i]][j]
      BY <1>10 DEF HasTargets, Owns, Inner
    <2>3. \A z \in Seq(Slots) : \A k \in 1..Len(Append(z, s)) :
            \/ k \in 1..Len(z) /\ Append(z, s)[k] = z[k]
            \/ Append(z, s)[k] = s
      BY <1>2
    <2>4. \/ i \in 1..Len(tf_thrd_fops[u]) /\ tf_thrd_fops'[u][i] = tf_thrd_fops[u][i]
          \/ tf_thrd_fops'[u][i] = s
      BY <1>4, <1>8, <2>3
    <2>5. tf_thrd_fops'[u][i] # s
      <3> SUFFICES ASSUME tf_thrd_fops'[u][i] = s PROVE FALSE
        OBVIOUS
      <3>1. fo_comp_fops'[s] = <<>>
        BY <1>2, <1>7
      <3> QED
        BY <2>1, <2>2, <3>1
    <2>6. PICK e \in Slots : e = tf_thrd_fops[u][i] /\ e # s /\ tf_thrd_fops'[u][i] = e
      BY <1>4, <2>4, <2>5
    <2>7. \A j \in 1..Len(fo_comp_fops'[e]) : w = fo_comp_fops'[e][j] =>
             \E k \in 1..Len(fo_comp_fops[e]) : w = fo_comp_fops[e][k]
      <3>1. PICK z \in Seq(Slots) : z = fo_comp_fops[e]
        BY <1>4
      <3>2. fo_comp_fops'[e] \in {z, Append(z, s)}
        BY <1>7, <2>6, <3>1
      <3>3. \A k \in 1..Len(Append(z, s)) :
              \/ k \in 1..Len(z) /\ Append(z, s)[k] = z[k]
              \/ Append(z, s)[k] = s
        BY <2>3
      <3> QED
        BY <2>1, <3>1, <3>2, <3>3
    <2>8. Owns(u, w)
      BY <2>2, <2>4, <2>5, <2>6, <2>7 DEF Owns, Inner
    <2>9. pc[u] # "exited"
      BY <1>2, <1>10 DEF HasTargets
    <2> QED
      BY <2>1, <2>8, <2>9 DEF HasTargets
  <1> QED
    BY <1>2, <1>3, <1>9, <1>10 DEF Shape

\* A flowop created after the first look-up goes above all others, and is late.
LEMMA GhostDefine ==
  ASSUME Shape, PoolOK, SlotInv, PhaseInv, raced = {}, ~f_abort, looked, late' = late,
         NEW t \in Threads, Define(t), NEW pos, NEW R, NEW T, NEW N, NEW Q, Ghost(pos, R, T, N, Q)
  PROVE  \E p, M : Ghost(p, R, T, M, Q)'
  <1>0. PICK s, p, M :
          /\ s = ipc_malloc /\ M = N \cup {s}
          /\ p = [x \in Slots \cup {NULL} |-> IF x = s THEN pos[NULL]
                                              ELSE IF x = NULL THEN pos[NULL] + 1 ELSE pos[x]]
    OBVIOUS
  <1>1. /\ pc[t] = "create" /\ pc'[t] \in {"create", "loop"} /\ s \in Slots \ shm_bitmap
        /\ \A u \in Threads \ {t} : pc'[u] = pc[u] /\ cur'[u] = cur[u] /\ res'[u] = res[u]
        /\ \A u \in Threads : pc[u] \in LoopPcs => At(u)' = At(u)
        /\ \A u \in Threads : \A w \in Slots : HasTargets(u, w)' =>
             w # s /\ HasTargets(u, w) /\ fo_targets'[w] = fo_targets[w]
    BY <1>0, DefineOwns
  <1>2. /\ shm_bitmap' = shm_bitmap \cup {s} /\ shm_flowoplist' = s
        /\ \A x \in Slots \ {s} : /\ flowop'[x] = flowop[x] /\ fo_next'[x] = fo_next[x]
                                  /\ fo_resultnext'[x] = fo_resultnext[x]
                                  /\ fo_targetnext'[x] = fo_targetnext[x]
        /\ flowop'[s].thread = t /\ fo_next'[s] = shm_flowoplist
    BY <1>0, <1>1 DEF Define, Field, Shape
  <1>3. /\ pos \in [Slots \cup {NULL} -> Nat \ {0}]
        /\ R \subseteq shm_bitmap /\ T \subseteq R /\ N \subseteq shm_bitmap
        /\ shm_bitmap \subseteq Slots /\ s \notin shm_bitmap /\ s \in Slots /\ NULL \notin Slots
        /\ ListBelow(pos)
        /\ t \in late
    BY <1>1, ProgramAssumption DEF Ghost, PoolOK, PhaseInv
  <1>4. /\ p \in [Slots \cup {NULL} -> Nat \ {0}]
        /\ p[s] = pos[NULL] /\ p[NULL] = pos[NULL] + 1
        /\ \A x \in Slots \ {s} : p[x] = pos[x]
        /\ pos[NULL] \in Nat \ {0} /\ \A x \in Slots : pos[x] \in Nat \ {0}
    BY <1>0, <1>3
  <1>5. \A x \in shm_bitmap : x # s /\ x # NULL /\ x \in Slots /\ p[x] = pos[x] /\ pos[x] < pos[NULL]
                              /\ flowop'[x] = flowop[x] /\ pos[x] \in Nat
    BY <1>2, <1>3, <1>4 DEF ListBelow
  <1>6. ListBelow(p)'
    <2> DEFINE h == shm_flowoplist
    <2>1. /\ h \in shm_bitmap \cup {NULL} /\ \A x \in shm_bitmap : pos[x] <= Down(pos, h)
          /\ \A x \in shm_bitmap : \A y \in shm_bitmap : pos[x] = pos[y] => x = y
          /\ \A x \in shm_bitmap :
               /\ fo_next[x] \in shm_bitmap \cup {NULL}
               /\ Down(pos, fo_next[x]) < pos[x]
               /\ \A y \in shm_bitmap : ~(Down(pos, fo_next[x]) < pos[y] /\ pos[y] < pos[x])
      BY <1>3 DEF ListBelow
    <2>2. \A x \in shm_bitmap \cup {NULL} : Down(p, x) = Down(pos, x) /\ Down(p, x) \in Nat
      BY <1>3, <1>4, <1>5 DEF Down
    <2>3. Down(pos, h) < pos[NULL] /\ Down(p, s) = pos[NULL] /\ Down(pos, h) \in Nat
      BY <1>3, <1>4, <1>5, <2>1 DEF Down
    <2>4. \A x \in shm_bitmap' : \A y \in shm_bitmap' : p[x] = p[y] => x = y
      BY <1>2, <1>4, <1>5, <2>1
    <2>5. \A x \in shm_bitmap' : p[x] < p[NULL] /\ p[x] <= Down(p, s)
      BY <1>2, <1>4, <1>5, <2>3
    <2> HIDE DEF h
    <2>6. ASSUME NEW x \in shm_bitmap'
          PROVE  /\ fo_next'[x] \in shm_bitmap' \cup {NULL}
                 /\ Down(p, fo_next'[x]) < p[x]
                 /\ \A y \in shm_bitmap' : ~(Down(p, fo_next'[x]) < p[y] /\ p[y] < p[x])
      <3>1. CASE x = s
        <4>1. fo_next'[x] = h /\ Down(p, h) = Down(pos, h) /\ p[x] = pos[NULL]
          BY <1>2, <1>4, <2>1, <2>2, <3>1 DEF h
        <4>2. \A y \in shm_bitmap' : ~(Down(pos, h) < p[y] /\ p[y] < pos[NULL])
          BY <1>2, <1>4, <1>5, <2>1, <2>3
        <4> QED
          BY <1>2, <2>1, <2>3, <4>1, <4>2
      <3>2. CASE x # s
        <4>1. x \in shm_bitmap /\ fo_next'[x] = fo_next[x] /\ p[x] = pos[x]
          BY <1>2, <1>5, <3>2
        <4>2. Down(p, fo_next[x]) = Down(pos, fo_next[x])
          BY <2>1, <2>2, <4>1
        <4>3. \A y \in shm_bitmap' : ~(Down(pos, fo_next[x]) < p[y] /\ p[y] < pos[x])
          BY <1>2, <1>4, <1>5, <2>1, <4>1
        <4> QED
          BY <1>2, <2>1, <4>1, <4>2, <4>3
      <3> QED
        BY <3>1, <3>2
    <2>7. shm_flowoplist' = s /\ s \in shm_bitmap'
      BY <1>2
    <2>8. \A x : Down(p, x)' = Down(p, x)
      BY DEF Down
    <2> QED
      BY <2>4, <2>5, <2>6, <2>7 DEF ListBelow, Down
  <1>7. shm_bitmap' \ M = shm_bitmap \ N
    BY <1>0, <1>2, <1>3
  <1>8. ASSUME NEW x \in M
        PROVE  flowop'[x].thread \in late' /\ \A y \in shm_bitmap' \ M : p[y] < p[x]
    <2>1. CASE x = s
      BY <1>2, <1>3, <1>4, <1>5, <1>7, <2>1
    <2>2. CASE x # s
      <3>1. x \in N /\ x \in shm_bitmap
        BY <1>0, <1>3, <2>2
      <3>2. flowop[x].thread \in late /\ \A y \in shm_bitmap \ N : pos[y] < pos[x]
        BY <3>1 DEF Ghost
      <3> QED
        BY <1>5, <1>7, <3>1, <3>2
    <2> QED
      BY <2>1, <2>2
  <1>9. ASSUME NEW x \in R, NEW y, GoodLink(pos, N, R, x, y) PROVE GoodLink(p, M, R, x, y)'
    <2>1. /\ y \in R \cup {NULL} /\ (y # NULL => flowop[y].name = flowop[x].name) /\ pos[x] < pos[y]
          /\ \A v \in shm_bitmap : flowop[v].name = flowop[x].name /\ pos[x] < pos[v] /\ pos[v] < pos[y]
                                     => y = NULL /\ v \in N
      BY <1>9 DEF GoodLink
    <2>2. /\ x \in shm_bitmap /\ (y # NULL => y \in shm_bitmap)
      BY <1>3, <2>1
    <2>3. y # NULL => flowop'[y].name = flowop'[x].name
      BY <1>5, <2>1, <2>2
    <2>4. p[x] < p[y]
      BY <1>4, <1>5, <2>1, <2>2
    <2>5. ASSUME NEW v \in shm_bitmap', flowop'[v].name = flowop'[x].name, p[x] < p[v], p[v] < p[y]
          PROVE  y = NULL /\ v \in M
      <3>1. CASE v = s
        BY <1>0, <1>4, <1>5, <2>2, <2>5, <3>1
      <3>2. CASE v # s
        <4>1. v \in shm_bitmap
          BY <1>2, <3>2
        <4>2. flowop[v].name = flowop[x].name /\ pos[x] < pos[v] /\ pos[v] < pos[y]
          BY <1>5, <2>2, <2>5, <4>1
        <4> QED
          BY <1>0, <2>1, <4>1, <4>2
      <3> QED
        BY <3>1, <3>2
    <2> QED
      BY <2>1, <2>3, <2>4, <2>5 DEF GoodLink
  <1>10. \A x \in R : GoodLink(p, M, R, x, fo_resultnext[x])'
    <2> TAKE x \in R
    <2>1. GoodLink(pos, N, R, x, fo_resultnext[x]) /\ fo_resultnext'[x] = fo_resultnext[x]
      BY <1>2, <1>3 DEF Ghost
    <2>2. PICK y : y = fo_resultnext[x]
      OBVIOUS
    <2>3. GoodLink(p, M, R, x, y)'
      BY <1>9, <2>1, <2>2
    <2> QED
      BY <2>1, <2>2, <2>3 DEF GoodLink
  <1>11. \A x \in T : GoodLink(p, M, R, x, fo_targetnext[x])'
    <2> TAKE x \in T
    <2>1. GoodLink(pos, N, R, x, fo_targetnext[x]) /\ fo_targetnext'[x] = fo_targetnext[x] /\ x \in R
      BY <1>2, <1>3 DEF Ghost
    <2>2. PICK y : y = fo_targetnext[x]
      OBVIOUS
    <2>3. GoodLink(p, M, R, x, y)'
      BY <1>9, <2>1, <2>2
    <2> QED
      BY <2>1, <2>2, <2>3 DEF GoodLink
  <1>12. \A u \in Threads : pc'[u] # "walk"
    BY <1>1 DEF PhaseInv
  <1>13. ASSUME NEW u \in Threads, pc'[u] \in {"store", "follow"} PROVE Copying(u, p, M, R, T)'
    <2>1. u # t /\ pc'[u] = pc[u] /\ cur'[u] = cur[u] /\ res'[u] = res[u]
      BY <1>1, <1>13
    <2>2. Copying(u, pos, N, R, T)
      BY <1>13, <2>1 DEF Ghost
    <2>3. PICK c, d : c = cur[u] /\ d = res[u]
      OBVIOUS
    <2>4. GoodLink(p, M, R, c, d)'
      BY <1>9, <2>2, <2>3 DEF Copying
    <2> QED
      BY <2>1, <2>2, <2>3, <2>4 DEF Copying
  <1>14. ASSUME NEW u \in Threads, NEW w \in Slots, HasTargets(u, w)'
         PROVE  Targets(w, Frontier(u, w), p, M, R, T, Q[w])'
    <2>1. w # s /\ HasTargets(u, w) /\ fo_targets'[w] = fo_targets[w] /\ flowop'[w] = flowop[w]
      BY <1>1, <1>2, <1>14
    <2>2. PICK f : f = Frontier(u, w)
      OBVIOUS
    <2>3. Frontier(u, w)' = f
      <3>1. CASE u = t
        BY <1>1, <2>2, <3>1 DEF Frontier, CopyPcs
      <3>2. CASE u # t
        <4>1. pc'[u] = pc[u] /\ cur'[u] = cur[u] /\ (pc[u] \in CopyPcs => At(u)' = At(u))
          BY <1>1, <3>2 DEF CopyPcs, LoopPcs
        <4> QED
          BY <2>2, <4>1 DEF Frontier
      <3> QED
        BY <3>1, <3>2
    <2> DEFINE a == fo_targets[w]
               q == Q[w]
    <2>4. /\ a \in q \/ f = a
          /\ f # NULL => f \in R /\ flowop[f].name = flowop[w].target
          /\ \A x \in q : x \in T /\ flowop[x].name = flowop[w].target
          /\ \A v \in shm_bitmap \ N : flowop[v].name = flowop[w].target =>
               pos[a] <= pos[v] /\ (pos[v] < pos[f] => v \in q)
      <3>1. Targets(w, Frontier(u, w), pos, N, R, T, Q[w])
        BY <2>1 DEF Ghost
      <3> QED
        BY <2>2, <3>1 DEF Targets
    <2>5. a # NULL /\ a \in shm_bitmap
      BY <1>3, <2>1, <2>4 DEF HasTargets
    <2> HIDE DEF a, q
    <2>6. /\ f # NULL => f \in R /\ flowop'[f].name = flowop'[w].target
          /\ \A x \in q : x \in T /\ flowop'[x].name = flowop'[w].target
      BY <1>3, <1>5, <2>1, <2>4
    <2>7. ASSUME NEW v \in shm_bitmap' \ M, flowop'[v].name = flowop'[w].target
          PROVE  p[a] <= p[v] /\ (p[v] < p[f] => v \in q)
      <3>1. v \in shm_bitmap \ N /\ flowop[v].name = flowop[w].target
        BY <1>5, <1>7, <2>1, <2>7
      <3>2. pos[a] <= pos[v] /\ (pos[v] < pos[f] => v \in q)
        BY <2>4, <3>1
      <3>3. p[v] = pos[v] /\ p[a] = pos[a] /\ pos[v] < pos[NULL]
        BY <1>5, <2>5, <3>1
      <3>4. f # NULL => p[f] = pos[f]
        BY <1>3, <1>5, <2>6
      <3> QED
        BY <3>2, <3>3, <3>4
    <2> QED
      BY <2>1, <2>3, <2>4, <2>6, <2>7 DEF Targets, a, q
  <1>15. R \subseteq shm_bitmap' /\ M \subseteq shm_bitmap'
    BY <1>0, <1>2, <1>3
  <1>16. Ghost(p, R, T, M, Q)'
    BY <1>3, <1>4, <1>6, <1>8, <1>10, <1>11, <1>12, <1>13, <1>14, <1>15 DEF Ghost
  <1> QED
    BY <1>16

\* The steps that look targets up, or copy them.
LEMMA LookupTargets ==
  ASSUME PoolOK, Shape, SlotInv, PhaseInv, TargetInv, raced = {}, ~f_abort,
         raced' = {}, ~f_abort', late' = late, looked' = looked, NEW t \in Threads,
         \/ FindLock(t) \/ Walk(t) \/ Found(t)
         \/ (CopyRead(t) /\ cur[t] # NULL) \/ CopyStore(t) \/ CopyFollow(t)
  PROVE  TargetInv'
  <1>1. /\ pc[t] \in {"find", "walk"} \cup CopyPcs
        /\ UNCHANGED <<privateVars, posVars>>
        /\ \A u \in Threads \ {t} : pc'[u] = pc[u]
    BY DEF FindLock, Walk, Found, CopyRead, CopyStore, CopyFollow, CopyPcs, Shape
  <1>2. PICK w : w = At(t)
    OBVIOUS
  <1>3. HasGhost /\ looked /\ w \in Slots
    BY <1>1, <1>2, Working
  <1>4. PICK pos, R, T, N, Q : Q \in [Slots -> SUBSET Slots] /\ Ghost(pos, R, T, N, Q)
    BY <1>3 DEF HasGhost
  <1>5. \A u \in Threads : At(u)' = At(u)
    BY <1>1 DEF At, privateVars, posVars
  <1>6. HasGhost'
    <2>1. CASE FindLock(t)
      BY <1>4, <2>1, LookupStarts DEF HasGhost
    <2>2. CASE Walk(t)
      <3>1. PICK S : Ghost(pos, S, T, N, Q)'
        BY <1>4, <2>2, LookupGoesOn
      <3> QED
        BY <1>4, <3>1 DEF HasGhost
    <2>3. CASE Found(t)
      <3>1. res[t] # NULL
        BY <2>3 DEF Found
      <3>2. PICK P : P = [Q EXCEPT ![w] = {}]
        OBVIOUS
      <3>3. Ghost(pos, R, T, N, P)'
        BY <1>2, <1>4, <2>3, <3>1, <3>2, LookupEnds
      <3>4. P \in [Slots -> SUBSET Slots]
        BY <1>3, <1>4, <3>2
      <3> QED
        BY <3>3, <3>4 DEF HasGhost
    <2>4. CASE CopyRead(t) /\ cur[t] # NULL
      BY <1>4, <2>4, CopyReads DEF HasGhost
    <2>5. CASE CopyStore(t)
      <3>1. PICK U : Ghost(pos, R, U, N, Q)'
        BY <1>4, <2>5, CopyStores
      <3> QED
        BY <1>4, <3>1 DEF HasGhost
    <2>6. CASE CopyFollow(t)
      <3>1. PICK P : P \in [Slots -> SUBSET Slots] /\ Ghost(pos, R, T, N, P)'
        BY <1>4, <2>6, CopyFollows
      <3> QED
        BY <3>1 DEF HasGhost
    <2> QED
      BY <2>1, <2>2, <2>3, <2>4, <2>5, <2>6
  <1>7. ASSUME NEW u \in Threads, pc'[u] \in CopyPcs \cup {"wake"} PROVE fo_targets'[At(u)'] # NULL
    <2>1. \A x \in Threads : pc[x] \in CopyPcs \cup {"wake"} => fo_targets[At(x)] # NULL
      BY DEF TargetInv
    <2>2. CASE Found(t)
      <3>1. /\ fo_targets' = [fo_targets EXCEPT ![w] = res[t]] /\ res[t] # NULL
        BY <1>2, <2>2 DEF Found
      <3>2. PICK x : x = At(u)
        OBVIOUS
      <3>3. x = w => fo_targets'[x] # NULL
        BY <1>3, <3>1 DEF Shape
      <3>4. x # w => fo_targets'[x] = fo_targets[x]
        BY <3>1
      <3>5. x # w => u # t
        BY <1>2, <3>2
      <3>6. x # w => fo_targets[x] # NULL
        BY <1>1, <1>7, <2>1, <3>2, <3>5
      <3> QED
        BY <1>5, <3>2, <3>3, <3>4, <3>6
    <2>3. CASE ~Found(t)
      <3>1. fo_targets' = fo_targets
        BY <2>3 DEF FindLock, Walk, CopyRead, CopyStore, CopyFollow, findVars
      <3>2. pc[u] \in CopyPcs \cup {"wake"}
        <4>1. CASE u = t
          BY <1>7, <2>3, <4>1 DEF FindLock, Walk, CopyRead, CopyStore, CopyFollow, CopyPcs, Shape
        <4> QED
          BY <1>1, <1>7, <4>1
      <3>3. fo_targets[At(u)] # NULL
        BY <2>1, <3>2
      <3> QED
        BY <1>5, <3>1, <3>3
    <2> QED
      BY <2>2, <2>3
  <1> QED
    BY <1>3, <1>6, <1>7 DEF TargetInv

\* Creating a flowop changes the target lists of none.
LEMMA DefineTargets ==
  ASSUME PoolOK, Shape, SlotInv, PhaseInv, TargetInv, raced = {}, ~f_abort,
         late' = late, looked' = looked, NEW t \in Threads, Define(t)
  PROVE  TargetInv'
  <1>1. PICK s : s = ipc_malloc
    OBVIOUS
  <1>2. /\ pc[t] = "create" /\ pc'[t] \in {"create", "loop"} /\ s \in Slots \ shm_bitmap
        /\ \A u \in Threads \ {t} : pc'[u] = pc[u] /\ cur'[u] = cur[u] /\ res'[u] = res[u]
        /\ \A u \in Threads : pc[u] \in LoopPcs => At(u)' = At(u)
        /\ \A u \in Threads : \A w \in Slots : HasTargets(u, w)' =>
             w # s /\ HasTargets(u, w) /\ fo_targets'[w] = fo_targets[w]
    BY <1>1, DefineOwns
  <1>3. ASSUME looked' PROVE HasGhost'
    <2>1. PICK pos, R, T, N, Q : Q \in [Slots -> SUBSET Slots] /\ Ghost(pos, R, T, N, Q)
      BY <1>3 DEF TargetInv, HasGhost
    <2>2. PICK p, M : Ghost(p, R, T, M, Q)'
      BY <1>3, <2>1, GhostDefine
    <2> QED
      BY <2>1, <2>2 DEF HasGhost
  <1>4. ASSUME ~looked', NEW u \in Threads, NEW w \in Slots PROVE ~HasTargets(u, w)'
    BY <1>2, <1>4 DEF TargetInv
  <1>5. ASSUME NEW u \in Threads, pc'[u] \in CopyPcs \cup {"wake"} PROVE fo_targets'[At(u)'] # NULL
    <2>1. u # t /\ pc[u] \in CopyPcs \cup {"wake"} /\ pc[u] \in LoopPcs /\ pc[u] # "exited"
      BY <1>2, <1>5 DEF CopyPcs, LoopPcs
    <2>2. PICK x : x = At(u)
      OBVIOUS
    <2>3. x \in shm_bitmap
      BY <2>1, <2>2, OwnsItsOwn
    <2>4. fo_targets' = [fo_targets EXCEPT ![s] = NULL]
      BY <1>1 DEF Define
    <2>5. fo_targets[x] # NULL
      BY <2>1, <2>2 DEF TargetInv
    <2> QED
      BY <1>2, <2>1, <2>2, <2>3, <2>4, <2>5
  <1> QED
    BY <1>3, <1>4, <1>5 DEF TargetInv

\* The other steps of a thread before the abort.
LEMMA OtherTargets ==
  ASSUME PoolOK, Shape, SlotInv, ListInv, PhaseInv, TargetInv, raced = {}, ~f_abort,
         raced' = {}, ~f_abort', NEW t \in Threads,
         \/ TakeFindLock(t) \/ flowop_find_barrier(t)
         \/ /\ UNCHANGED barrierVars
            /\ \/ CreateLock(t) \/ DefineFails(t) \/ Composite(t) \/ Block(t) \/ Wakeup(t)
               \/ (CopyRead(t) /\ cur[t] = NULL) \/ Broadcast(t) \/ WakeupDone(t)
  PROVE  TargetInv'
  <1> USE DEF barrierVars, poolVars, listVars, posVars, runVars
  <1>1. CASE TakeFindLock(t)
    <2>1. /\ pc[t] = "start" /\ pc' = [pc EXCEPT ![t] = "held"] /\ late \subseteq late'
          /\ UNCHANGED <<shm_bitmap, shm_flowoplist, fo_next, flowop, findVars, privateVars,
                         looked, ip, jp, cur, res, f_abort>>
      BY <1>1 DEF TakeFindLock
    <2> QED
      BY <2>1, QuietTargets DEF Shape, CopyPcs
  <1>2. CASE flowop_find_barrier(t)
    <2>1. /\ pc[t] = "barrier" /\ pc' = [pc EXCEPT ![t] = "find"] /\ late' = late /\ looked'
          /\ UNCHANGED <<shm_bitmap, shm_flowoplist, fo_next, flowop, findVars, privateVars,
                         ip, jp, cur, res, f_abort>>
      BY <1>2 DEF flowop_find_barrier
    <2>2. HasGhost
      <3>1. CASE looked
        BY <3>1 DEF TargetInv
      <3>2. CASE ~looked
        <4>1. \A u \in Threads : \A w \in Slots : ~HasTargets(u, w)
          BY <3>2 DEF TargetInv
        <4> QED
          BY <3>2, <4>1, FreshGhost
      <3> QED
        BY <3>1, <3>2
    <2> QED
      BY <2>1, <2>2, QuietTargets DEF Shape, CopyPcs
  <1>3. CASE UNCHANGED barrierVars /\ (CreateLock(t) \/ Block(t))
    <2>1. /\ pc[t] \in {"held", "loop"} /\ pc'[t] \in {"create", "blocked"}
          /\ \A u \in Threads \ {t} : pc'[u] = pc[u]
          /\ UNCHANGED <<shm_bitmap, shm_flowoplist, fo_next, flowop, findVars, privateVars,
                         looked, late, ip, jp, cur, res, f_abort>>
      BY <1>3 DEF CreateLock, Block, Calls, Shape
    <2> QED
      BY <2>1, QuietTargets DEF CopyPcs
  <1>4. CASE UNCHANGED barrierVars /\ DefineFails(t)
    <2>1. /\ pc[t] = "create" /\ pc'[t] \in {"create", "loop", "exited"}
          /\ \A u \in Threads \ {t} : pc'[u] = pc[u] /\ ip'[u] = ip[u] /\ jp'[u] = jp[u]
          /\ UNCHANGED <<shm_bitmap, shm_flowoplist, fo_next, flowop, findVars, privateVars,
                         looked, late, cur, res, f_abort>>
      BY <1>4 DEF DefineFails, GoOn, Shape
    <2> QED
      BY <2>1, QuietTargets DEF CopyPcs
  <1>5. CASE UNCHANGED barrierVars /\ (Composite(t) \/ WakeupDone(t))
    <2>1. /\ pc[t] \in {"loop", "wake"} /\ pc'[t] = "loop"
          /\ \A u \in Threads \ {t} : pc'[u] = pc[u] /\ ip'[u] = ip[u] /\ jp'[u] = jp[u]
          /\ UNCHANGED <<shm_bitmap, shm_flowoplist, fo_next, flowop, findVars, privateVars,
                         looked, late, cur, res, f_abort>>
      BY <1>5 DEF Composite, WakeupDone, Calls, AdvanceAll, Shape
    <2> QED
      BY <2>1, QuietTargets DEF CopyPcs
  <1>6. CASE UNCHANGED barrierVars /\ Wakeup(t)
    <2>1. /\ pc[t] = "loop" /\ pc'[t] \in {"barrier", "wake"}
          /\ pc'[t] = "wake" => fo_targets[At(t)] # NULL
          /\ \A u \in Threads \ {t} : pc'[u] = pc[u] /\ cur'[u] = cur[u]
          /\ UNCHANGED <<shm_bitmap, shm_flowoplist, fo_next, flowop, findVars, privateVars,
                         looked, late, ip, jp, res, f_abort>>
      BY <1>6 DEF Wakeup, Calls, Shape
    <2> QED
      BY <2>1, QuietTargets DEF CopyPcs
  <1>7. CASE UNCHANGED barrierVars /\ CopyRead(t) /\ cur[t] = NULL
    <2>1. /\ pc[t] = "copy" /\ pc'[t] = "wake"
          /\ \A u \in Threads \ {t} : pc'[u] = pc[u] /\ cur'[u] = cur[u]
          /\ UNCHANGED <<shm_bitmap, shm_flowoplist, fo_next, flowop, findVars, privateVars,
                         looked, late, ip, jp, res, f_abort>>
      BY <1>7 DEF CopyRead, Shape
    <2> QED
      BY <2>1, <1>7, QuietTargets DEF CopyPcs
  <1>8. CASE UNCHANGED barrierVars /\ Broadcast(t)
    <2>1. PICK woken : /\ \A u \in woken : u \in Threads /\ pc[u] = "blocked"
                       /\ pc' = [u \in Threads |-> IF u \in woken THEN "loop" ELSE pc[u]]
                       /\ AdvanceAll(woken)
      BY <1>8 DEF Broadcast
    <2>2. /\ pc[t] = "wake"
          /\ \A u \in Threads \ {t} : cur'[u] = cur[u]
          /\ UNCHANGED <<shm_bitmap, shm_flowoplist, fo_next, flowop, findVars, privateVars,
                         looked, late, res, f_abort>>
      BY <1>8 DEF Broadcast, Shape
    <2>3. \A u \in Threads : \/ pc[u] = "blocked" /\ pc'[u] = "loop"
                             \/ pc'[u] = pc[u] /\ ip'[u] = ip[u] /\ jp'[u] = jp[u]
      BY <2>1 DEF AdvanceAll
    <2> QED
      BY <2>2, <2>3, QuietTargets DEF CopyPcs
  <1> QED
    BY <1>1, <1>2, <1>3, <1>4, <1>5, <1>6, <1>7, <1>8

\* The target lists are kept by every step up to the abort.
LEMMA TargetStep ==
  ASSUME PoolOK, Shape, SlotInv, ListInv, PhaseInv, TargetInv, [Next]_vars
  PROVE  TargetInv'
  <1> SUFFICES ASSUME raced' = {}, ~f_abort' PROVE TargetInv'
    BY DEF TargetInv
  <1>1. CASE NextRun
    <2>1. /\ tf_thrd_fops' = [u \in Threads |-> <<>>] /\ pc' = [u \in Threads |-> "start"] /\ ~looked'
      BY <1>1 DEF NextRun
    <2>2. \A u \in Threads : \A w : ~Owns(u, w)'
      BY <2>1 DEF Owns
    <2> QED
      BY <2>1, <2>2 DEF TargetInv, HasTargets, CopyPcs
  <1>2. ASSUME ~NextRun PROVE raced = {} /\ ~f_abort
    <2>1. CASE \E t \in Threads : Step(t)
      <3>1. PICK t \in Threads : Step(t)
        BY <2>1
      <3>2. \/ TakeFindLock(t) \/ flowop_find_barrier(t) \/ CreateLock(t) \/ Define(t) \/ DefineFails(t)
            \/ Composite(t) \/ Block(t) \/ Wakeup(t) \/ FindLock(t) \/ Walk(t) \/ Found(t)
            \/ CopyRead(t) \/ CopyStore(t) \/ CopyFollow(t) \/ Broadcast(t) \/ WakeupDone(t)
            \/ Leave(t) \/ Destruct(t) \/ Delete(t) \/ Seek(t) \/ Unlink(t) \/ Free(t)
            \/ NextInner(t) \/ DeletedAll(t)
        BY <3>1 DEF Step, Flow
      <3>3. raced \subseteq raced'
        BY <3>2 DEF TakeFindLock, flowop_find_barrier, CreateLock, Define, DefineFails,
             Composite, Block, Wakeup, FindLock, Walk, Found, CopyRead, CopyStore, CopyFollow,
             Broadcast, WakeupDone, Leave, Destruct, Delete, Seek, Unlink, Free, NextInner,
             DeletedAll, listVars
      <3>4. f_abort => f_abort'
        BY <3>2 DEF TakeFindLock, flowop_find_barrier, CreateLock, Define, DefineFails,
             Composite, Block, Wakeup, FindLock, Walk, Found, CopyRead, CopyStore, CopyFollow,
             Broadcast, WakeupDone, Leave, Destruct, Delete, Seek, Unlink, Free, NextInner,
             DeletedAll, runVars
      <3> QED
        BY <3>3, <3>4
    <2>2. CASE (\E t \in Threads : Kill(t)) \/ AllStarted \/ Abort \/ UNCHANGED vars
      BY <2>2 DEF Kill, AllStarted, Abort, vars, listVars, runVars
    <2> QED
      BY <1>2, <2>1, <2>2 DEF Next
  <1>3. ASSUME NEW t \in Threads, Step(t), raced = {}, ~f_abort PROVE TargetInv'
    <2>1. CASE \/ FindLock(t) \/ Walk(t) \/ Found(t)
               \/ (CopyRead(t) /\ cur[t] # NULL) \/ CopyStore(t) \/ CopyFollow(t)
      <3>1. UNCHANGED barrierVars
        BY <1>3, <2>1 DEF Step, TakeFindLock, flowop_find_barrier, FindLock, Walk, Found,
             CopyRead, CopyStore, CopyFollow
      <3> QED
        BY <1>3, <2>1, <3>1, LookupTargets DEF barrierVars
    <2>2. CASE Define(t)
      <3>1. UNCHANGED barrierVars
        BY <1>3, <2>2 DEF Step, TakeFindLock, flowop_find_barrier, Define
      <3> QED
        BY <1>3, <2>2, <3>1, DefineTargets DEF barrierVars
    <2>3. CASE \/ Leave(t) \/ Destruct(t) \/ Delete(t) \/ Seek(t) \/ Unlink(t) \/ Free(t)
               \/ NextInner(t) \/ DeletedAll(t)
      BY <1>3, <2>3 DEF PhaseInv, DeletePcs, Leave, Destruct, Delete, Seek, Unlink, Free,
           NextInner, DeletedAll
    <2> QED
      BY <1>3, <2>1, <2>2, <2>3, OtherTargets DEF Step, Flow
  <1>4. ASSUME (\E t \in Threads : Kill(t)) \/ AllStarted \/ Abort, raced = {}, ~f_abort,
               UNCHANGED barrierVars
        PROVE  TargetInv'
    <2>1. AllStarted
      BY <1>4 DEF Kill, Abort
    <2>2. UNCHANGED <<shm_bitmap, shm_flowoplist, fo_next, flowop, findVars, privateVars,
                      looked, late, pc, ip, jp, cur, res, f_abort>>
      BY <1>4, <2>1 DEF AllStarted, poolVars, listVars, posVars, barrierVars
    <2>3. raced \subseteq raced' /\ f_abort' = f_abort
      BY <1>4, <2>2
    <2> QED
      BY <2>2, <2>3, QuietTargets DEF CopyPcs
  <1>5. CASE UNCHANGED vars
    <2>1. UNCHANGED <<shm_bitmap, shm_flowoplist, fo_next, flowop, findVars, privateVars,
                      looked, late, pc, ip, jp, cur, res, f_abort, raced>>
      BY <1>5 DEF vars, poolVars, listVars, posVars, barrierVars, runVars
    <2> QED
      BY <2>1, QuietTargets DEF CopyPcs
  <1> QED
    BY <1>1, <1>2, <1>3, <1>4, <1>5 DEF Next

\* There are no target lists at the start.
LEMMA TargetInit ==
  ASSUME Init
  PROVE  TargetInv
  <1>1. ~looked /\ \A u \in Threads : pc[u] = "start" /\ tf_thrd_fops[u] = <<>>
    BY DEF Init
  <1>2. \A u \in Threads : \A w : ~Owns(u, w)
    BY <1>1 DEF Owns
  <1> QED
    BY <1>1, <1>2 DEF TargetInv, HasTargets, CopyPcs

\* The flowops, the global list, the phases and the target lists, at all times.
THEOREM TargetsInvariant ==
  Spec => [](PoolOK /\ Shape /\ SlotInv /\ ListInv /\ PhaseInv /\ TargetInv)
  <1> DEFINE I == PoolOK /\ Shape /\ SlotInv /\ ListInv /\ PhaseInv /\ TargetInv
  <1>1. Init => I
    BY SlotInit, ListInit, PhaseInit, TargetInit
  <1>2. I /\ [Next]_vars => I'
    <2> SUFFICES ASSUME I, [Next]_vars PROVE I'
      OBVIOUS
    <2>1. PoolOK' /\ Shape' /\ SlotInv' /\ ListInv' /\ PhaseInv'
      BY ShapeStep, SlotStep, ListStep, PhaseStep
    <2> QED
      BY <2>1, TargetStep
  <1> QED
    BY <1>1, <1>2, PTL DEF Spec

\* A list whose links go up to v, within q, comes by v.
LEMMA Reaches ==
  ASSUME NEW q \in SUBSET Slots, NEW pos, \A x \in q : pos[x] \in Nat, NEW next,
         NEW a \in q, NEW v \in q,
         \A x \in q : pos[x] = pos[v] => x = v,
         pos[a] <= pos[v],
         \A x \in q : pos[x] < pos[v] => /\ next[x] \in q
                                         /\ pos[x] < pos[next[x]] /\ pos[next[x]] <= pos[v]
  PROVE  v \in OnChain(a, next)
  <1> DEFINE c == Chain(a, next)
             B == {k \in 0..NSlots : ~(c[k] \in q /\ pos[c[k]] < pos[v])}
  <1>1. NSlots \in Nat \ {0} /\ NULL \notin Slots
    BY ProgramAssumption
  <1>2. OnChain(a, next) = {c[k] : k \in 0..NSlots} \ {NULL}
    BY DEF OnChain
  <1>3. Follows(c, a, next)
    BY ChainSteps
  <1> HIDE DEF c
  <1>4. /\ c[0] = a
        /\ \A k \in 1..NSlots : c[k] = IF c[k - 1] = NULL THEN NULL ELSE next[c[k - 1]]
    BY <1>3 DEF Follows
  <1> SUFFICES ASSUME \A k \in 0..NSlots : c[k] # v PROVE FALSE
    BY <1>1, <1>2
  <1>5. B = {}
    <2> SUFFICES ASSUME B # {} PROVE FALSE
      OBVIOUS
    <2>1. B \in SUBSET Nat
      BY <1>1
    <2>2. PICK k \in B : \A j \in B : k <= j
      BY <2>1, Least
    <2>3. k \in 0..NSlots /\ ~(c[k] \in q /\ pos[c[k]] < pos[v])
      BY <2>2
    <2>4. k # 0
      <3>1. a # v /\ 0 \in 0..NSlots
        BY <1>1, <1>4
      <3> QED
        BY <1>4, <2>3, <3>1
    <2>5. k - 1 \in 0..NSlots /\ k - 1 < k /\ k \in 1..NSlots
      BY <1>1, <2>3, <2>4
    <2>6. k - 1 \notin B
      BY <2>1, <2>2, <2>5
    <2>7. PICK x \in q : x = c[k - 1] /\ pos[x] < pos[v]
      BY <2>5, <2>6
    <2>8. c[k] = next[x] /\ next[x] \in q /\ pos[next[x]] <= pos[v]
      BY <1>1, <1>4, <2>5, <2>7
    <2>9. next[x] # v
      BY <2>3, <2>8
    <2>10. pos[next[x]] < pos[v]
      BY <2>8, <2>9
    <2> QED
      BY <2>3, <2>8, <2>10
  <1>6. \A k \in 0..NSlots : c[k] \in q /\ pos[c[k]] < pos[v] /\ c[k] # NULL /\ pos[c[k]] \in Nat
    BY <1>1, <1>5
  <1> HIDE DEF B
  <1>7. \A k \in 1..NSlots : pos[c[k - 1]] < pos[c[k]]
    <2> TAKE k \in 1..NSlots
    <2>1. k - 1 \in 0..NSlots /\ k \in 0..NSlots
      BY <1>1
    <2>2. c[k] = next[c[k - 1]]
      BY <1>4, <1>6, <2>1
    <2> QED
      BY <1>6, <2>1, <2>2
  <1>8. ASSUME NEW i \in 0..NSlots, NEW j \in 0..NSlots, i < j PROVE pos[c[i]] < pos[c[j]]
    <2> DEFINE D == {k \in 0..NSlots : i < k /\ ~(pos[c[i]] < pos[c[k]])}
    <2> SUFFICES ASSUME D # {} PROVE FALSE
      BY <1>8
    <2>1. D \in SUBSET Nat
      BY <1>1
    <2>2. PICK k \in D : \A l \in D : k <= l
      BY <2>1, Least
    <2>3. k \in 1..NSlots /\ k - 1 \in 0..NSlots /\ i < k /\ k - 1 < k /\ k \in 0..NSlots
      BY <1>1, <2>2
    <2>4. k - 1 \notin D
      BY <2>1, <2>2, <2>3
    <2>5. k - 1 = i \/ pos[c[i]] < pos[c[k - 1]]
      BY <2>3, <2>4
    <2>6. pos[c[i]] < pos[c[k]]
      <3>1. pos[c[k - 1]] < pos[c[k]] /\ pos[c[k]] \in Nat /\ pos[c[k - 1]] \in Nat /\ pos[c[i]] \in Nat
        BY <1>6, <1>7, <2>3
      <3> QED
        BY <2>5, <3>1
    <2> QED
      BY <2>2, <2>6
  <1> DEFINE L == [i \in 1..(NSlots + 1) |-> c[i - 1]]
  <1>9. L \in [1..(NSlots + 1) -> Slots]
    <2>1. \A i \in 1..(NSlots + 1) : i - 1 \in 0..NSlots
      BY <1>1
    <2> QED
      BY <1>6, <2>1
  <1>10. \A i \in 1..(NSlots + 1) : \A j \in 1..(NSlots + 1) : L[i] = L[j] => i = j
    <2> SUFFICES ASSUME NEW i \in 1..(NSlots + 1), NEW j \in 1..(NSlots + 1), L[i] = L[j], i # j
                 PROVE  FALSE
      OBVIOUS
    <2>1. i - 1 \in 0..NSlots /\ j - 1 \in 0..NSlots /\ (i - 1 < j - 1 \/ j - 1 < i - 1)
      BY <1>1
    <2>2. c[i - 1] = c[j - 1]
      OBVIOUS
    <2>3. pos[c[i - 1]] \in Nat
      BY <1>6, <2>1
    <2> QED
      BY <1>8, <2>1, <2>2, <2>3
  <1> HIDE DEF L
  <1>11. NSlots + 1 <= NSlots
    <2>1. PICK n \in Nat : n = NSlots + 1
      BY <1>1
    <2>2. L \in [1..n -> Slots] /\ \A i \in 1..n : \A j \in 1..n : L[i] = L[j] => i = j
      BY <1>9, <1>10, <2>1
    <2>3. n <= NSlots
      BY <2>2, FewSlots
    <2> QED
      BY <2>1, <2>3
  <1> QED
    BY <1>1, <1>11

\* The flowops of the threads of this run are in slots, and say whose they are.
LEMMA LiveOwned ==
  ASSUME SlotInv, raced = {}, NEW s \in Live
  PROVE  s \in shm_bitmap /\ s \in Slots
  <1>1. PrivateOK
    BY DEF SlotInv
  <1>2. PICK t \in Threads : /\ pc[t] # "exited"
                             /\ \/ s \in Range(tf_thrd_fops[t])
                                \/ \E o \in Range(tf_thrd_fops[t]) : s \in Range(fo_comp_fops[o])
    BY DEF Live
  <1>3. Owns(t, s) /\ s \in Slots
    <2>1. CASE s \in Range(tf_thrd_fops[t])
      <3>1. PICK i \in 1..Len(tf_thrd_fops[t]) : s = tf_thrd_fops[t][i]
        BY <1>1, <2>1 DEF PrivateOK, Range
      <3> QED
        BY <1>1, <3>1 DEF Owns, PrivateOK
    <2>2. CASE \E o \in Range(tf_thrd_fops[t]) : s \in Range(fo_comp_fops[o])
      <3>1. PICK o \in Range(tf_thrd_fops[t]) : s \in Range(fo_comp_fops[o])
        BY <2>2
      <3>2. PICK i \in 1..Len(tf_thrd_fops[t]) : o = tf_thrd_fops[t][i]
        <4>1. PICK f \in Seq(Slots) : f = tf_thrd_fops[t] /\ o \in Range(f)
          BY <1>1, <3>1 DEF PrivateOK
        <4>2. \E i \in 1..Len(f) : o = f[i]
          BY <4>1 DEF Range
        <4> QED
          BY <4>1, <4>2
      <3>3. fo_comp_fops[o] \in Seq(Slots)
        BY <1>1, <3>2 DEF PrivateOK
      <3>4. PICK j \in 1..Len(fo_comp_fops[o]) : s = fo_comp_fops[o][j]
        BY <3>1, <3>3 DEF Range
      <3> QED
        BY <3>2, <3>3, <3>4 DEF Owns, Inner
    <2> QED
      BY <1>2, <2>1, <2>2
  <1> QED
    BY <1>2, <1>3, OwnsItsOwn

\* The target list of a wakeup leads to every flowop of that name that a thread has
\* which took the find lock before the first look-up of the run passed the barrier,
\* for any programs, threads and slots: although the links are shared by all
\* look-ups and copied without a lock, they never lead past one of these, as long
\* as no unlocked deletion has met another update of the global list.
THEOREM WakeupTargetsComplete == Spec => []TargetsComplete
  <1>1. PoolOK /\ Shape /\ SlotInv /\ ListInv /\ PhaseInv /\ TargetInv => TargetsComplete
    <2> SUFFICES ASSUME PoolOK, SlotInv, TargetInv, NEW t \in Threads, pc[t] = "wake", raced = {},
                        ~f_abort, NEW v \in Live, flowop[v].name = flowop[At(t)].target,
                        flowop[v].thread \notin late
                 PROVE  v \in OnChain(fo_targets[At(t)], fo_targetnext)
      BY DEF TargetsComplete
    <2>1. PICK w : w = At(t)
      OBVIOUS
    <2>2. w \in Slots /\ HasTargets(t, w)
      <3>1. Owns(t, w) /\ w \in shm_bitmap
        BY <2>1, OwnsItsOwn DEF LoopPcs
      <3>2. fo_targets[w] # NULL
        BY <2>1 DEF TargetInv
      <3> QED
        BY <3>1, <3>2 DEF HasTargets, PoolOK
    <2>3. HasGhost
      BY <2>2 DEF TargetInv
    <2>4. PICK pos, R, T, N, Q : Q \in [Slots -> SUBSET Slots] /\ Ghost(pos, R, T, N, Q)
      BY <2>3 DEF HasGhost
    <2>5. PICK q, a : q = Q[w] /\ a = fo_targets[w] /\ q \in SUBSET Slots
      BY <2>2, <2>4
    <2>6. /\ pos \in [Slots \cup {NULL} -> Nat \ {0}] /\ R \subseteq shm_bitmap /\ T \subseteq R
          /\ shm_bitmap \subseteq Slots /\ NULL \notin Slots
          /\ \A x \in shm_bitmap : pos[x] < pos[NULL] /\ \A y \in shm_bitmap : pos[x] = pos[y] => x = y
          /\ \A x \in N : flowop[x].thread \in late /\ \A y \in shm_bitmap \ N : pos[y] < pos[x]
          /\ \A x \in T : GoodLink(pos, N, R, x, fo_targetnext[x])
      BY <2>4, ProgramAssumption DEF Ghost, PoolOK, ListBelow
    <2>7. Frontier(t, w) = NULL /\ a # NULL
      BY <2>2, <2>5 DEF Frontier, HasTargets, CopyPcs
    <2>8. /\ a \in q
          /\ \A x \in q : x \in T /\ flowop[x].name = flowop[w].target
          /\ \A y \in shm_bitmap \ N : flowop[y].name = flowop[w].target =>
               pos[a] <= pos[y] /\ (pos[y] < pos[NULL] => y \in q)
      <3>1. Targets(w, NULL, pos, N, R, T, q)
        BY <2>2, <2>4, <2>5, <2>7 DEF Ghost
      <3> QED
        BY <2>5, <2>7, <3>1 DEF Targets
    <2>9. v \in shm_bitmap \ N /\ flowop[v].name = flowop[w].target
      BY <2>1, <2>6, LiveOwned
    <2>10. v \in q /\ pos[a] <= pos[v] /\ \A x \in q : pos[x] \in Nat /\ (pos[x] = pos[v] => x = v)
      BY <2>6, <2>8, <2>9
    <2>11. ASSUME NEW x \in q, pos[x] < pos[v]
           PROVE  /\ fo_targetnext[x] \in q
                  /\ pos[x] < pos[fo_targetnext[x]] /\ pos[fo_targetnext[x]] <= pos[v]
      <3>1. PICK y : y = fo_targetnext[x]
        OBVIOUS
      <3>2. x \in T /\ flowop[x].name = flowop[v].name /\ GoodLink(pos, N, R, x, y)
        BY <2>6, <2>8, <2>9, <3>1
      <3>3. /\ y \in R \cup {NULL} /\ (y # NULL => flowop[y].name = flowop[x].name) /\ pos[x] < pos[y]
            /\ pos[v] < pos[y] => y = NULL /\ v \in N
        BY <2>9, <2>11, <3>2 DEF GoodLink
      <3>4. ~(pos[v] < pos[y]) /\ pos[v] < pos[NULL]
        BY <2>6, <2>9, <3>3
      <3>5. y # NULL /\ y \in shm_bitmap
        BY <2>6, <3>3, <3>4
      <3>6. pos[y] \in Nat /\ pos[v] \in Nat
        BY <2>6, <2>9, <3>5
      <3>7. y \notin N
        BY <2>6, <2>9, <3>4
      <3>8. y \in q
        BY <2>6, <2>8, <2>9, <3>2, <3>3, <3>5, <3>7
      <3> QED
        BY <3>1, <3>3, <3>4, <3>6, <3>8
    <2>12. v \in OnChain(a, fo_targetnext)
      BY <2>5, <2>8, <2>10, <2>11, Reaches
    <2> QED
      BY <2>1, <2>5, <2>12
  <1> QED
    BY <1>1, TargetsInvariant, PTL
=============================================================================
