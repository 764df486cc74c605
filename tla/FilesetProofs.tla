--------------------------- MODULE FilesetProofs ---------------------------
(***************************************************************************)
(* Proofs about Fileset, for any numbers of files, directories, threads,   *)
(* descriptor slots and flowops.                                           *)
(*                                                                         *)
(* The inductive invariant IInv joins what cannot be proved apart: that    *)
(* the idle counts are natural numbers (TypeOK) rests on IdleCountCovers,  *)
(* which rests on FSE_BUSY being exclusive, which rests on where each      *)
(* thread is in its flowop (PcEnt).                                        *)
(***************************************************************************)
EXTENDS Fileset, FiniteSetTheorems, TLAPS

\* What a thread's place in its flowop says of the entry it works on.
PcEnt ==
  \A t \in Threads :
    /\ pc[t] \in {"loop", "pick"} => ent[t] = NULL
    /\ pc[t] = "grab" => ent[t] \in Files /\ op[t] \in {"closefile", "deletefile"}
    /\ pc[t] \in {"held", "unbusy"} => ent[t] \in OfKind(OpKind(op[t]))
    /\ t \in thrd_wait_cv => pc[t] = "grab"

\* The inductive invariant.
IInv ==
  /\ TypeOK
  /\ PcEnt
  /\ BusyIsExclusive
  /\ IdleCountCovers
  /\ BusyWaiterWillBeWoken

-----------------------------------------------------------------------------
(* Counting the entries that are not busy.                                 *)

\* The entries of a type are finitely many, those not busy among them.
LEMMA KindsFinite ==
  ASSUME NEW k \in Kind
  PROVE  /\ IsFiniteSet(OfKind(k)) /\ IsFiniteSet(NotBusy(k))
         /\ Cardinality(OfKind(k)) \in Nat /\ Cardinality(NotBusy(k)) \in Nat
<1>1. IsFiniteSet(OfKind(k))
  BY EntriesAssumption DEF Kind, OfKind
<1>2. IsFiniteSet(NotBusy(k))
  BY <1>1, FS_Subset DEF NotBusy
<1> QED
  BY <1>1, <1>2, FS_CardinalityType

\* The types are disjoint, and KindOf() finds an entry's.
LEMMA KindsDisjoint ==
  /\ \A e \in Entries : KindOf(e) \in Kind /\ e \in OfKind(KindOf(e))
  /\ \A j, k \in Kind, e \in Entries : e \in OfKind(j) /\ e \in OfKind(k) => j = k
  /\ \A k \in Kind : OfKind(k) \subseteq Entries
  BY EntriesAssumption DEF Kind, OfKind, KindOf, Entries

\* Claiming an entry takes one off the number of its type that are not busy.
LEMMA ClaimCounts ==
  ASSUME NEW k \in Kind, NEW e \in OfKind(k), e \notin fse_busy,
         fse_busy' = fse_busy \cup {e}
  PROVE  /\ Cardinality(NotBusy(k)') = Cardinality(NotBusy(k)) - 1
         /\ Cardinality(NotBusy(k)) >= 1
         /\ \A j \in Kind \ {k} : NotBusy(j)' = NotBusy(j)
<1>1. e \in NotBusy(k) /\ NotBusy(k)' = NotBusy(k) \ {e}
  BY DEF NotBusy
<1>2. Cardinality(NotBusy(k) \ {e}) = Cardinality(NotBusy(k)) - 1
  BY <1>1, KindsFinite, FS_RemoveElement
<1>3. Cardinality(NotBusy(k) \ {e}) \in Nat
  BY <1>1, KindsFinite, FS_RemoveElement, FS_CardinalityType
<1>4. \A j \in Kind \ {k} : NotBusy(j)' = NotBusy(j)
  BY KindsDisjoint DEF NotBusy
<1> QED
  BY <1>1, <1>2, <1>3, <1>4, KindsFinite

\* Releasing an entry adds one to it.
LEMMA ReleaseCounts ==
  ASSUME NEW e \in Entries, e \in fse_busy, fse_busy' = fse_busy \ {e}
  PROVE  /\ Cardinality(NotBusy(KindOf(e))') = Cardinality(NotBusy(KindOf(e))) + 1
         /\ \A j \in Kind \ {KindOf(e)} : NotBusy(j)' = NotBusy(j)
<1> DEFINE k == KindOf(e)
<1>1. k \in Kind /\ e \in OfKind(k)
  BY KindsDisjoint
<1>2. e \notin NotBusy(k) /\ NotBusy(k)' = NotBusy(k) \cup {e}
  BY <1>1 DEF NotBusy
<1>3. Cardinality(NotBusy(k) \cup {e}) = Cardinality(NotBusy(k)) + 1
  BY <1>1, <1>2, KindsFinite, FS_AddElement
<1>4. \A j \in Kind \ {k} : NotBusy(j)' = NotBusy(j)
  BY <1>1, KindsDisjoint DEF NotBusy
<1> QED
  BY <1>2, <1>3, <1>4

-----------------------------------------------------------------------------
(* Steps outside fs_pick_lock: they touch the thread's own state and disk. *)

\* A step of t that leaves the shared state of the fileset, and what every
\* thread has claimed, alone.
LocalStep(t) ==
  /\ UNCHANGED coreVars
  /\ pc[t] # "grab"
  /\ \A u \in Threads \ {t} : pc'[u] = pc[u] /\ ent'[u] = ent[u]
  /\ \/ ent'[t] = ent[t] /\ pc'[t] # "grab"
     \/ ent[t] = NULL /\ pc'[t] = "grab" /\ ent'[t] \in Files

\* A step that leaves the shared state alone keeps its types.
LEMMA CoreUnchanged ==
  ASSUME CoreTypeOK, UNCHANGED coreVars
  PROVE  CoreTypeOK'
  BY DEF CoreTypeOK, coreVars, flagVars, claimVars

\* Setting one slot of one thread keeps a table of slots of its type.
LEMMA SlotUpdate ==
  ASSUME NEW S, NEW f \in [Threads -> [Fds -> S]], NEW t \in Threads, NEW fd, NEW v \in S
  PROVE  [f EXCEPT ![t][fd] = v] \in [Threads -> [Fds -> S]]
<1>1. [f[t] EXCEPT ![fd] = v] \in [Fds -> S]
  OBVIOUS
<1>2. [f EXCEPT ![t] = [f[t] EXCEPT ![fd] = v]] \in [Threads -> [Fds -> S]]
  BY <1>1
<1> QED
  BY <1>2

\* Beginning a flowop keeps the types of what it sets.
LEMMA BeginTypes ==
  ASSUME FlowTypeOK, NEW t \in Threads, NEW o, NEW fd \in Nat, Begin(t, o, fd)
  PROVE  /\ pc[t] = "loop"
         /\ started' \in [Threads -> 0..MaxFlowops]
         /\ op' \in [Threads -> AllOps]
         /\ fdn' \in [Threads -> Nat]
  BY FlowopAssumption DEF Begin, FlowTypeOK

\* Starting a flowop is a local step, and keeps the types.
LEMMA StartIsLocal ==
  ASSUME TypeOK, PcEnt, NEW t \in Threads, StartFlowop(t)
  PROVE  TypeOK' /\ PcEnt' /\ LocalStep(t)
<1> USE FlowopAssumption, NullAssumption
<1> DEFINE
      Rest == /\ pc' \in [Threads -> {"loop", "pick", "grab", "held", "unbusy", "exit", "segv"}]
              /\ ent' \in [Threads -> Entries \cup {NULL}]
              /\ tf_fse' \in [Threads -> [Fds -> Files \cup {NULL}]]
              /\ f_abort' \in {"ok", "error", "done", "rsrc"}
              /\ UNCHANGED <<call, tf_fd, disk>>
<1>0. FlowTypeOK /\ \A fd \in Fds \cup {0} : fd \in Nat
  BY DEF TypeOK
<1>1. ASSUME NEW fd \in Fds, openfile(t, fd) \/ createfile(t, fd) \/ readwrite(t, fd)
      PROVE  Rest /\ PcEnt' /\ LocalStep(t)
  <2>1. Rest
    BY <1>0, <1>1 DEF openfile, createfile, readwrite, GoOn, ReturnAtOnce, Return,
      FlowTypeOK, tableVars
  <2>2. PcEnt' /\ LocalStep(t)
    BY <1>0, <1>1 DEF openfile, createfile, readwrite, Begin, GoOn, ReturnAtOnce, Return,
      FlowTypeOK, PcEnt, LocalStep, coreVars, claimVars
  <2> QED BY <2>1, <2>2
<1>2. ASSUME NEW fd \in Fds, deletefile(t, fd)
      PROVE  Rest /\ PcEnt' /\ LocalStep(t)
  <2>1. Rest
    <3>1. tf_fse' \in [Threads -> [Fds -> Files \cup {NULL}]]
      <4>1. NULL \in Files \cup {NULL} /\ tf_fse \in [Threads -> [Fds -> Files \cup {NULL}]]
        BY <1>0 DEF FlowTypeOK
      <4>2. [tf_fse EXCEPT ![t][fd] = NULL] \in [Threads -> [Fds -> Files \cup {NULL}]]
        BY <4>1, SlotUpdate, Zenon
      <4> QED BY <1>2, <4>1, <4>2 DEF deletefile
    <3>2. tf_fse[t][fd] \in Files \cup {NULL}
      BY <1>0 DEF FlowTypeOK
    <3> QED
      BY <1>0, <1>2, <3>1, <3>2 DEF deletefile, GoOn, FlowTypeOK, Entries
  <2>2. PcEnt' /\ LocalStep(t)
    BY <1>0, <1>2 DEF deletefile, Begin, GoOn, FlowTypeOK, PcEnt, LocalStep,
      coreVars, claimVars
  <2> QED BY <2>1, <2>2
<1>3. ASSUME NEW fd \in Fds, closefile(t, fd)
      PROVE  Rest /\ PcEnt' /\ LocalStep(t)
  <2>1. Rest
    BY <1>0, <1>3 DEF closefile, GoOn, ReturnAtOnce, Return, FlowTypeOK, tableVars, Entries
  <2>2. PcEnt' /\ LocalStep(t)
    BY <1>0, <1>3 DEF closefile, Begin, GoOn, ReturnAtOnce, Return, FlowTypeOK,
      PcEnt, LocalStep, coreVars, claimVars
  <2> QED BY <2>1, <2>2
<1>4. ASSUME NEW fd \in Fds, statfile(t, fd) \/ fsync(t, fd)
      PROVE  Rest /\ PcEnt' /\ LocalStep(t)
  <2>1. Rest
    BY <1>0, <1>4 DEF statfile, fsync, GoOn, ReturnAtOnce, Return, FlowTypeOK, tableVars
  <2>2. PcEnt' /\ LocalStep(t)
    BY <1>0, <1>4 DEF statfile, fsync, Begin, GoOn, ReturnAtOnce, Return, FlowTypeOK,
      PcEnt, LocalStep, coreVars, claimVars
  <2> QED BY <2>1, <2>2
<1>5. ASSUME NEW o \in Ops, dirop(t, o)
      PROVE  Rest /\ PcEnt' /\ LocalStep(t)
  <2>1. Rest
    BY <1>0, <1>5 DEF dirop, GoOn, FlowTypeOK
  <2>2. PcEnt' /\ LocalStep(t)
    BY <1>0, <1>5 DEF dirop, Begin, GoOn, FlowTypeOK, PcEnt, LocalStep, coreVars, claimVars
  <2> QED BY <2>1, <2>2
<1>6. \E o \in AllOps, fd \in Nat : Begin(t, o, fd)
  BY <1>0 DEF StartFlowop, openfile, createfile, readwrite, deletefile, closefile, statfile,
    fsync, dirop, AllOps
<1>7. Rest /\ PcEnt' /\ LocalStep(t)
  BY <1>1, <1>2, <1>3, <1>4, <1>5 DEF StartFlowop
<1>8. FlowTypeOK'
  BY <1>0, <1>6, <1>7, BeginTypes DEF FlowTypeOK
<1> QED
  BY <1>7, <1>8, CoreUnchanged DEF TypeOK, LocalStep

\* So is leaving the loop.
LEMMA ExitIsLocal ==
  ASSUME TypeOK, PcEnt, NEW t \in Threads, Exit(t)
  PROVE  TypeOK' /\ PcEnt' /\ LocalStep(t)
<1>1. FlowTypeOK'
  BY DEF Exit, TypeOK, FlowTypeOK, tableVars
<1>2. PcEnt' /\ LocalStep(t)
  BY DEF Exit, TypeOK, FlowTypeOK, PcEnt, LocalStep, coreVars, claimVars
<1> QED
  BY <1>1, <1>2, CoreUnchanged DEF TypeOK, LocalStep

\* So is a system call.
LEMMA SysCallIsLocal ==
  ASSUME TypeOK, PcEnt, NEW t \in Threads, SysCall(t)
  PROVE  TypeOK' /\ PcEnt' /\ LocalStep(t)
<1> USE FlowopAssumption, NullAssumption
<1>0. pc[t] = "held" /\ ent[t] \in OfKind(OpKind(op[t])) /\ UNCHANGED <<coreVars, op, fdn, ent, started>>
  BY DEF SysCall, SysOpen, SysCreate, SysCreateNoParent, SysClose, SysUnlink, SysStat,
    SysMkdir, SysRmdir, SysListdir, SysDirFails, Holding, ToUnbusy, GiveUp, PcEnt
<1>1. /\ pc' \in {[pc EXCEPT ![t] = "unbusy"], [pc EXCEPT ![t] = "exit"]}
      /\ f_abort' \in {f_abort, "error"}
  BY DEF SysCall, SysOpen, SysCreate, SysCreateNoParent, SysClose, SysUnlink, SysStat,
    SysMkdir, SysRmdir, SysListdir, SysDirFails, Holding, ToUnbusy, GiveUp, Return
<1>2. PcEnt' /\ LocalStep(t)
  BY <1>0, <1>1 DEF PcEnt, LocalStep, TypeOK, FlowTypeOK, coreVars, claimVars
<1>3. ent[t] \in Entries /\ fse_open_cnt[ent[t]] \in Int
  BY <1>0, KindsDisjoint DEF TypeOK, CoreTypeOK, OpKind, Kind
<1>4. call' \in [Threads -> Calls]
  <2>1. ASSUME NEW c \in Calls, ToUnbusy(t, c)
        PROVE  call' \in [Threads -> Calls]
    BY <2>1 DEF ToUnbusy, TypeOK, FlowTypeOK
  <2>2. ASSUME GiveUp(t)
        PROVE  call' \in [Threads -> Calls]
    BY <2>2 DEF GiveUp, TypeOK, FlowTypeOK
  <2>3. /\ NoCall \in Calls
        /\ Args(FALSE, FALSE, 1, "OK") \in Calls /\ Args(FALSE, FALSE, -1, "OK") \in Calls
        /\ Args(FALSE, FALSE, 0, "ERROR") \in Calls /\ Args(TRUE, TRUE, 1, "OK") \in Calls
        /\ Args(TRUE, TRUE, 0, "OK") \in Calls /\ Args(TRUE, FALSE, 0, "OK") \in Calls
        /\ Args(TRUE, FALSE, -fse_open_cnt[ent[t]], "OK") \in Calls
    BY <1>3 DEF NoCall, Args, Calls
  <2>4. (\E c \in Calls : ToUnbusy(t, c)) \/ GiveUp(t)
    BY <2>3, Zenon DEF SysCall, SysOpen, SysCreate, SysCreateNoParent, SysClose, SysUnlink, SysStat,
      SysMkdir, SysRmdir, SysListdir, SysDirFails
  <2> QED
    BY <2>1, <2>2, <2>4
<1>5. disk' \subseteq Files \cup LeafDirs
  BY <1>0 DEF TypeOK, FlowTypeOK, SysCall, SysOpen, SysCreate, SysCreateNoParent, SysClose,
    SysUnlink, SysStat, SysMkdir, SysRmdir, SysListdir, SysDirFails, GiveUp, Holding, OfKind,
    OpKind, Attempt
<1>6. tf_fse' = tf_fse /\ tf_fd' \in [Threads -> [Fds -> {"closed", "open", "failed"}]]
  <2> DEFINE Slots == {"closed", "open", "failed"}
  <2>1. tf_fd \in [Threads -> [Fds -> Slots]]
    BY DEF TypeOK, FlowTypeOK
  <2>2. \A v \in Slots : [tf_fd EXCEPT ![t][fdn[t]] = v] \in [Threads -> [Fds -> Slots]]
    BY <2>1, SlotUpdate, Zenon
  <2>3. "open" \in Slots /\ "failed" \in Slots
    OBVIOUS
  <2> HIDE DEF Slots
  <2>4. tf_fse' = tf_fse /\ tf_fd' \in [Threads -> [Fds -> Slots]]
    BY <2>1, <2>2, <2>3 DEF SysCall, SysOpen, SysCreate, SysCreateNoParent, SysClose, tableVars,
      SysUnlink, SysStat, SysMkdir, SysRmdir, SysListdir, SysDirFails, GiveUp
  <2> QED BY <2>4 DEF Slots
<1>7. FlowTypeOK'
  BY <1>0, <1>1, <1>4, <1>5, <1>6 DEF TypeOK, FlowTypeOK
<1> QED
  BY <1>0, <1>2, <1>7, CoreUnchanged DEF TypeOK

\* A local step changes no claim.
LEMMA LocalKeepsClaims ==
  ASSUME TypeOK, PcEnt, NEW t \in Threads, LocalStep(t)
  PROVE  \A u \in Threads, e \in Entries : Holds(u, e)' <=> Holds(u, e)
  BY NullAssumption DEF LocalStep, Holds, Entries

\* A local step keeps what is said of claims, counts and waiters.
LEMMA LocalKeeps ==
  ASSUME IInv, NEW t \in Threads, LocalStep(t)
  PROVE  BusyIsExclusive' /\ IdleCountCovers' /\ BusyWaiterWillBeWoken'
<1>1. UNCHANGED <<fse_busy, fs_idle, fse_waitng, thrd_wait_cv>>
  BY DEF LocalStep, coreVars, claimVars
<1>2. \A u \in Threads, e \in Entries : Holds(u, e)' <=> Holds(u, e)
  BY LocalKeepsClaims DEF IInv
<1>3. BusyIsExclusive'
  <2> HIDE DEF Holds
  <2>1. fse_busy \subseteq Entries
    BY DEF IInv, TypeOK, CoreTypeOK
  <2> QED BY <1>1, <1>2, <2>1 DEF IInv, BusyIsExclusive
<1>4. IdleCountCovers'
  BY <1>1 DEF IInv, IdleCountCovers, NotBusy
<1>5. \A u \in thrd_wait_cv : u \in Threads \ {t}
  BY DEF LocalStep, IInv, PcEnt, TypeOK, CoreTypeOK
<1>6. BusyWaiterWillBeWoken'
  BY <1>1, <1>5 DEF IInv, BusyWaiterWillBeWoken, LocalStep
<1> QED
  BY <1>3, <1>4, <1>6

-----------------------------------------------------------------------------
(* Steps under fs_pick_lock.                                               *)

\* Claiming an entry that nobody has keeps the claims exclusive.
LEMMA ClaimKeepsExclusive ==
  ASSUME TypeOK, BusyIsExclusive, NEW t \in Threads, NEW e \in Entries,
         e \notin fse_busy, fse_busy' = fse_busy \cup {e},
         pc[t] = "grab" \/ ent[t] = NULL,
         pc' = [pc EXCEPT ![t] = "held"], ent' = [ent EXCEPT ![t] = e]
  PROVE  BusyIsExclusive'
<1>1. \A u \in Threads, f \in Entries : Holds(u, f)' <=> IF u = t THEN f = e ELSE Holds(u, f)
  BY DEF Holds, TypeOK, FlowTypeOK
<1>2. \A f \in Entries : ~Holds(t, f)
  BY NullAssumption DEF Holds, Entries
<1>3. fse_busy \subseteq Entries
  BY DEF TypeOK, CoreTypeOK
<1> HIDE DEF Holds
<1>4. \A f \in fse_busy' : \E u \in Threads : Holds(u, f)'
  BY <1>1, <1>2, <1>3 DEF BusyIsExclusive
<1>5. \A u \in Threads, f \in Entries : Holds(u, f)' => f \in fse_busy'
  BY <1>1 DEF BusyIsExclusive
<1>6. \A u, v \in Threads, f \in Entries : Holds(u, f)' /\ Holds(v, f)' => u = v
  BY <1>1 DEF BusyIsExclusive
<1> QED
  BY <1>4, <1>5, <1>6 DEF BusyIsExclusive

\* The pick's search yields an entry of the wanted type that nobody has.
LEMMA PickFinds ==
  ASSUME TypeOK, NEW t \in Threads, NEW e \in Entries, Pick(t, e)
  PROVE  /\ OpKind(op[t]) \in Kind
         /\ e \in OfKind(OpKind(op[t]))
         /\ e \notin fse_busy
         /\ fse_busy' = fse_busy \cup {e}
         /\ fs_idle[OpKind(op[t])] # 0
         /\ fs_idle' = [fs_idle EXCEPT ![OpKind(op[t])] = @ - 1]
         /\ UNCHANGED <<flagVars, fse_waitng, idle_cv, thrd_wait_cv>>
<1>1. OpKind(op[t]) \in Kind
  BY DEF OpKind, Kind
<1>2. e \in PickTree(OpKind(op[t]), OpWant(op[t])) /\ e \notin fse_busy
  BY DEF Pick, PickEntry, fileset_find_entry
<1>3. e \in OfKind(OpKind(op[t]))
  BY <1>2 DEF PickTree, OfKind
<1> QED
  BY <1>1, <1>2, <1>3 DEF Pick, PickEntry

\* Advancing a rotor keeps it a natural number.
LEMMA RotorType ==
  ASSUME TypeOK, NEW k \in Kind, NEW w \in {"exist", "noex"}, NEW tid, NEW b,
         NEW first \in PickTree(k, w), AdvanceRotor(k, w, tid, b, first)
  PROVE  fs_rotor' \in [Rotor -> Nat]
<1>1. first \in Nat
  BY EntriesAssumption DEF PickTree, OfKind
<1>2. ASSUME NEW R, NEW f \in [R -> Nat], NEW r, NEW n \in Nat
      PROVE  [f EXCEPT ![r] = n] \in [R -> Nat]
  OBVIOUS
<1>3. first + 1 \in Nat /\ fs_rotor \in [Rotor -> Nat]
  BY <1>1 DEF TypeOK, CoreTypeOK
<1>4. [fs_rotor EXCEPT ![<<k, w, tid>>] = first + 1] \in [Rotor -> Nat]
  BY <1>2, <1>3, Zenon
<1> QED
  BY <1>3, <1>4, Zenon DEF AdvanceRotor

\* A successful pick keeps the invariant.
LEMMA PickKeeps ==
  ASSUME IInv, NEW t \in Threads, NEW e \in Entries, Pick(t, e)
  PROVE  IInv'
<1> PICK k : k = OpKind(op[t])
  OBVIOUS
<1>0. TypeOK /\ PcEnt /\ BusyIsExclusive /\ IdleCountCovers /\ BusyWaiterWillBeWoken
  BY DEF IInv
<1>1. /\ k \in Kind /\ e \in OfKind(k) /\ e \notin fse_busy /\ fse_busy' = fse_busy \cup {e}
      /\ fs_idle[k] # 0 /\ fs_idle' = [fs_idle EXCEPT ![k] = @ - 1]
      /\ UNCHANGED <<flagVars, fse_waitng, idle_cv, thrd_wait_cv>>
  BY <1>0, PickFinds
<1>2. /\ Cardinality(NotBusy(k)') = Cardinality(NotBusy(k)) - 1
      /\ \A j \in Kind \ {k} : NotBusy(j)' = NotBusy(j)
  BY <1>1, ClaimCounts
<1>3. /\ pc[t] = "pick" /\ pc' = [pc EXCEPT ![t] = "held"] /\ ent' = [ent EXCEPT ![t] = e]
      /\ UNCHANGED <<op, fdn, call, tf_fd, disk, f_abort, started>>
  BY DEF Pick, AtPick
<1>4. CoreTypeOK'
  <2>1. fs_rotor' \in [Rotor -> Nat]
    <3>1. OpWant(op[t]) \in {"exist", "noex"}
      BY DEF OpWant
    <3> QED BY <1>0, <1>1, <3>1, RotorType DEF Pick, PickEntry
  <2>2. fs_idle' \in [Kind -> Nat]
    BY <1>0, <1>1 DEF TypeOK, CoreTypeOK
  <2> QED BY <1>0, <1>1, <2>1, <2>2 DEF TypeOK, CoreTypeOK, flagVars
<1>5. FlowTypeOK'
  <2>1. tf_fse' \in [Threads -> [Fds -> Files \cup {NULL}]]
    <3>1. tf_fse \in [Threads -> [Fds -> Files \cup {NULL}]]
      BY <1>0 DEF TypeOK, FlowTypeOK
    <3>2. ASSUME e \in Files \cup {NULL}
          PROVE [tf_fse EXCEPT ![t][fdn[t]] = e] \in [Threads -> [Fds -> Files \cup {NULL}]]
      BY <3>1, <3>2, SlotUpdate, Zenon
    <3>3. op[t] \in {"openfile", "createfile", "readwrite"} => e \in Files
      BY <1>1 DEF OpKind, OfKind
    <3> QED BY <3>1, <3>2, <3>3 DEF Pick
  <2> QED BY <1>0, <1>3, <2>1 DEF TypeOK, FlowTypeOK
<1>6. PcEnt'
  BY <1>0, <1>1, <1>3 DEF PcEnt, TypeOK, FlowTypeOK
<1>7. BusyIsExclusive'
  BY <1>0, <1>1, <1>3, ClaimKeepsExclusive DEF PcEnt
<1>8. IdleCountCovers'
  BY <1>0, <1>1, <1>2, KindsFinite DEF IdleCountCovers, TypeOK, CoreTypeOK
<1>9. BusyWaiterWillBeWoken'
  <2>1. t \notin thrd_wait_cv
    BY <1>0, <1>3 DEF PcEnt
  <2> QED BY <1>0, <1>1, <1>3, <2>1 DEF BusyWaiterWillBeWoken, TypeOK, FlowTypeOK, CoreTypeOK
<1> QED
  BY <1>4, <1>5, <1>6, <1>7, <1>8, <1>9 DEF IInv, TypeOK

\* Claiming the file of a descriptor slot keeps the invariant.
LEMMA GrabKeeps ==
  ASSUME IInv, NEW t \in Threads, Grab(t)
  PROVE  IInv'
<1>0. TypeOK /\ PcEnt /\ BusyIsExclusive /\ IdleCountCovers /\ BusyWaiterWillBeWoken
  BY DEF IInv
<1> PICK e : e = ent[t]
  OBVIOUS
<1>1. /\ e \in OfKind("file") /\ e \in Entries /\ e \notin fse_busy
      /\ fse_busy' = fse_busy \cup {e}
      /\ UNCHANGED <<flagVars, fse_waitng, fs_rotor, idle_cv, thrd_wait_cv>>
  BY <1>0 DEF Grab, AtGrab, PcEnt, OfKind, Entries
<1>2. /\ pc[t] = "grab" /\ t \notin thrd_wait_cv /\ pc' = [pc EXCEPT ![t] = "held"]
      /\ UNCHANGED <<op, fdn, ent, call, tableVars, disk, f_abort, started>>
  BY DEF Grab, AtGrab
<1>3. /\ Cardinality(NotBusy("file")') = Cardinality(NotBusy("file")) - 1
      /\ Cardinality(NotBusy("file")) >= 1
      /\ \A j \in Kind \ {"file"} : NotBusy(j)' = NotBusy(j)
  BY <1>1, ClaimCounts DEF Kind
<1>4. fs_idle' \in {fs_idle, [fs_idle EXCEPT !["file"] = @ - 1]}
  BY <1>0 DEF Grab, TypeOK, CoreTypeOK, Kind
<1>5. fs_idle["file"] >= 1 /\ fs_idle \in [Kind -> Nat]
  BY <1>0, <1>3, KindsFinite DEF IdleCountCovers, TypeOK, CoreTypeOK, Kind
<1>6. TypeOK'
  <2>1. fs_idle' \in [Kind -> Nat]
    BY <1>4, <1>5 DEF Kind
  <2> QED BY <1>0, <1>1, <1>2, <2>1 DEF TypeOK, CoreTypeOK, FlowTypeOK, flagVars, tableVars
<1>7. PcEnt'
  BY <1>0, <1>1, <1>2 DEF PcEnt, TypeOK, FlowTypeOK, OpKind
<1>8. BusyIsExclusive'
  <2>1. ent' = [ent EXCEPT ![t] = e]
    BY <1>0, <1>2 DEF TypeOK, FlowTypeOK
  <2> QED BY <1>0, <1>1, <1>2, <2>1, ClaimKeepsExclusive
<1>9. IdleCountCovers'
  <2>1. fs_idle'["file"] >= fs_idle["file"] - 1 /\ fs_idle'["file"] \in Int
    BY <1>4, <1>5 DEF Kind
  <2>2. fs_idle'["file"] >= Cardinality(NotBusy("file")')
    BY <1>0, <1>3, <1>5, <2>1, KindsFinite DEF IdleCountCovers, Kind
  <2>3. \A j \in Kind \ {"file"} : fs_idle'[j] = fs_idle[j]
    BY <1>4, <1>5
  <2>4. \A j \in Kind \ {"file"} : fs_idle'[j] >= Cardinality(NotBusy(j)')
    BY <1>0, <1>3, <2>3 DEF IdleCountCovers
  <2> QED BY <2>2, <2>4 DEF IdleCountCovers
<1>10. BusyWaiterWillBeWoken'
  BY <1>0, <1>1, <1>2 DEF BusyWaiterWillBeWoken
<1> QED
  BY <1>6, <1>7, <1>8, <1>9, <1>10 DEF IInv

\* Leaving word at a busy file, and waiting for it, keeps the invariant.
LEMMA WaitBusyKeeps ==
  ASSUME IInv, NEW t \in Threads, WaitBusy(t)
  PROVE  IInv'
<1>0. TypeOK /\ PcEnt /\ BusyIsExclusive /\ IdleCountCovers /\ BusyWaiterWillBeWoken
  BY DEF IInv
<1>1. /\ pc[t] = "grab" /\ ent[t] \in fse_busy
      /\ fse_waitng' = fse_waitng \cup {ent[t]} /\ thrd_wait_cv' = thrd_wait_cv \cup {t}
      /\ UNCHANGED <<flagVars, fse_busy, fs_idle, fs_rotor, idle_cv>>
      /\ UNCHANGED <<pc, op, fdn, ent, call, tableVars, disk, f_abort, started>>
  BY DEF WaitBusy, AtGrab, threadVars
<1>2. TypeOK'
  BY <1>0, <1>1 DEF TypeOK, CoreTypeOK, FlowTypeOK, flagVars, tableVars
<1>3. PcEnt'
  BY <1>0, <1>1 DEF PcEnt
<1>4. BusyIsExclusive' /\ IdleCountCovers'
  BY <1>0, <1>1 DEF BusyIsExclusive, Holds, IdleCountCovers, NotBusy
<1>5. BusyWaiterWillBeWoken'
  BY <1>0, <1>1 DEF BusyWaiterWillBeWoken
<1> QED
  BY <1>2, <1>3, <1>4, <1>5 DEF IInv

\* Waiting for an idle entry keeps the invariant.
LEMMA WaitIdleKeeps ==
  ASSUME IInv, NEW t \in Threads, WaitIdle(t)
  PROVE  IInv'
<1>0. TypeOK /\ PcEnt /\ BusyIsExclusive /\ IdleCountCovers /\ BusyWaiterWillBeWoken
  BY DEF IInv
<1>1. /\ idle_cv' = [idle_cv EXCEPT ![OpKind(op[t])] = @ \cup {t}]
      /\ UNCHANGED <<flagVars, fse_busy, fse_waitng, fs_idle, fs_rotor, thrd_wait_cv>>
      /\ UNCHANGED <<pc, op, fdn, ent, call, tableVars, disk, f_abort, started>>
  BY DEF WaitIdle, PickWait, threadVars
<1>2. TypeOK'
  BY <1>0, <1>1 DEF TypeOK, CoreTypeOK, FlowTypeOK, flagVars, tableVars
<1>3. PcEnt' /\ BusyIsExclusive' /\ IdleCountCovers' /\ BusyWaiterWillBeWoken'
  BY <1>0, <1>1 DEF PcEnt, BusyIsExclusive, Holds, IdleCountCovers, NotBusy,
    BusyWaiterWillBeWoken
<1> QED
  BY <1>2, <1>3 DEF IInv

\* A pick that returns NULL keeps the invariant.
LEMMA PickFailsKeeps ==
  ASSUME IInv, NEW t \in Threads, PickFails(t)
  PROVE  IInv'
<1>0. TypeOK /\ PcEnt /\ BusyIsExclusive /\ IdleCountCovers /\ BusyWaiterWillBeWoken
  BY DEF IInv
<1>1. /\ pc[t] = "pick" /\ pc' = [pc EXCEPT ![t] = "exit"]
      /\ f_abort' \in {f_abort, "error", "rsrc"}
      /\ UNCHANGED <<flagVars, fse_busy, fse_waitng, fs_idle, idle_cv, thrd_wait_cv>>
      /\ UNCHANGED <<op, fdn, ent, call, tableVars, disk, started>>
  BY DEF PickFails, AtPick, PickNull, Return
<1>2. fs_rotor' \in [Rotor -> Nat]
  <2>1. OpWant(op[t]) \in {"exist", "noex"} /\ OpKind(op[t]) \in Kind
    BY DEF OpWant, OpKind, Kind
  <2> QED BY <1>0, <2>1, RotorType DEF PickFails, PickNull, TypeOK, CoreTypeOK
<1>3. TypeOK'
  BY <1>0, <1>1, <1>2 DEF TypeOK, CoreTypeOK, FlowTypeOK, flagVars, tableVars
<1>4. PcEnt' /\ BusyWaiterWillBeWoken'
  BY <1>0, <1>1 DEF PcEnt, BusyWaiterWillBeWoken, TypeOK, FlowTypeOK
<1>5. BusyIsExclusive'
  <2>1. \A u \in Threads, f \in Entries : Holds(u, f)' <=> Holds(u, f)
    BY <1>0, <1>1 DEF Holds, TypeOK, FlowTypeOK
  <2>2. fse_busy' = fse_busy /\ fse_busy \subseteq Entries
    BY <1>0, <1>1 DEF TypeOK, CoreTypeOK
  <2> HIDE DEF Holds
  <2> QED BY <1>0, <2>1, <2>2 DEF BusyIsExclusive
<1>6. IdleCountCovers'
  BY <1>0, <1>1 DEF IdleCountCovers, NotBusy
<1> QED
  BY <1>3, <1>4, <1>5, <1>6 DEF IInv

\* Giving back a claim keeps the claims exclusive.
LEMMA GiveBackKeepsExclusive ==
  ASSUME TypeOK, BusyIsExclusive, NEW t \in Threads, NEW e \in Entries, Holds(t, e),
         fse_busy' = fse_busy \ {e},
         NEW p, p # "grab", pc' = [pc EXCEPT ![t] = p], ent' = [ent EXCEPT ![t] = NULL]
  PROVE  BusyIsExclusive'
<1>1. \A u \in Threads, f \in Entries : Holds(u, f)' <=> u # t /\ Holds(u, f)
  BY NullAssumption DEF Holds, TypeOK, FlowTypeOK, Entries
<1>2. \A f \in Entries : Holds(t, f) => f = e
  BY DEF Holds
<1>3. fse_busy \subseteq Entries
  BY DEF TypeOK, CoreTypeOK
<1> HIDE DEF Holds
<1>4. \A f \in fse_busy' : \E u \in Threads : Holds(u, f)'
  BY <1>1, <1>2, <1>3 DEF BusyIsExclusive
<1>5. \A u \in Threads, f \in Entries : Holds(u, f)' => f \in fse_busy'
  BY <1>1 DEF BusyIsExclusive
<1>6. \A u, v \in Threads, f \in Entries : Holds(u, f)' /\ Holds(v, f)' => u = v
  BY <1>1 DEF BusyIsExclusive
<1> QED
  BY <1>4, <1>5, <1>6 DEF BusyIsExclusive

\* fileset_unbusy() of an entry that is busy keeps the types of the shared state.
LEMMA UnbusyTypes ==
  ASSUME CoreTypeOK, NEW e \in Entries, e \in fse_busy,
         NEW u, NEW x, NEW i \in Int, fileset_unbusy(e, u, x, i)
  PROVE  CoreTypeOK'
<1>1. fse_free' \subseteq Entries /\ fse_exists' \subseteq Entries
  BY DEF CoreTypeOK, fileset_unbusy, UpdateExist
<1>2. fs_tree' \in [Tree -> SUBSET (Files \cup LeafDirs)]
  <2>1. ASSUME NEW src \in Tree, NEW dst \in Tree, e \notin Dirs, fileset_move_entry(src, dst, e)
        PROVE  fs_tree' \in [Tree -> SUBSET (Files \cup LeafDirs)]
    <3>1. e \in Files \cup LeafDirs
      BY <2>1 DEF Entries
    <3> QED BY <2>1, <3>1 DEF fileset_move_entry, CoreTypeOK
  <2>2. {"free", "exist", "noex"} = Tree
    BY DEF Tree
  <2>3. fs_tree' = fs_tree \/ \E src, dst \in Tree : e \notin Dirs /\ fileset_move_entry(src, dst, e)
    BY <2>2 DEF fileset_unbusy, UpdateExist
  <2> QED BY <2>1, <2>3 DEF CoreTypeOK
<1>3. fse_open_cnt' \in [Entries -> Int]
  BY DEF CoreTypeOK, fileset_unbusy
<1>4. fse_busy' \subseteq Entries /\ fse_waitng' \subseteq Entries /\ thrd_wait_cv' \subseteq Threads
  BY DEF CoreTypeOK, fileset_unbusy, Release
<1>5. fs_idle' \in [Kind -> Nat]
  BY KindsDisjoint DEF CoreTypeOK, fileset_unbusy, Release
<1>6. idle_cv' \in [Kind -> SUBSET Threads]
  BY KindsDisjoint DEF CoreTypeOK, fileset_unbusy, Release, SignalIdle
<1>7. fs_rotor' = fs_rotor
  BY DEF fileset_unbusy
<1> QED
  BY <1>1, <1>2, <1>3, <1>4, <1>5, <1>6, <1>7 DEF CoreTypeOK

\* The end of a flowop, with its fileset_unbusy(), keeps the invariant.
LEMMA UnbusyKeeps ==
  ASSUME IInv, NEW t \in Threads, Unbusy(t)
  PROVE  IInv'
<1>0. TypeOK /\ PcEnt /\ BusyIsExclusive /\ IdleCountCovers /\ BusyWaiterWillBeWoken
  BY DEF IInv
<1> PICK e : e = ent[t]
  OBVIOUS
<1> PICK p : p = IF call[t].ret = "OK" THEN "loop" ELSE "exit"
  OBVIOUS
<1>1. /\ pc[t] = "unbusy" /\ pc' = [pc EXCEPT ![t] = p] /\ ent' = [ent EXCEPT ![t] = NULL]
      /\ call' = [call EXCEPT ![t] = NoCall]
      /\ f_abort' \in {f_abort, "error", "rsrc"}
      /\ UNCHANGED <<op, fdn, tf_fse, disk, started>>
      /\ fileset_unbusy(e, call[t].update, call[t].exists, call[t].incr)
  BY DEF Unbusy, Return
<1>2. e \in Entries /\ Holds(t, e) /\ e \in fse_busy
  <2>1. e \in Entries
    BY <1>0, <1>1, KindsDisjoint DEF PcEnt, OpKind, Kind
  <2>2. Holds(t, e)
    BY <1>1 DEF Holds
  <2> QED BY <1>0, <2>1, <2>2 DEF BusyIsExclusive
<1>3. Release(e)
  BY <1>1, <1>2 DEF fileset_unbusy
<1>4. /\ fse_busy' = fse_busy \ {e} /\ fse_waitng' = fse_waitng \ {e}
      /\ thrd_wait_cv' = IF e \in fse_waitng THEN {} ELSE thrd_wait_cv
      /\ fs_idle' = [fs_idle EXCEPT ![KindOf(e)] = @ + 1]
  BY <1>3 DEF Release
<1>5. CoreTypeOK'
  <2>1. call[t].incr \in Int
    BY <1>0 DEF TypeOK, FlowTypeOK, Calls
  <2> QED BY <1>0, <1>1, <1>2, <2>1, UnbusyTypes DEF TypeOK
<1>6. FlowTypeOK'
  <2>1. NoCall \in Calls
    BY DEF NoCall, Args, Calls
  <2>2. call' \in [Threads -> Calls]
    BY <1>0, <1>1, <2>1 DEF TypeOK, FlowTypeOK
  <2>3. tf_fd' \in [Threads -> [Fds -> {"closed", "open", "failed"}]]
    <3> DEFINE Slots == {"closed", "open", "failed"}
    <3>1. tf_fd \in [Threads -> [Fds -> Slots]] /\ "closed" \in Slots
      BY <1>0 DEF TypeOK, FlowTypeOK
    <3> HIDE DEF Slots
    <3>2. [tf_fd EXCEPT ![t][fdn[t]] = "closed"] \in [Threads -> [Fds -> Slots]]
      BY <3>1, SlotUpdate, Zenon
    <3>3. tf_fd' \in [Threads -> [Fds -> Slots]]
      BY <3>1, <3>2, Zenon DEF Unbusy
    <3> QED BY <3>3 DEF Slots
  <2> QED BY <1>0, <1>1, <2>2, <2>3 DEF TypeOK, FlowTypeOK
<1>7. PcEnt'
  BY <1>0, <1>1, <1>4 DEF PcEnt, TypeOK, FlowTypeOK
<1>8. BusyIsExclusive'
  BY <1>0, <1>1, <1>2, <1>4, GiveBackKeepsExclusive
<1>9. IdleCountCovers'
  <2> PICK k : k = KindOf(e)
    OBVIOUS
  <2>1. k \in Kind
    BY <1>2, KindsDisjoint
  <2>2. /\ Cardinality(NotBusy(k)') = Cardinality(NotBusy(k)) + 1
        /\ \A j \in Kind \ {k} : NotBusy(j)' = NotBusy(j)
    BY <1>2, <1>4, ReleaseCounts
  <2> QED BY <1>0, <1>4, <2>1, <2>2, KindsFinite DEF IdleCountCovers, TypeOK, CoreTypeOK
<1>10. BusyWaiterWillBeWoken'
  <2>1. \A u \in thrd_wait_cv' : u # t /\ u \in thrd_wait_cv /\ e \notin fse_waitng
    BY <1>0, <1>1, <1>4 DEF PcEnt
  <2>2. \A u \in thrd_wait_cv' : ent'[u] = ent[u] /\ ent[u] # e
    BY <1>0, <1>1, <2>1 DEF BusyWaiterWillBeWoken, TypeOK, FlowTypeOK, CoreTypeOK
  <2> QED BY <1>0, <1>4, <2>1, <2>2 DEF BusyWaiterWillBeWoken
<1> QED
  BY <1>5, <1>6, <1>7, <1>8, <1>9, <1>10 DEF IInv, TypeOK

-----------------------------------------------------------------------------
(* The invariant.                                                          *)

\* The fileset as created satisfies it.
LEMMA InitIInv ==
  ASSUME Init
  PROVE  IInv
<1>1. CoreTypeOK
  <2>1. fs_idle \in [Kind -> Nat]
    BY KindsFinite DEF Init
  <2>2. fs_tree \in [Tree -> SUBSET (Files \cup LeafDirs)]
    BY DEF Init, Tree
  <2>3. fse_free \subseteq Entries /\ fse_exists \subseteq Entries
    BY DEF Init, Entries
  <2>4. fse_busy \subseteq Entries /\ fse_waitng \subseteq Entries /\ thrd_wait_cv \subseteq Threads
    BY DEF Init
  <2>5. fse_open_cnt \in [Entries -> Int] /\ fs_rotor \in [Rotor -> Nat]
    BY DEF Init
  <2>6. idle_cv \in [Kind -> SUBSET Threads]
    BY DEF Init
  <2> QED BY <2>1, <2>2, <2>3, <2>4, <2>5, <2>6 DEF CoreTypeOK
<1>2. FlowTypeOK
  <2>1. NoCall \in Calls
    BY DEF NoCall, Args, Calls
  <2> QED BY <2>1, FlowopAssumption DEF Init, FlowTypeOK, AllOps
<1>3. PcEnt /\ BusyIsExclusive /\ BusyWaiterWillBeWoken
  BY NullAssumption DEF Init, PcEnt, BusyIsExclusive, Holds, BusyWaiterWillBeWoken, Entries
<1>4. IdleCountCovers
  <2>1. \A k \in Kind : NotBusy(k) = OfKind(k)
    BY DEF Init, NotBusy
  <2> QED BY <2>1, KindsFinite DEF Init, IdleCountCovers
<1> QED
  BY <1>1, <1>2, <1>3, <1>4 DEF IInv, TypeOK

\* Every step keeps it.
LEMMA NextIInv ==
  ASSUME IInv, [Next]_vars
  PROVE  IInv'
<1>0. TypeOK /\ PcEnt /\ BusyIsExclusive /\ IdleCountCovers /\ BusyWaiterWillBeWoken
  BY DEF IInv
<1>1. ASSUME NEW t \in Threads, StartFlowop(t) \/ SysCall(t) \/ Exit(t)
      PROVE  IInv'
  <2>1. TypeOK' /\ PcEnt' /\ LocalStep(t)
    BY <1>0, <1>1, StartIsLocal, SysCallIsLocal, ExitIsLocal
  <2> QED BY <2>1, LocalKeeps DEF IInv
<1>2. ASSUME NEW t \in Threads, Claim(t)
      PROVE  IInv'
  BY <1>2, WaitIdleKeeps, PickFailsKeeps, WaitBusyKeeps, GrabKeeps, PickKeeps DEF Claim
<1>3. ASSUME NEW t \in Threads, Unbusy(t)
      PROVE  IInv'
  BY <1>3, UnbusyKeeps
<1>4. CASE RunEnds
  <2>1. TypeOK'
    BY <1>0, <1>4 DEF RunEnds, TypeOK, CoreTypeOK, FlowTypeOK, coreVars, flagVars, claimVars,
      threadVars, tableVars
  <2>2. PcEnt' /\ BusyIsExclusive' /\ IdleCountCovers' /\ BusyWaiterWillBeWoken'
    BY <1>0, <1>4 DEF RunEnds, PcEnt, BusyIsExclusive, Holds, IdleCountCovers, NotBusy,
      BusyWaiterWillBeWoken, coreVars, claimVars, threadVars
  <2> QED BY <2>1, <2>2 DEF IInv
<1>5. CASE UNCHANGED vars
  BY <1>0, <1>5 DEF vars, coreVars, flagVars, claimVars, threadVars, tableVars, IInv,
    TypeOK, CoreTypeOK, FlowTypeOK, PcEnt, BusyIsExclusive, Holds, IdleCountCovers, NotBusy,
    BusyWaiterWillBeWoken
<1> QED
  BY <1>1, <1>2, <1>3, <1>4, <1>5 DEF Next, FlowopStep, Terminated

\* The invariant holds in every state of every run.
THEOREM Invariant == Spec => []IInv
<1>1. Init => IInv
  BY InitIInv
<1>2. IInv /\ [Next]_vars => IInv'
  BY NextIInv
<1> QED
  BY <1>1, <1>2, PTL DEF Spec

\* Types: in particular the idle counts of fileset_pick() and fileset_unbusy()
\* never become negative, although closefile and deletefile lower them without
\* looking at them.
THEOREM TypeCorrect == Spec => []TypeOK
<1>1. IInv => TypeOK
  BY DEF IInv
<1> QED
  BY Invariant, <1>1, PTL

\* FSE_BUSY is an exclusive lock on the entry, set exactly while a thread has it.
THEOREM BusyExclusive == Spec => []BusyIsExclusive
<1>1. IInv => BusyIsExclusive
  BY DEF IInv
<1> QED
  BY Invariant, <1>1, PTL

\* A thread that sees an idle count of zero has nothing to take.
THEOREM IdleCovers == Spec => []IdleCountCovers
<1>1. IInv => IdleCountCovers
  BY DEF IInv
<1> QED
  BY Invariant, <1>1, PTL

\* No wakeup of closefile or deletefile is lost.
THEOREM NoLostWakeup == Spec => []BusyWaiterWillBeWoken
<1>1. IInv => BusyWaiterWillBeWoken
  BY DEF IInv
<1> QED
  BY Invariant, <1>1, PTL

-----------------------------------------------------------------------------
(* The flowops implement the abstract lock table.                          *)

\* A thread that has claimed nothing claims e, which nobody has.
LEMMA ClaimRefines ==
  ASSUME TypeOK, BusyIsExclusive, NEW t \in Threads, NEW e \in Entries, e \notin fse_busy,
         pc[t] = "grab" \/ ent[t] = NULL,
         pc' = [pc EXCEPT ![t] = "held"], ent' = [ent EXCEPT ![t] = e]
  PROVE  Lock!Next
<1>1. \A u \in Threads, f \in Entries : Holds(u, f)' <=> IF u = t THEN f = e ELSE Holds(u, f)
  BY DEF Holds, TypeOK, FlowTypeOK
<1>2. \A f \in Entries : ~Holds(t, f)
  BY NullAssumption DEF Holds, Entries
<1>3. \A u \in Threads : ~Holds(u, e)
  BY DEF BusyIsExclusive
<1> HIDE DEF Holds
<1>4. \A c \in Claims : c[1] # t /\ c[2] # e
  BY <1>2, <1>3 DEF Claims
<1>5. Claims' = Claims \cup {<<t, e>>}
  BY <1>1, <1>2, <1>3 DEF Claims
<1> QED
  BY <1>4, <1>5 DEF Lock!Next, Lock!Claim

\* A thread that has e claimed gives it back.
LEMMA GiveBackRefines ==
  ASSUME TypeOK, NEW t \in Threads, NEW e \in Entries, Holds(t, e),
         NEW p, p # "grab", pc' = [pc EXCEPT ![t] = p], ent' = [ent EXCEPT ![t] = NULL]
  PROVE  Lock!Next
<1>1. \A u \in Threads, f \in Entries : Holds(u, f)' <=> u # t /\ Holds(u, f)
  BY NullAssumption DEF Holds, TypeOK, FlowTypeOK, Entries
<1>2. \A f \in Entries : Holds(t, f) => f = e
  BY DEF Holds
<1> HIDE DEF Holds
<1>3. <<t, e>> \in Claims
  BY DEF Claims
<1>4. Claims' = Claims \ {<<t, e>>}
  BY <1>1, <1>2 DEF Claims
<1> QED
  BY <1>3, <1>4 DEF Lock!Next, Lock!GiveBack

\* Every step is a step of the lock table, or changes no claim.
LEMMA StepRefines ==
  ASSUME IInv, [Next]_vars
  PROVE  [Lock!Next]_Claims
<1>0. TypeOK /\ PcEnt /\ BusyIsExclusive
  BY DEF IInv
<1>1. ASSUME NEW t \in Threads, StartFlowop(t) \/ SysCall(t) \/ Exit(t)
      PROVE  UNCHANGED Claims
  <2>1. \A u \in Threads, e \in Entries : Holds(u, e)' <=> Holds(u, e)
    BY <1>0, <1>1, StartIsLocal, SysCallIsLocal, ExitIsLocal, LocalKeepsClaims
  <2> HIDE DEF Holds
  <2> QED BY <2>1 DEF Claims
<1>2. ASSUME NEW t \in Threads, WaitIdle(t) \/ WaitBusy(t)
      PROVE  UNCHANGED Claims
  BY <1>2 DEF WaitIdle, WaitBusy, threadVars, Claims, Holds
<1>3. ASSUME NEW t \in Threads, PickFails(t)
      PROVE  UNCHANGED Claims
  <2>1. \A u \in Threads, e \in Entries : Holds(u, e)' <=> Holds(u, e)
    BY <1>0, <1>3 DEF PickFails, AtPick, Return, Holds, TypeOK, FlowTypeOK
  <2> HIDE DEF Holds
  <2> QED BY <2>1 DEF Claims
<1>4. ASSUME NEW t \in Threads, NEW e \in Entries, Pick(t, e)
      PROVE  Lock!Next
  <2>1. e \notin fse_busy
    BY <1>0, <1>4, PickFinds
  <2>2. ent[t] = NULL /\ pc' = [pc EXCEPT ![t] = "held"] /\ ent' = [ent EXCEPT ![t] = e]
    BY <1>0, <1>4 DEF Pick, AtPick, PcEnt
  <2> QED BY <1>0, <2>1, <2>2, ClaimRefines
<1>5. ASSUME NEW t \in Threads, Grab(t)
      PROVE  Lock!Next
  <2> PICK e : e = ent[t]
    OBVIOUS
  <2>1. e \in Entries /\ e \notin fse_busy
    BY <1>0, <1>5 DEF Grab, AtGrab, PcEnt, Entries
  <2>2. pc[t] = "grab" /\ pc' = [pc EXCEPT ![t] = "held"] /\ ent' = [ent EXCEPT ![t] = e]
    BY <1>0, <1>5 DEF Grab, AtGrab, TypeOK, FlowTypeOK
  <2> QED BY <1>0, <2>1, <2>2, ClaimRefines
<1>6. ASSUME NEW t \in Threads, Unbusy(t)
      PROVE  Lock!Next
  <2> PICK e : e = ent[t]
    OBVIOUS
  <2> PICK p : p = IF call[t].ret = "OK" THEN "loop" ELSE "exit"
    OBVIOUS
  <2>1. pc[t] = "unbusy" /\ pc' = [pc EXCEPT ![t] = p] /\ ent' = [ent EXCEPT ![t] = NULL]
    BY <1>6 DEF Unbusy, Return
  <2>2. e \in Entries /\ Holds(t, e) /\ p # "grab"
    BY <1>0, <2>1, KindsDisjoint DEF PcEnt, OpKind, Kind, Holds
  <2> QED BY <1>0, <2>1, <2>2, GiveBackRefines
<1>7. CASE RunEnds \/ UNCHANGED vars
  BY <1>7 DEF RunEnds, vars, threadVars, Claims, Holds
<1> QED
  BY <1>1, <1>2, <1>3, <1>4, <1>5, <1>6, <1>7 DEF Next, FlowopStep, Claim, Terminated

\* The flowops implement the lock table: the claims made through FSE_BUSY by
\* fileset_pick(), closefile and deletefile and given back by fileset_unbusy()
\* are those of an exclusive lock per entry.
THEOREM ImplementsLock == Spec => ClaimsAreALock
<1>1. Init => Lock!Init
  BY NullAssumption DEF Init, Lock!Init, Claims, Holds, Entries
<1>2. IInv /\ [Next]_vars => [Lock!Next]_Claims
  BY StepRefines
<1> QED
  BY <1>1, <1>2, Invariant, PTL DEF Spec, ClaimsAreALock, Lock!Spec

-----------------------------------------------------------------------------
(* The trees, the flags and storage.                                       *)

\* fileset_unbusy() moves an entry from the tree its flags named before to the
\* tree they name after.
LEMMA UnbusyKeepsTrees ==
  ASSUME CoreTypeOK, TreesMatchFlags, NEW e \in Entries,
         NEW u, NEW x, NEW i, fileset_unbusy(e, u, x, i)
  PROVE  TreesMatchFlags'
<1> DEFINE movable == Files \cup LeafDirs
<1>1. CASE ~u
  BY <1>1 DEF fileset_unbusy, TreesMatchFlags
<1>2. CASE u
  <2>1. UpdateExist(e, x)
    BY <1>2 DEF fileset_unbusy
  <2>2. /\ fse_exists' = IF x THEN fse_exists \cup {e} ELSE fse_exists \ {e}
        /\ fse_free' = fse_free \ {e}
    BY <2>1 DEF UpdateExist
  <2>3. CASE e \in Dirs
    BY <2>1, <2>2, <2>3, EntriesAssumption DEF UpdateExist, TreesMatchFlags
  <2>4. CASE e \notin Dirs
    <3>1. e \in movable
      BY <2>4 DEF Entries
    <3>2. DOMAIN fs_tree = {"free", "exist", "noex"}
      BY DEF CoreTypeOK, Tree
    <3>3. CASE e \in fse_free /\ x
      <4>1. fs_tree' = [fs_tree EXCEPT !["free"] = @ \ {e}, !["exist"] = @ \cup {e}]
        BY <2>1, <2>4, <3>3 DEF UpdateExist, fileset_move_entry
      <4> QED BY <2>2, <3>1, <3>2, <3>3, <4>1 DEF TreesMatchFlags
    <3>4. CASE e \in fse_free /\ ~x
      <4>1. fs_tree' = [fs_tree EXCEPT !["free"] = @ \ {e}, !["noex"] = @ \cup {e}]
        BY <2>1, <2>4, <3>4 DEF UpdateExist, fileset_move_entry
      <4> QED BY <2>2, <3>1, <3>2, <3>4, <4>1 DEF TreesMatchFlags
    <3>5. CASE e \notin fse_free /\ x /\ e \notin fse_exists
      <4>1. fs_tree' = [fs_tree EXCEPT !["noex"] = @ \ {e}, !["exist"] = @ \cup {e}]
        BY <2>1, <2>4, <3>5 DEF UpdateExist, fileset_move_entry
      <4> QED BY <2>2, <3>1, <3>2, <3>5, <4>1 DEF TreesMatchFlags
    <3>6. CASE e \notin fse_free /\ ~x /\ e \in fse_exists
      <4>1. fs_tree' = [fs_tree EXCEPT !["exist"] = @ \ {e}, !["noex"] = @ \cup {e}]
        BY <2>1, <2>4, <3>6 DEF UpdateExist, fileset_move_entry
      <4> QED BY <2>2, <3>1, <3>2, <3>6, <4>1 DEF TreesMatchFlags
    <3>7. CASE e \notin fse_free /\ (x <=> e \in fse_exists)
      <4>1. fs_tree' = fs_tree
        BY <2>1, <2>4, <3>7 DEF UpdateExist
      <4> QED BY <2>2, <3>7, <4>1 DEF TreesMatchFlags
    <3> QED BY <3>3, <3>4, <3>5, <3>6, <3>7
  <2> QED BY <2>3, <2>4
<1> QED
  BY <1>1, <1>2

\* Only fileset_unbusy() changes the flags and the trees.
LEMMA FlagsChangeInUnbusy ==
  ASSUME IInv, [Next]_vars, ~\E t \in Threads : Unbusy(t)
  PROVE  UNCHANGED flagVars
<1>1. ASSUME NEW t \in Threads, StartFlowop(t) \/ SysCall(t) \/ Exit(t)
      PROVE  UNCHANGED flagVars
  BY <1>1, StartIsLocal, SysCallIsLocal, ExitIsLocal DEF IInv, LocalStep, coreVars
<1>2. ASSUME NEW t \in Threads, Claim(t)
      PROVE  UNCHANGED flagVars
  BY <1>2 DEF Claim, WaitIdle, PickWait, PickFails, PickNull, WaitBusy, Grab, Pick, PickEntry
<1>3. CASE RunEnds \/ UNCHANGED vars
  BY <1>3 DEF RunEnds, vars, coreVars
<1> QED
  BY <1>1, <1>2, <1>3 DEF Next, FlowopStep, Terminated

\* Every file and leaf directory is in exactly one AVL tree, the one its flags
\* name, so no avl_remove() of fileset_unbusy() is ever of an entry that is not
\* in the tree.
THEOREM TreesMatch == Spec => []TreesMatchFlags
<1>1. Init => TreesMatchFlags
  <2> SUFFICES ASSUME Init PROVE TreesMatchFlags
    OBVIOUS
  <2>1. /\ fs_tree["free"] = {} /\ fs_tree["exist"] = disk
        /\ fs_tree["noex"] = (Files \cup LeafDirs) \ disk
        /\ disk \subseteq Files \cup LeafDirs
        /\ fse_free = {} /\ fse_exists = disk \cup Dirs
    BY DEF Init
  <2> QED BY <2>1, EntriesAssumption DEF TreesMatchFlags
<1>2. IInv /\ TreesMatchFlags /\ [Next]_vars => TreesMatchFlags'
  <2> SUFFICES ASSUME IInv, TreesMatchFlags, [Next]_vars
               PROVE  TreesMatchFlags'
    OBVIOUS
  <2>1. ASSUME NEW t \in Threads, Unbusy(t)
        PROVE  TreesMatchFlags'
    <3>1. ent[t] \in Entries /\ CoreTypeOK
      BY <2>1, KindsDisjoint DEF Unbusy, IInv, PcEnt, TypeOK, OpKind, Kind
    <3>2. fileset_unbusy(ent[t], call[t].update, call[t].exists, call[t].incr)
      BY <2>1 DEF Unbusy
    <3> QED BY <3>1, <3>2, UnbusyKeepsTrees
  <2>2. CASE ~\E t \in Threads : Unbusy(t)
    BY <2>2, FlagsChangeInUnbusy DEF flagVars, TreesMatchFlags
  <2> QED BY <2>1, <2>2
<1> QED
  BY <1>1, <1>2, Invariant, PTL DEF Spec

\* Flag and storage agree about e, as they should when nobody works on it.
Agree(e) == e \in fse_exists <=> e \in disk

\* What the thread that has claimed an entry knows of its flag and storage: they
\* agree before the system call; after it, what fileset_unbusy() will be told
\* agrees with storage.
HolderKnows ==
  \A t \in Threads :
    ent[t] \in Files \cup LeafDirs =>
      /\ pc[t] = "held" => Agree(ent[t])
      /\ pc[t] = "unbusy" =>
           IF call[t].update THEN call[t].exists <=> ent[t] \in disk ELSE Agree(ent[t])

\* A system call changes storage at the claimed entry only, and tells
\* fileset_unbusy() what it did.
LEMMA SysCallTells ==
  ASSUME Faults \cap IgnoredFaults = {}, IInv, HolderKnows, NEW t \in Threads, SysCall(t)
  PROVE  /\ pc[t] = "held" /\ UNCHANGED <<coreVars, ent>>
         /\ \A u \in Threads \ {t} : pc'[u] = pc[u] /\ call'[u] = call[u]
         /\ \A f \in Files \cup LeafDirs : f # ent[t] => (f \in disk' <=> f \in disk)
         /\ pc'[t] # "held"
         /\ pc'[t] = "unbusy" /\ ent[t] \in Files \cup LeafDirs =>
              IF call'[t].update THEN call'[t].exists <=> ent[t] \in disk'
              ELSE ent[t] \in fse_exists <=> ent[t] \in disk'
<1>0. /\ pc \in [Threads -> {"loop", "pick", "grab", "held", "unbusy", "exit", "segv"}]
      /\ call \in [Threads -> Calls]
  BY DEF IInv, TypeOK, FlowTypeOK
<1>1. /\ pc[t] = "held" /\ UNCHANGED <<coreVars, ent>>
      /\ \A u \in Threads \ {t} : pc'[u] = pc[u] /\ call'[u] = call[u]
      /\ pc'[t] # "held"
  BY <1>0 DEF SysCall, SysOpen, SysCreate, SysCreateNoParent, SysClose, SysUnlink, SysStat,
    SysMkdir, SysRmdir, SysListdir, SysDirFails, Holding, ToUnbusy, GiveUp, Return
<1>2. disk' \in {disk, disk \cup {ent[t]}, disk \ {ent[t]}}
  BY DEF SysCall, SysOpen, SysCreate, SysCreateNoParent, SysClose, SysUnlink, SysStat,
    SysMkdir, SysRmdir, SysListdir, SysDirFails, GiveUp, Attempt
<1>3. ent[t] \in Files \cup LeafDirs => Agree(ent[t])
  BY <1>1 DEF HolderKnows
<1>4. CASE \E i \in Int, r \in {"OK", "ERROR"} : ToUnbusy(t, Args(FALSE, FALSE, i, r)) /\ disk' = disk
  <2>1. call'[t].update = FALSE
    BY <1>0, <1>4 DEF ToUnbusy, Args
  <2> QED BY <1>1, <1>3, <1>4, <2>1 DEF Agree
<1>5. CASE \E i \in Int : ToUnbusy(t, Args(TRUE, TRUE, i, "OK")) /\ disk' = disk \cup {ent[t]}
  <2>1. call'[t].update = TRUE /\ call'[t].exists = TRUE
    BY <1>0, <1>5 DEF ToUnbusy, Args
  <2> QED BY <1>1, <1>5, <2>1
<1>6. CASE \E i \in Int : ToUnbusy(t, Args(TRUE, FALSE, i, "OK")) /\ disk' = disk \ {ent[t]}
  <2>1. call'[t].update = TRUE /\ call'[t].exists = FALSE
    BY <1>0, <1>6 DEF ToUnbusy, Args
  <2> QED BY <1>1, <1>6, <2>1
<1>7. CASE GiveUp(t)
  <2>1. pc'[t] = "exit" /\ disk' = disk
    BY <1>0, <1>7 DEF GiveUp, Return
  <2> QED BY <1>1, <2>1
<1>8. fse_open_cnt[ent[t]] \in Int
  BY <1>1, KindsDisjoint DEF IInv, TypeOK, CoreTypeOK, PcEnt, OpKind, Kind
<1>9. 0 \in Int /\ 1 \in Int /\ -1 \in Int /\ -fse_open_cnt[ent[t]] \in Int
  BY <1>8
<1>10. \A c \in IgnoredFaults : \A new, d : d \in Attempt(c, new) => d = new
  BY DEF Attempt
<1>11. "mkdir" \in IgnoredFaults /\ "rmdir" \in IgnoredFaults /\ "unlink" \in IgnoredFaults
  BY DEF IgnoredFaults
<1>12. CASE SysOpen(t) \/ SysClose(t) \/ SysStat(t) \/ SysListdir(t)
  BY <1>4, <1>9, <1>12, Zenon DEF SysOpen, SysClose, SysStat, SysListdir, NoCall
<1>13. CASE SysCreate(t) \/ SysMkdir(t)
  BY <1>4, <1>5, <1>9, <1>13, <1>10, <1>11, Zenon DEF SysCreate, SysMkdir
<1>14. CASE SysUnlink(t) \/ SysRmdir(t)
  BY <1>4, <1>6, <1>9, <1>14, <1>10, <1>11, Zenon DEF SysUnlink, SysRmdir, NoCall
<1>15. CASE SysCreateNoParent(t) \/ SysDirFails(t)
  BY <1>7, <1>15 DEF SysCreateNoParent, SysDirFails
<1> QED
  BY <1>12, <1>13, <1>14, <1>15 DEF SysCall

\* A step that touches neither flags nor storage nor an entry that is claimed.
LEMMA QuietKeepsDisk ==
  ASSUME HolderKnows, FlagsMatchDisk, UNCHANGED <<fse_exists, fse_busy, disk>>,
         \A u \in Threads : pc'[u] \in {"held", "unbusy"} =>
           pc'[u] = pc[u] /\ ent'[u] = ent[u] /\ call'[u] = call[u]
  PROVE  HolderKnows' /\ FlagsMatchDisk'
<1>1. HolderKnows'
  BY DEF HolderKnows, Agree
<1>2. FlagsMatchDisk'
  BY DEF FlagsMatchDisk
<1> QED BY <1>1, <1>2

\* Claiming an entry that nobody has: its flag is right.
LEMMA ClaimKeepsDisk ==
  ASSUME TypeOK, HolderKnows, FlagsMatchDisk, UNCHANGED <<fse_exists, disk, call>>,
         NEW t \in Threads, NEW e \in Entries, e \notin fse_busy, fse_busy' = fse_busy \cup {e},
         pc' = [pc EXCEPT ![t] = "held"], ent' = [ent EXCEPT ![t] = e]
  PROVE  HolderKnows' /\ FlagsMatchDisk'
<1>1. \A u \in Threads \ {t} : pc'[u] = pc[u] /\ ent'[u] = ent[u]
  BY DEF TypeOK, FlowTypeOK
<1>2. pc'[t] = "held" /\ ent'[t] = e
  BY DEF TypeOK, FlowTypeOK
<1>3. e \in Files \cup LeafDirs => Agree(e)'
  BY DEF FlagsMatchDisk, Agree
<1>4. \A f : Agree(f)' <=> Agree(f)
  BY DEF Agree
<1> HIDE DEF Agree
<1>5. HolderKnows'
  BY <1>1, <1>2, <1>3, <1>4 DEF HolderKnows, Agree
<1>6. FlagsMatchDisk'
  BY DEF FlagsMatchDisk
<1> QED BY <1>5, <1>6

\* A system call changes storage for the holder alone.
LEMMA SysCallKeepsDisk ==
  ASSUME Faults \cap IgnoredFaults = {}, IInv, HolderKnows, FlagsMatchDisk, NEW t \in Threads, SysCall(t)
  PROVE  HolderKnows' /\ FlagsMatchDisk'
<1>0. /\ pc[t] = "held" /\ UNCHANGED <<coreVars, ent>>
      /\ \A u \in Threads \ {t} : pc'[u] = pc[u] /\ call'[u] = call[u]
      /\ \A f \in Files \cup LeafDirs : f # ent[t] => (f \in disk' <=> f \in disk)
      /\ pc'[t] # "held"
      /\ pc'[t] = "unbusy" /\ ent[t] \in Files \cup LeafDirs =>
           IF call'[t].update THEN call'[t].exists <=> ent[t] \in disk'
           ELSE ent[t] \in fse_exists <=> ent[t] \in disk'
  BY SysCallTells
<1>1. fse_exists' = fse_exists /\ fse_busy' = fse_busy /\ ent' = ent
  BY <1>0 DEF coreVars, flagVars, claimVars
<1>2. ent[t] \in Entries /\ ent[t] \in fse_busy
  <2>1. ent[t] \in Entries
    BY <1>0, KindsDisjoint DEF IInv, PcEnt, OpKind, Kind
  <2> QED BY <1>0, <2>1 DEF IInv, BusyIsExclusive, Holds
<1>3. ASSUME NEW u \in Threads \ {t}, pc[u] \in {"held", "unbusy"}
      PROVE  ent[u] # ent[t]
  BY <1>0, <1>2, <1>3 DEF IInv, BusyIsExclusive, Holds
<1>4. ASSUME NEW u \in Threads, ent'[u] \in Files \cup LeafDirs, pc'[u] = "held"
      PROVE  Agree(ent[u])'
  BY <1>0, <1>1, <1>3, <1>4 DEF HolderKnows, Agree
<1>5. ASSUME NEW u \in Threads, ent'[u] \in Files \cup LeafDirs, pc'[u] = "unbusy"
      PROVE  IF call'[u].update THEN call'[u].exists <=> ent'[u] \in disk' ELSE Agree(ent[u])'
  <2>1. CASE u = t
    BY <1>0, <1>1, <1>5, <2>1 DEF Agree
  <2>2. CASE u # t
    BY <1>0, <1>1, <1>3, <1>5, <2>2 DEF HolderKnows, Agree
  <2> QED BY <2>1, <2>2
<1>6. HolderKnows'
  BY <1>4, <1>5 DEF HolderKnows
<1>7. FlagsMatchDisk'
  BY <1>0, <1>1, <1>2 DEF FlagsMatchDisk
<1> QED BY <1>6, <1>7

\* fileset_unbusy() makes the flag what it was told.
LEMMA UnbusyKeepsDisk ==
  ASSUME IInv, HolderKnows, FlagsMatchDisk, NEW t \in Threads, Unbusy(t)
  PROVE  HolderKnows' /\ FlagsMatchDisk'
<1>1. /\ pc[t] = "unbusy" /\ disk' = disk
      /\ \A u \in Threads \ {t} : pc'[u] = pc[u] /\ ent'[u] = ent[u] /\ call'[u] = call[u]
      /\ pc'[t] \notin {"held", "unbusy"}
  BY DEF Unbusy, Return, IInv, TypeOK, FlowTypeOK
<1>2. ent[t] \in Entries /\ ent[t] \in fse_busy
  <2>1. ent[t] \in Entries
    BY <1>1, KindsDisjoint DEF IInv, PcEnt, OpKind, Kind
  <2> QED BY <1>1, <2>1 DEF IInv, BusyIsExclusive, Holds
<1>3. fse_busy' = fse_busy \ {ent[t]}
  BY <1>2 DEF Unbusy, fileset_unbusy, Release
<1>4. /\ \A f \in Entries : f # ent[t] => (f \in fse_exists' <=> f \in fse_exists)
      /\ IF call[t].update THEN ent[t] \in fse_exists' <=> call[t].exists
         ELSE ent[t] \in fse_exists' <=> ent[t] \in fse_exists
  BY DEF Unbusy, fileset_unbusy, UpdateExist
<1>5. ent[t] \in Files \cup LeafDirs => (ent[t] \in fse_exists' <=> ent[t] \in disk)
  BY <1>1, <1>4 DEF HolderKnows, Agree
<1>6. ASSUME NEW u \in Threads, u # t, pc[u] \in {"held", "unbusy"}
      PROVE  ent[u] # ent[t]
  BY <1>1, <1>2, <1>6 DEF IInv, BusyIsExclusive, Holds
<1>7. \A f \in Files \cup LeafDirs : f # ent[t] => (Agree(f)' <=> Agree(f))
  BY <1>1, <1>4 DEF Agree, Entries
<1>8. HolderKnows'
  <2> SUFFICES ASSUME NEW u \in Threads, ent'[u] \in Files \cup LeafDirs,
                      pc'[u] \in {"held", "unbusy"}
               PROVE  /\ pc'[u] = "held" => Agree(ent[u])'
                      /\ pc'[u] = "unbusy" =>
                           IF call'[u].update THEN call'[u].exists <=> ent'[u] \in disk'
                           ELSE Agree(ent[u])'
    BY DEF HolderKnows
  <2>1. u # t /\ pc'[u] = pc[u] /\ ent'[u] = ent[u] /\ call'[u] = call[u] /\ ent[u] # ent[t]
    BY <1>1, <1>6
  <2>2. Agree(ent[u])' <=> Agree(ent[u])
    BY <1>1, <1>4, <2>1 DEF Agree, Entries
  <2> QED BY <1>1, <2>1, <2>2 DEF HolderKnows
<1>9. FlagsMatchDisk'
  BY <1>1, <1>3, <1>4, <1>5 DEF FlagsMatchDisk, Entries
<1> QED BY <1>8, <1>9

\* Whenever an entry is not busy, FSE_EXISTS says truly whether it is on storage,
\* if the unlink(), mkdir() and rmdir() calls whose results the flowops throw
\* away do not fail.
THEOREM FlagsTellDisk ==
  ASSUME Faults \cap IgnoredFaults = {}
  PROVE  Spec => []FlagsMatchDisk
<1>1. Init => HolderKnows /\ FlagsMatchDisk
  <2>1. Init => HolderKnows
    BY DEF Init, HolderKnows
  <2>2. Init => FlagsMatchDisk
    BY EntriesAssumption DEF Init, FlagsMatchDisk
  <2> QED BY <2>1, <2>2
<1>2. IInv /\ HolderKnows /\ FlagsMatchDisk /\ [Next]_vars => HolderKnows' /\ FlagsMatchDisk'
  <2> SUFFICES ASSUME IInv, HolderKnows, FlagsMatchDisk, [Next]_vars
               PROVE  HolderKnows' /\ FlagsMatchDisk'
    OBVIOUS
  <2>0. TypeOK /\ PcEnt
    BY DEF IInv
  <2>1. ASSUME NEW t \in Threads, StartFlowop(t) \/ Exit(t)
        PROVE  HolderKnows' /\ FlagsMatchDisk'
    <3>1. UNCHANGED <<coreVars, call, disk>>
      BY <2>1 DEF StartFlowop, openfile, createfile, readwrite, deletefile, closefile, statfile,
        fsync, dirop, GoOn, ReturnAtOnce, Exit
    <3>2. pc'[t] \notin {"held", "unbusy"} /\ \A u \in Threads \ {t} : pc'[u] = pc[u]
      BY <2>0, <2>1 DEF StartFlowop, openfile, createfile, readwrite, deletefile, closefile,
        statfile, fsync, dirop, GoOn, ReturnAtOnce, Return, Exit, TypeOK, FlowTypeOK
    <3>3. \A u \in Threads \ {t} : ent'[u] = ent[u]
      BY <2>0, <2>1, StartIsLocal, ExitIsLocal DEF LocalStep
    <3> QED BY <3>1, <3>2, <3>3, QuietKeepsDisk DEF coreVars, flagVars, claimVars
  <2>2. ASSUME NEW t \in Threads, WaitIdle(t) \/ WaitBusy(t) \/ PickFails(t)
        PROVE  HolderKnows' /\ FlagsMatchDisk'
    <3>1. UNCHANGED <<fse_exists, fse_busy, disk, ent, call>>
      BY <2>2 DEF WaitIdle, WaitBusy, PickFails, PickWait, PickNull, flagVars, threadVars
    <3>2. \A u \in Threads : pc'[u] \in {"held", "unbusy"} => pc'[u] = pc[u]
      BY <2>0, <2>2 DEF WaitIdle, WaitBusy, PickFails, Return, threadVars, TypeOK, FlowTypeOK
    <3> QED BY <3>1, <3>2, QuietKeepsDisk
  <2>3. ASSUME NEW t \in Threads, NEW e \in Entries, Pick(t, e)
        PROVE  HolderKnows' /\ FlagsMatchDisk'
    <3>1. e \notin fse_busy /\ fse_busy' = fse_busy \cup {e} /\ UNCHANGED flagVars
      BY <2>0, <2>3, PickFinds
    <3>2. /\ UNCHANGED <<fse_exists, disk, call>>
          /\ pc' = [pc EXCEPT ![t] = "held"] /\ ent' = [ent EXCEPT ![t] = e]
      BY <2>3, <3>1 DEF Pick, flagVars
    <3> QED BY <2>0, <3>1, <3>2, ClaimKeepsDisk
  <2>4. ASSUME NEW t \in Threads, Grab(t)
        PROVE  HolderKnows' /\ FlagsMatchDisk'
    <3> PICK e : e = ent[t]
      OBVIOUS
    <3>1. /\ e \in Entries /\ e \notin fse_busy /\ fse_busy' = fse_busy \cup {e}
          /\ UNCHANGED <<fse_exists, disk, call>>
          /\ pc' = [pc EXCEPT ![t] = "held"] /\ ent' = [ent EXCEPT ![t] = e]
      BY <2>0, <2>4 DEF Grab, AtGrab, PcEnt, Entries, TypeOK, FlowTypeOK, flagVars
    <3> QED BY <2>0, <3>1, ClaimKeepsDisk
  <2>5. CASE RunEnds \/ UNCHANGED vars
    <3>1. UNCHANGED <<fse_exists, fse_busy, disk, pc, ent, call>>
      BY <2>5 DEF RunEnds, vars, coreVars, flagVars, claimVars, threadVars
    <3> QED BY <3>1, QuietKeepsDisk
  <2> QED
    BY <2>1, <2>2, <2>3, <2>4, <2>5, SysCallKeepsDisk, UnbusyKeepsDisk
      DEF Next, FlowopStep, Claim, Terminated
<1> QED
  BY <1>1, <1>2, Invariant, PTL DEF Spec

-----------------------------------------------------------------------------
(* The idle counts of directories, which are claimed by picks alone.       *)

\* The idle counts of directories and leaf directories are exactly the numbers
\* of those that are not busy: no error path of makedir, removedir or listdir,
\* and no closefile or deletefile, makes them drift.
THEOREM DirCounts == Spec => []DirCountsExact
<1>1. Init => DirCountsExact
  <2>1. Init => \A k \in Kind : NotBusy(k) = OfKind(k)
    BY DEF Init, NotBusy
  <2> QED BY <2>1 DEF Init, DirCountsExact, Kind
<1>2. IInv /\ DirCountsExact /\ [Next]_vars => DirCountsExact'
  <2> SUFFICES ASSUME IInv, DirCountsExact, [Next]_vars
               PROVE  DirCountsExact'
    OBVIOUS
  <2>0. TypeOK /\ PcEnt /\ fs_idle \in [Kind -> Nat] /\ \A k \in {"dir", "leafdir"} : k \in Kind
    BY DEF IInv, TypeOK, CoreTypeOK, Kind
  <2>1. ASSUME UNCHANGED <<fse_busy, fs_idle>>
        PROVE  DirCountsExact'
    BY <2>1 DEF DirCountsExact, NotBusy
  <2>2. ASSUME NEW t \in Threads, StartFlowop(t) \/ SysCall(t) \/ Exit(t)
        PROVE  DirCountsExact'
    BY <2>0, <2>1, <2>2, StartIsLocal, SysCallIsLocal, ExitIsLocal
      DEF LocalStep, coreVars, claimVars
  <2>3. ASSUME NEW t \in Threads, WaitIdle(t) \/ PickFails(t) \/ WaitBusy(t)
        PROVE  DirCountsExact'
    BY <2>1, <2>3 DEF WaitIdle, PickWait, PickFails, PickNull, WaitBusy
  <2>4. ASSUME NEW t \in Threads, NEW e \in Entries, Pick(t, e)
        PROVE  DirCountsExact'
    <3> PICK k : k = OpKind(op[t])
      OBVIOUS
    <3>1. /\ k \in Kind /\ e \in OfKind(k) /\ e \notin fse_busy /\ fse_busy' = fse_busy \cup {e}
          /\ fs_idle' = [fs_idle EXCEPT ![k] = @ - 1]
      BY <2>0, <2>4, PickFinds
    <3>2. /\ Cardinality(NotBusy(k)') = Cardinality(NotBusy(k)) - 1
          /\ \A j \in Kind \ {k} : NotBusy(j)' = NotBusy(j)
      BY <3>1, ClaimCounts
    <3> QED BY <2>0, <3>1, <3>2 DEF DirCountsExact
  <2>5. ASSUME NEW t \in Threads, Grab(t)
        PROVE  DirCountsExact'
    <3>1. ent[t] \in OfKind("file") /\ ent[t] \notin fse_busy /\ fse_busy' = fse_busy \cup {ent[t]}
      BY <2>0, <2>5 DEF Grab, AtGrab, PcEnt, OfKind
    <3>2. \A j \in Kind \ {"file"} : NotBusy(j)' = NotBusy(j)
      BY <3>1, ClaimCounts DEF Kind
    <3>3. \A j \in Kind \ {"file"} : fs_idle'[j] = fs_idle[j]
      BY <2>0, <2>5 DEF Grab
    <3> QED BY <2>0, <3>2, <3>3 DEF DirCountsExact
  <2>6. ASSUME NEW t \in Threads, Unbusy(t)
        PROVE  DirCountsExact'
    <3> PICK e : e = ent[t]
      OBVIOUS
    <3> PICK k : k = KindOf(e)
      OBVIOUS
    <3>1. e \in Entries /\ e \in fse_busy
      <4>1. e \in Entries
        BY <2>0, <2>6, KindsDisjoint DEF Unbusy, PcEnt, OpKind, Kind
      <4> QED BY <2>6, <4>1 DEF Unbusy, IInv, BusyIsExclusive, Holds
    <3>2. fse_busy' = fse_busy \ {e} /\ fs_idle' = [fs_idle EXCEPT ![k] = @ + 1]
      BY <2>6, <3>1 DEF Unbusy, fileset_unbusy, Release
    <3>3. k \in Kind
      BY <3>1, KindsDisjoint
    <3>4. /\ Cardinality(NotBusy(k)') = Cardinality(NotBusy(k)) + 1
          /\ \A j \in Kind \ {k} : NotBusy(j)' = NotBusy(j)
      BY <3>1, <3>2, ReleaseCounts
    <3> QED BY <2>0, <3>2, <3>3, <3>4 DEF DirCountsExact
  <2>7. CASE RunEnds \/ UNCHANGED vars
    BY <2>1, <2>7 DEF RunEnds, vars, coreVars, claimVars
  <2> QED
    BY <2>2, <2>3, <2>4, <2>5, <2>6, <2>7 DEF Next, FlowopStep, Claim, Terminated
<1> QED
  BY <1>1, <1>2, Invariant, PTL DEF Spec

-----------------------------------------------------------------------------
(* The open counts, when all flowops use descriptor slot 0.                *)

OpenOps == {"openfile", "createfile", "readwrite"}

\* The thread has opened its slot, and has yet to count the open.
Opening(t) == pc[t] = "unbusy" /\ op[t] \in OpenOps

\* What a thread's place in its flowop says of its one slot.
SlotOf(t) ==
  /\ fdn[t] = 0
  /\ pc[t] = "pick" => op[t] # "closefile"
  /\ pc[t] = "grab" => op[t] = "closefile"
  /\ pc[t] \in {"pick", "held"} /\ op[t] \in OpenOps => tf_fd[t][0] = "closed"
  /\ pc[t] \in {"held", "unbusy"} /\ op[t] \in OpenOps => tf_fse[t][0] = ent[t]
  /\ pc[t] \in {"grab", "held", "unbusy"} /\ op[t] = "closefile" =>
       tf_fd[t][0] = "open" /\ tf_fse[t][0] = ent[t]
  /\ tf_fd[t][0] = "failed" =>
       pc[t] = "exit" \/ (Opening(t) /\ call[t].ret = "ERROR")
  /\ Opening(t) =>
       \/ tf_fd[t][0] = "open" /\ call[t].incr = 1
       \/ tf_fd[t][0] = "failed" /\ call[t].incr = 0
  /\ pc[t] = "unbusy" /\ op[t] = "closefile" => call[t].incr = -1
  /\ pc[t] = "unbusy" /\ op[t] \notin OpenOps \cup {"closefile"} => call[t].incr = 0

SlotState == \A t \in Threads : SlotOf(t)

\* The thread has e open in its slot, and the open has been counted.
HasOpen(t, e) == tf_fd[t][0] = "open" /\ tf_fse[t][0] = e /\ ~Opening(t)

Counted(e) == {t \in Threads : HasOpen(t, e)}

\* fse_open_cnt is the number of opens that have been counted, of a busy file too.
CountedExact == \A e \in Files : fse_open_cnt[e] = Cardinality(Counted(e))

\* A step leaves the state of the threads other than t alone.
OthersAlone(t) ==
  \A u \in Threads \ {t} :
    /\ pc'[u] = pc[u] /\ op'[u] = op[u] /\ fdn'[u] = fdn[u] /\ ent'[u] = ent[u]
    /\ call'[u] = call[u] /\ tf_fd'[u] = tf_fd[u] /\ tf_fse'[u] = tf_fse[u]

\* A step of one thread leaves the state of the others alone.
LEMMA StepsOthersAlone ==
  ASSUME TypeOK, NEW t \in Threads, StartFlowop(t) \/ FlowopStep(t) \/ Exit(t)
  PROVE  OthersAlone(t)
<1>0. FlowTypeOK
  BY DEF TypeOK
<1>1. CASE Exit(t)
  BY <1>0, <1>1 DEF Exit, OthersAlone, FlowTypeOK, tableVars
<1>2. CASE \E fd \in Fds : openfile(t, fd) \/ createfile(t, fd) \/ readwrite(t, fd)
  BY <1>0, <1>2 DEF openfile, createfile, readwrite, Begin, GoOn, ReturnAtOnce, Return,
    OthersAlone, FlowTypeOK, tableVars
<1>3. CASE \E fd \in Fds : deletefile(t, fd)
  BY <1>0, <1>3 DEF deletefile, Begin, GoOn, OthersAlone, FlowTypeOK
<1>4. CASE \E fd \in Fds : closefile(t, fd) \/ statfile(t, fd) \/ fsync(t, fd)
  BY <1>0, <1>4 DEF closefile, statfile, fsync, Begin, GoOn, ReturnAtOnce, Return,
    OthersAlone, FlowTypeOK, tableVars
<1>5. CASE \E o \in Ops : dirop(t, o)
  BY <1>0, <1>5 DEF dirop, Begin, GoOn, OthersAlone, FlowTypeOK
<1>6. CASE WaitIdle(t) \/ WaitBusy(t) \/ Grab(t) \/ PickFails(t)
  BY <1>0, <1>6 DEF WaitIdle, WaitBusy, Grab, PickFails, Return, OthersAlone, FlowTypeOK,
    threadVars, tableVars
<1>7. CASE \E e \in Entries : Pick(t, e)
  BY <1>0, <1>7 DEF Pick, OthersAlone, FlowTypeOK
<1>8. CASE SysCall(t)
  BY <1>0, <1>8 DEF SysCall, SysOpen, SysCreate, SysCreateNoParent, SysClose, SysUnlink, SysStat,
    SysMkdir, SysRmdir, SysListdir, SysDirFails, ToUnbusy, GiveUp, Return, OthersAlone, FlowTypeOK,
    tableVars
<1>9. CASE Unbusy(t)
  BY <1>0, <1>9 DEF Unbusy, Return, OthersAlone, FlowTypeOK
<1> QED
  BY <1>1, <1>2, <1>3, <1>4, <1>5, <1>6, <1>7, <1>8, <1>9 DEF StartFlowop, FlowopStep, Claim

\* So a step of t keeps the slots in order if it keeps its own.
LEMMA OthersKeepSlots ==
  ASSUME SlotState, NEW t \in Threads, OthersAlone(t), SlotOf(t)'
  PROVE  /\ SlotState'
         /\ \A u \in Threads \ {t} : \A e : HasOpen(u, e)' <=> HasOpen(u, e)
<1>1. ASSUME NEW u \in Threads \ {t}
      PROVE  SlotOf(u)'
  <2>1. SlotOf(u)
    BY DEF SlotState
  <2> QED BY <2>1 DEF OthersAlone, SlotOf, Opening
<1>2. \A u \in Threads \ {t} : \A e : HasOpen(u, e)' <=> HasOpen(u, e)
  BY DEF OthersAlone, HasOpen, Opening
<1>3. \A u \in Threads : SlotOf(u)'
  BY <1>1
<1> QED
  BY <1>2, <1>3 DEF SlotState

\* Starting a flowop changes no open.
LEMMA StartKeepsSlots ==
  ASSUME Fds = {0}, TypeOK, NEW t \in Threads, StartFlowop(t) \/ Exit(t), SlotOf(t)
  PROVE  SlotOf(t)' /\ (\A e : HasOpen(t, e)' <=> HasOpen(t, e)) /\ UNCHANGED fse_open_cnt
<1>0. FlowTypeOK /\ 0 \in Fds
  BY DEF TypeOK
<1>1. CASE Exit(t)
  BY <1>0, <1>1 DEF Exit, SlotOf, HasOpen, Opening, FlowTypeOK, tableVars, coreVars, flagVars
<1>2. CASE \E fd \in Fds : openfile(t, fd) \/ createfile(t, fd) \/ readwrite(t, fd)
  <2>1. PICK fd \in Fds : openfile(t, fd) \/ createfile(t, fd) \/ readwrite(t, fd)
    BY <1>2
  <2>2. fd = 0
    OBVIOUS
  <2> QED
    BY <1>0, <2>1, <2>2 DEF openfile, createfile, readwrite, Begin, GoOn, ReturnAtOnce, Return,
      SlotOf, HasOpen, Opening, FlowTypeOK, tableVars, coreVars, flagVars
<1>3. CASE \E fd \in Fds : deletefile(t, fd)
  <2>1. deletefile(t, 0)
    BY <1>3
  <2>2. ~(0 > 0)
    OBVIOUS
  <2>3. Begin(t, "deletefile", 0) /\ GoOn(t, "pick", NULL) /\ tf_fse' = tf_fse
    BY <2>1, <2>2 DEF deletefile
  <2> QED
    BY <1>0, <2>3 DEF Begin, GoOn, SlotOf, HasOpen, Opening, OpenOps, FlowTypeOK, coreVars, flagVars
<1>4. CASE \E fd \in Fds : closefile(t, fd) \/ statfile(t, fd) \/ fsync(t, fd)
  BY <1>0, <1>4 DEF closefile, statfile, fsync, Begin, GoOn, ReturnAtOnce, Return,
    SlotOf, HasOpen, Opening, OpenOps, FlowTypeOK, tableVars, coreVars, flagVars
<1>5. CASE \E o \in Ops : dirop(t, o)
  BY <1>0, <1>5 DEF dirop, Begin, GoOn, SlotOf, HasOpen, Opening, OpenOps, FlowTypeOK,
    coreVars, flagVars
<1> QED
  BY <1>1, <1>2, <1>3, <1>4, <1>5 DEF StartFlowop

\* Nor does claiming an entry: a slot that a pick sets is not open yet.
LEMMA ClaimKeepsSlots ==
  ASSUME Fds = {0}, TypeOK, NEW t \in Threads, Claim(t), SlotOf(t)
  PROVE  SlotOf(t)' /\ (\A e : HasOpen(t, e)' <=> HasOpen(t, e)) /\ UNCHANGED fse_open_cnt
<1>0. FlowTypeOK /\ 0 \in Fds
  BY DEF TypeOK
<1>1. CASE WaitIdle(t) \/ WaitBusy(t)
  BY <1>0, <1>1 DEF WaitIdle, WaitBusy, PickWait, SlotOf, HasOpen, Opening, threadVars, tableVars,
    flagVars
<1>2. CASE PickFails(t)
  BY <1>0, <1>2 DEF PickFails, AtPick, PickNull, Return, SlotOf, HasOpen, Opening, FlowTypeOK,
    tableVars, flagVars
<1>3. CASE Grab(t)
  BY <1>0, <1>3 DEF Grab, AtGrab, SlotOf, HasOpen, Opening, OpenOps, FlowTypeOK, tableVars, flagVars
<1>4. CASE \E e \in Entries : Pick(t, e)
  <2>1. PICK e \in Entries : Pick(t, e)
    BY <1>4
  <2>2. /\ pc[t] = "pick" /\ pc'[t] = "held" /\ ent'[t] = e
        /\ op' = op /\ fdn' = fdn /\ call' = call /\ tf_fd' = tf_fd
        /\ fse_open_cnt' = fse_open_cnt
    BY <1>0, <2>1 DEF Pick, AtPick, PickEntry, FlowTypeOK, flagVars
  <2>3. /\ op[t] \in OpenOps => tf_fse'[t][0] = e
        /\ op[t] \notin OpenOps => tf_fse'[t][0] = tf_fse[t][0]
    BY <1>0, <2>1 DEF Pick, OpenOps, FlowTypeOK, SlotOf
  <2>4. SlotOf(t)'
    BY <2>2, <2>3 DEF SlotOf, Opening, OpenOps
  <2>5. ASSUME NEW f, op[t] \in OpenOps
        PROVE  HasOpen(t, f)' <=> HasOpen(t, f)
    BY <2>2, <2>5 DEF SlotOf, HasOpen, OpenOps
  <2>6. ASSUME NEW f, op[t] \notin OpenOps
        PROVE  HasOpen(t, f)' <=> HasOpen(t, f)
    BY <2>2, <2>3, <2>6 DEF HasOpen, Opening
  <2>7. \A f : HasOpen(t, f)' <=> HasOpen(t, f)
    BY <2>5, <2>6
  <2> QED BY <2>2, <2>4, <2>7
<1> QED
  BY <1>1, <1>2, <1>3, <1>4 DEF Claim

\* Nor does a system call: an open that succeeds is not counted before the
\* fileset_unbusy(), and with slot 0 a file is deleted at an open count of 0 only.
LEMMA SysCallKeepsSlots ==
  ASSUME Fds = {0}, TypeOK, NEW t \in Threads, SysCall(t), SlotOf(t),
         op[t] = "deletefile" => fse_open_cnt[ent[t]] \in Nat
  PROVE  SlotOf(t)' /\ (\A e : HasOpen(t, e)' <=> HasOpen(t, e)) /\ UNCHANGED fse_open_cnt
<1>0. FlowTypeOK /\ 0 \in Fds
  BY DEF TypeOK
<1>1. CASE SysOpen(t) \/ SysCreate(t)
  <2>1. /\ pc[t] = "held" /\ pc'[t] = "unbusy" /\ op[t] \in OpenOps /\ fdn[t] = 0
        /\ op' = op /\ fdn' = fdn /\ ent' = ent /\ tf_fse' = tf_fse
        /\ fse_open_cnt' = fse_open_cnt
    BY <1>0, <1>1 DEF SysOpen, SysCreate, Holding, ToUnbusy, OpenOps, SlotOf, FlowTypeOK,
      coreVars, flagVars
  <2>2. \/ tf_fd'[t][0] = "open" /\ call'[t].incr = 1
        \/ tf_fd'[t][0] = "failed" /\ call'[t].incr = 0 /\ call'[t].ret = "ERROR"
    BY <1>0, <1>1, <2>1 DEF SysOpen, SysCreate, ToUnbusy, Args, FlowTypeOK
  <2> QED BY <2>1, <2>2 DEF SlotOf, HasOpen, Opening, OpenOps
<1>2. CASE SysClose(t)
  <2>1. call'[t].incr = -1
    BY <1>0, <1>2 DEF SysClose, ToUnbusy, Args, FlowTypeOK
  <2> QED
    BY <1>0, <1>2, <2>1 DEF SysClose, Holding, ToUnbusy, SlotOf, HasOpen, Opening, OpenOps,
      FlowTypeOK, coreVars, flagVars, tableVars
<1>3. CASE SysUnlink(t) \/ SysStat(t) \/ SysMkdir(t) \/ SysRmdir(t) \/ SysListdir(t)
  <2>1. /\ pc[t] = "held" /\ pc'[t] = "unbusy" /\ op[t] \notin OpenOps \cup {"closefile"}
        /\ op' = op /\ fdn' = fdn /\ ent' = ent /\ tf_fse' = tf_fse /\ tf_fd' = tf_fd
        /\ fse_open_cnt' = fse_open_cnt
    BY <1>0, <1>3 DEF SysUnlink, SysStat, SysMkdir, SysRmdir, SysListdir, Holding, ToUnbusy,
      OpenOps, FlowTypeOK, coreVars, flagVars, tableVars
  <2>2. call'[t].incr = 0
    <3>1. CASE ToUnbusy(t, NoCall) \/ SysMkdir(t) \/ SysRmdir(t)
      BY <1>0, <3>1 DEF ToUnbusy, NoCall, Args, SysMkdir, SysRmdir, FlowTypeOK
    <3>2. CASE SysUnlink(t) /\ ~DeleteRefused(t)
      <4>1. fse_open_cnt[ent[t]] = 0
        BY <3>2 DEF SysUnlink, Holding, DeleteRefused, SlotOf
      <4>2. call'[t].incr = -fse_open_cnt[ent[t]]
        BY <1>0, <3>2 DEF SysUnlink, ToUnbusy, Args, FlowTypeOK
      <4>3. ASSUME NEW n \in Int
            PROVE  -n = 0 - n
        OBVIOUS
      <4>4. call'[t].incr = 0 - fse_open_cnt[ent[t]]
        BY <3>2, <4>2, <4>3 DEF SysUnlink, Holding
      <4> QED BY <4>1, <4>4
    <3> QED BY <1>3, <3>1, <3>2 DEF SysUnlink, SysStat, SysListdir
  <2> QED BY <2>1, <2>2 DEF SlotOf, HasOpen, Opening, OpenOps
<1>4. CASE SysCreateNoParent(t) \/ SysDirFails(t)
  BY <1>0, <1>4 DEF SysCreateNoParent, SysDirFails, Holding, GiveUp, Return, SlotOf, HasOpen,
    Opening, OpenOps, FlowTypeOK, coreVars, flagVars, tableVars
<1> QED
  BY <1>1, <1>2, <1>3, <1>4 DEF SysCall

\* The counted opens of a file are finitely many.
LEMMA CountedFinite ==
  ASSUME NEW e
  PROVE  IsFiniteSet(Counted(e)) /\ Cardinality(Counted(e)) \in Nat
<1>1. Counted(e) \subseteq Threads /\ IsFiniteSet(Threads)
  BY FlowopAssumption DEF Counted
<1> HIDE DEF Counted
<1> QED
  BY <1>1, FS_Subset, FS_CardinalityType

\* fileset_unbusy() counts the open, or takes the close off the count, just as
\* the slot becomes counted, or closed.
LEMMA UnbusyKeepsCount ==
  ASSUME Fds = {0}, IInv, SlotState, CountedExact, NEW t \in Threads, Unbusy(t)
  PROVE  SlotState' /\ CountedExact'
<1> PICK e : e = ent[t]
  OBVIOUS
<1>0. /\ TypeOK /\ FlowTypeOK /\ 0 \in Fds /\ SlotOf(t) /\ OthersAlone(t)
      /\ fse_open_cnt \in [Entries -> Int] /\ call[t].incr \in Int
  BY StepsOthersAlone DEF IInv, TypeOK, CoreTypeOK, FlowTypeOK, SlotState, FlowopStep, Calls
<1>1. /\ pc[t] = "unbusy" /\ e \in Entries
      /\ pc'[t] = IF call[t].ret = "OK" THEN "loop" ELSE "exit"
      /\ op' = op /\ fdn' = fdn /\ tf_fse' = tf_fse
      /\ tf_fd'[t][0] = IF op[t] = "closefile" THEN "closed" ELSE tf_fd[t][0]
      /\ fse_open_cnt' = [fse_open_cnt EXCEPT ![e] = @ + call[t].incr]
  <2>1. pc[t] = "unbusy" /\ fdn[t] = 0
    BY <1>0 DEF Unbusy, SlotOf
  <2>2. e \in Entries
    BY <2>1, KindsDisjoint DEF IInv, PcEnt, OpKind, Kind
  <2> QED BY <1>0, <2>1, <2>2 DEF Unbusy, Return, fileset_unbusy, FlowTypeOK
<1>2. SlotOf(t)'
  BY <1>0, <1>1 DEF SlotOf, Opening, OpenOps
<1>3. SlotState' /\ \A u \in Threads \ {t} : \A f : HasOpen(u, f)' <=> HasOpen(u, f)
  BY <1>0, <1>2, OthersKeepSlots
<1>4. \A f \in Files \ {e} : fse_open_cnt'[f] = fse_open_cnt[f]
  BY <1>0, <1>1 DEF Entries
<1>5. fse_open_cnt'[e] = fse_open_cnt[e] + call[t].incr
  BY <1>0, <1>1
<1>6. CASE op[t] \in OpenOps /\ tf_fd[t][0] = "open"
  <2>1. /\ \A f : ~HasOpen(t, f)
        /\ \A f : HasOpen(t, f)' <=> f = e
        /\ call[t].incr = 1
    BY <1>0, <1>1, <1>6 DEF SlotOf, HasOpen, Opening, OpenOps
  <2>2. t \notin Counted(e) /\ Counted(e)' = Counted(e) \cup {t}
    BY <1>3, <2>1 DEF Counted
  <2>3. \A f : f # e => Counted(f)' = Counted(f)
    BY <1>3, <2>1 DEF Counted
  <2>4. Cardinality(Counted(e) \cup {t}) = Cardinality(Counted(e)) + 1
    BY <2>2, CountedFinite, FS_AddElement
  <2>5. e \in Files => fse_open_cnt'[e] = Cardinality(Counted(e)')
    BY <1>5, <2>1, <2>2, <2>4 DEF CountedExact
  <2>6. \A f \in Files \ {e} : fse_open_cnt'[f] = Cardinality(Counted(f)')
    BY <1>4, <2>3 DEF CountedExact
  <2> QED BY <1>3, <2>5, <2>6 DEF CountedExact
<1>7. CASE op[t] = "closefile"
  <2>1. /\ \A f : HasOpen(t, f) <=> f = e
        /\ \A f : ~HasOpen(t, f)'
        /\ call[t].incr = -1
    BY <1>0, <1>1, <1>7 DEF SlotOf, HasOpen, Opening, OpenOps
  <2>2. t \in Counted(e) /\ Counted(e)' = Counted(e) \ {t}
    BY <1>3, <2>1 DEF Counted
  <2>3. \A f : f # e => Counted(f)' = Counted(f)
    BY <1>3, <2>1 DEF Counted
  <2>4. Cardinality(Counted(e) \ {t}) = Cardinality(Counted(e)) - 1
    BY <2>2, CountedFinite, FS_RemoveElement
  <2>5. e \in Files => fse_open_cnt'[e] = Cardinality(Counted(e)')
    BY <1>5, <2>1, <2>2, <2>4, CountedFinite DEF CountedExact
  <2>6. \A f \in Files \ {e} : fse_open_cnt'[f] = Cardinality(Counted(f)')
    BY <1>4, <2>3 DEF CountedExact
  <2> QED BY <1>3, <2>5, <2>6 DEF CountedExact
<1>8. CASE op[t] # "closefile" /\ ~(op[t] \in OpenOps /\ tf_fd[t][0] = "open")
  <2>1. /\ \A f : HasOpen(t, f)' <=> HasOpen(t, f)
        /\ call[t].incr = 0
    BY <1>0, <1>1, <1>8 DEF SlotOf, HasOpen, Opening, OpenOps
  <2>2. \A f : Counted(f)' = Counted(f)
    BY <1>3, <2>1 DEF Counted
  <2>3. \A f \in Files : fse_open_cnt'[f] = fse_open_cnt[f]
    BY <1>0, <1>1, <1>4, <1>5, <2>1
  <2> QED BY <1>3, <2>2, <2>3 DEF CountedExact
<1> QED
  BY <1>6, <1>7, <1>8

\* Every step keeps the slots in order and the counts exact.
LEMMA NextSlots ==
  ASSUME Fds = {0}, IInv, SlotState, CountedExact, [Next]_vars
  PROVE  SlotState' /\ CountedExact'
<1>1. ASSUME NEW t \in Threads, StartFlowop(t) \/ Exit(t) \/ Claim(t) \/ SysCall(t)
      PROVE  SlotState' /\ CountedExact'
  <2>0. TypeOK /\ SlotOf(t) /\ OthersAlone(t)
    BY <1>1, StepsOthersAlone DEF IInv, SlotState, FlowopStep
  <2>1. SysCall(t) /\ op[t] = "deletefile" => fse_open_cnt[ent[t]] \in Nat
    <3> SUFFICES ASSUME SysCall(t), op[t] = "deletefile"
                 PROVE  fse_open_cnt[ent[t]] \in Nat
      OBVIOUS
    <3>1. pc[t] = "held"
      BY DEF SysCall, SysOpen, SysCreate, SysCreateNoParent, SysClose, SysUnlink, SysStat,
        SysMkdir, SysRmdir, SysListdir, SysDirFails, Holding
    <3>2. ent[t] \in Files
      BY <3>1 DEF IInv, PcEnt, OpKind, OfKind
    <3> QED BY <3>2, CountedFinite DEF CountedExact
  <2>2. SlotOf(t)' /\ (\A e : HasOpen(t, e)' <=> HasOpen(t, e)) /\ UNCHANGED fse_open_cnt
    BY <1>1, <2>0, <2>1, StartKeepsSlots, ClaimKeepsSlots, SysCallKeepsSlots
  <2>3. SlotState' /\ \A u \in Threads \ {t} : \A e : HasOpen(u, e)' <=> HasOpen(u, e)
    BY <2>0, <2>2, OthersKeepSlots
  <2>4. \A e : Counted(e)' = Counted(e)
    BY <2>2, <2>3 DEF Counted
  <2> QED BY <2>2, <2>3, <2>4 DEF CountedExact
<1>2. CASE RunEnds \/ UNCHANGED vars
  BY <1>2 DEF RunEnds, vars, coreVars, flagVars, threadVars, tableVars, SlotState, SlotOf,
    CountedExact, Counted, HasOpen, Opening
<1> QED
  BY <1>1, <1>2, UnbusyKeepsCount DEF Next, FlowopStep, Terminated

\* Initially nothing is open.
LEMMA InitSlots ==
  ASSUME Fds = {0}, Init
  PROVE  SlotState /\ CountedExact
<1>1. SlotState
  BY DEF Init, SlotState, SlotOf, Opening
<1>2. \A e : Counted(e) = {}
  BY DEF Init, Counted, HasOpen
<1> QED
  BY <1>1, <1>2, FS_EmptySet DEF Init, CountedExact, Entries

\* Who has a file open in a slot, but has not counted the open, has claimed it.
LEMMA OpeningClaims ==
  ASSUME IInv, SlotState, NEW t \in Threads, NEW e \in Files, Opening(t), tf_fse[t][0] = e
  PROVE  Holds(t, e) /\ e \in fse_busy
<1>1. Holds(t, e)
  BY DEF SlotState, SlotOf, Opening, Holds
<1> QED
  BY <1>1 DEF IInv, BusyIsExclusive, Entries

\* So the slots through which a file that nobody has claimed is open are as many
\* as the counted opens.
LEMMA OpenSlotsCounted ==
  ASSUME Fds = {0}, IInv, SlotState, NEW e \in Files, e \notin fse_busy
  PROVE  Cardinality(OpenSlots(e)) = Cardinality(Counted(e))
<1> DEFINE f == [t \in Counted(e) |-> <<t, 0>>]
<1>1. \A t \in Threads : t \in Counted(e) <=> tf_fd[t][0] = "open" /\ tf_fse[t][0] = e
  BY OpeningClaims DEF Counted, HasOpen
<1>2. OpenSlots(e) = {<<t, 0>> : t \in Counted(e)}
  <2>1. Counted(e) \subseteq Threads
    BY DEF Counted
  <2>2. \A s \in Threads \X Fds : s = <<s[1], 0>> /\ s[1] \in Threads /\ s[2] = 0
    OBVIOUS
  <2> HIDE DEF Counted
  <2>3. \A s : s \in OpenSlots(e) <=> \E t \in Counted(e) : s = <<t, 0>>
    BY <1>1, <2>1, <2>2 DEF OpenSlots
  <2> QED BY <2>3
<1> HIDE DEF Counted
<1>3. f \in Bijection(Counted(e), OpenSlots(e))
  BY <1>2 DEF Bijection, Injection, Surjection, IsInjective
<1>4. ExistsBijection(Counted(e), OpenSlots(e))
  BY <1>3 DEF ExistsBijection
<1> QED
  BY <1>4, CountedFinite, FS_Bijection

\* The counts are exact in every state of every run.
LEMMA SlotsInvariant ==
  ASSUME Fds = {0}
  PROVE  Spec => [](SlotState /\ CountedExact)
<1>1. Init => SlotState /\ CountedExact
  BY InitSlots
<1>2. IInv /\ SlotState /\ CountedExact /\ [Next]_vars => SlotState' /\ CountedExact'
  BY NextSlots
<1> QED
  BY <1>1, <1>2, Invariant, PTL DEF Spec

\* With descriptor slot 0 only, fse_open_cnt of a file that nobody has claimed is
\* the number of slots, over all threads, through which it is open, whatever
\* system calls fail: on this the test of deletefile rests.
THEOREM OpenCounts ==
  ASSUME Fds = {0}
  PROVE  Spec => []OpenCountExact
<1>1. IInv /\ SlotState /\ CountedExact => OpenCountExact
  BY OpenSlotsCounted DEF OpenCountExact, CountedExact
<1> QED
  BY <1>1, SlotsInvariant, Invariant, PTL

\* What NoUnlinkWhileOpenElsewhere says of one step.
UnlinkSafe ==
  \A t \in Threads :
    pc[t] = "held" /\ op[t] = "deletefile" /\ ent[t] \in disk \ disk' =>
      \A s \in OpenSlots(ent[t]) : s[1] = t

\* With descriptor slot 0 only, deletefile never unlinks a file that any thread
\* has open.
THEOREM NoUnlinkOpen ==
  ASSUME Fds = {0}
  PROVE  Spec => NoUnlinkWhileOpenElsewhere
<1>1. IInv /\ SlotState /\ CountedExact /\ [Next]_vars => UnlinkSafe
  <2> SUFFICES ASSUME IInv, SlotState, CountedExact, [Next]_vars,
                      NEW t \in Threads, pc[t] = "held", op[t] = "deletefile",
                      ent[t] \in disk, ent[t] \notin disk'
               PROVE  \A s \in OpenSlots(ent[t]) : s[1] = t
    BY DEF UnlinkSafe
  <2>0. ent[t] \in Files /\ ent[t] \in Entries
    BY DEF IInv, PcEnt, OpKind, OfKind, Entries
  <2>1. PICK u \in Threads : SysCall(u)
    <3>1. ASSUME NEW u \in Threads, StartFlowop(u) \/ Exit(u) \/ Claim(u) \/ Unbusy(u)
          PROVE  disk' = disk
      BY <3>1 DEF StartFlowop, openfile, createfile, readwrite, deletefile, closefile, statfile,
        fsync, dirop, GoOn, ReturnAtOnce, Exit, Claim, WaitIdle, PickFails, WaitBusy, Grab, Pick,
        Unbusy
    <3>2. RunEnds \/ UNCHANGED vars => disk' = disk
      BY DEF RunEnds, vars
    <3> QED BY <3>1, <3>2 DEF Next, FlowopStep, Terminated
  <2>2. pc[u] = "held" /\ disk' \in {disk, disk \cup {ent[u]}, disk \ {ent[u]}}
    BY <2>1 DEF SysCall, SysOpen, SysCreate, SysCreateNoParent, SysClose, SysUnlink, SysStat,
      SysMkdir, SysRmdir, SysListdir, SysDirFails, GiveUp, Attempt, Holding
  <2>3. u = t
    BY <2>0, <2>2 DEF IInv, BusyIsExclusive, Holds
  <2>4. SysUnlink(t) /\ ~DeleteRefused(t)
    BY <2>1, <2>3 DEF SysCall, SysOpen, SysCreate, SysCreateNoParent, SysClose, SysUnlink, SysStat,
      SysMkdir, SysRmdir, SysListdir, SysDirFails, GiveUp, Holding
  <2>5. ~(fse_open_cnt[ent[t]] > 0)
    BY <2>4 DEF DeleteRefused, SlotState, SlotOf
  <2>6. Cardinality(Counted(ent[t])) = 0
    BY <2>0, <2>5, CountedFinite DEF CountedExact
  <2>7. Counted(ent[t]) = {}
    BY <2>6, CountedFinite, FS_EmptySet
  <2>8. ASSUME NEW s \in OpenSlots(ent[t])
        PROVE  FALSE
    <3>1. s[1] \in Threads /\ s[2] = 0 /\ tf_fd[s[1]][0] = "open" /\ tf_fse[s[1]][0] = ent[t]
      BY DEF OpenSlots
    <3>2. Opening(s[1])
      BY <2>7, <3>1 DEF Counted, HasOpen
    <3>3. Holds(s[1], ent[t]) /\ Holds(t, ent[t])
      BY <2>0, <3>1, <3>2, OpeningClaims DEF Holds
    <3> QED BY <2>0, <3>1, <3>2, <3>3 DEF IInv, BusyIsExclusive, Opening
  <2> QED BY <2>8
<1>2. Spec => [][UnlinkSafe]_vars
  BY <1>1, SlotsInvariant, Invariant, PTL DEF Spec
<1> QED
  BY <1>2 DEF NoUnlinkWhileOpenElsewhere, UnlinkSafe
=============================================================================
