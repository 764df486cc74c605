------------------------ MODULE FilesetCreateProofs ------------------------
(***************************************************************************)
(* Proofs about FilesetCreate, for any numbers of files and directories,   *)
(* any limit on the allocation threads, and any number of calls.           *)
(*                                                                         *)
(* The result that fileset_createset() returns rests on one number,        *)
(* shm_fsparalloc_count, that threads count down and that a failure sets   *)
(* to -1 under them.  Counts says what it still tells: as long as it is    *)
(* not negative it is the number of threads at work, and a failure is on   *)
(* its way to it.  That no entry is left over rests on what is busy        *)
(* (Claimed) and on what each pick that finds nothing leaves (Left).       *)
(***************************************************************************)
EXTENDS FilesetCreate, FiniteSetTheorems, TLAPS

\* fileset_createset() has given up, or a tree is in pieces.
Stopped == mpc[1] \in {"error", "corrupt"}

\* The entry that the master has picked and not yet handed on.
Held == IF mpc[1] \in {"chosen", "limit", "alloc"} THEN {cur} ELSE {}

\* The files whose allocation threads have not released them, and those whose
\* threads have failed and not reported it.
Allocating == {e \in Files : alloc[e] \in {"write", "unbusy_ok", "unbusy_err"}}
Failing == {e \in Files : alloc[e] \in {"unbusy_err", "count_err"}}

\* Places of the master at which no allocation thread is at work.
Alone ==
  \/ mpc[1] \in {"start", "ok"}
  \/ mpc[1] \in {"reset_noex", "reset_exist"} /\ mpc[2] = "file"

\* What the master's place says of the type and the entry it works on.
Place ==
  /\ mpc[1] \in {"start", "limit"} => mpc[2] = "file"
  /\ mpc[1] \in {"finish", "check", "ok"} => mpc[2] = "leafdir"
  /\ mpc[1] \in {"reset_noex", "reset_exist"} => cur \in OfKind(mpc[2]) \cup {NULL}
  /\ mpc[1] \in {"chosen", "limit", "alloc"} => cur \in OfKind(mpc[2])

\* What shm_fsparalloc_count tells.
Counts ==
  /\ ~Stopped /\ paralloc_count >= 0 =>
       paralloc_count = Cardinality(Active) /\ (failed => Failing # {})
  /\ Alone => paralloc_count = 0
  /\ mpc[1] = "check" => paralloc_count <= 0
  /\ paralloc_count >= Cardinality(Active) - Cardinality(Files)

\* Busy is what the master or an allocation thread has, and what the run before has
\* left; what a thread has released is not free any more.
Claimed ==
  ~Stopped =>
    /\ fse_busy = Held \cup Allocating \cup remains.busy
    /\ Held \cap Active = {}
    /\ Active \cap fse_free \subseteq Allocating
    /\ (Held \cup Active) \cap remains.busy = {}

\* The idle counts are exact, but for the surplus that the run before has left.
IdleExact == \A k \in Kind : fs_idle[k] = Cardinality(NotBusy(k)) + Surplus(k, remains.surplus)

\* What the picks have left free.
Left ==
  /\ fse_free \subseteq Files \cup LeafDirs
  /\ ~Stopped /\ mpc[2] = "leafdir" => fse_free \cap Files \subseteq Allocating \cup remains.busy
  /\ mpc[1] \in {"finish", "check", "ok"} => fse_free \cap LeafDirs \subseteq remains.busy

\* The inductive invariant.
IInv == TypeOK /\ Place /\ Counts /\ Claimed /\ IdleExact /\ Left /\ TreesMatchFlags

\* The flags, what the allocation threads are about to set them to, and storage.
Stored ==
  /\ creates = 0 => mpc[1] = "start" /\ fse_exists = Dirs
  /\ fse_exists \ (Dirs \cup remains.astray) \subseteq disk
  /\ \A e \in Files : alloc[e] = "unbusy_ok" => e \in disk

\* fileset_create() does not remove from storage what an earlier call has made.
KeepsStorage == Reuse \/ Trust \/ MaxCreates <= 1

\* ReadyWhenOK but for what FSE_EXISTS says of storage.
CompleteWhenOK ==
  mpc[1] = "ok" =>
    /\ ~failed
    /\ Active = {}
    /\ fse_busy = remains.busy /\ fse_free \subseteq remains.busy
    /\ \A k \in Kind : fs_idle[k] = Cardinality(NotBusy(k)) + Surplus(k, remains.surplus)

-----------------------------------------------------------------------------
(* The entries, and counting those that are not busy.                      *)

\* The types are disjoint and finite, and KindOf() finds an entry's.
LEMMA Kinds ==
  /\ \A e \in Entries : KindOf(e) \in Kind /\ e \in OfKind(KindOf(e))
  /\ \A j, k \in Kind, e \in Entries : e \in OfKind(j) /\ e \in OfKind(k) => j = k
  /\ \A k \in Kind : OfKind(k) \subseteq Entries /\ IsFiniteSet(OfKind(k))
  /\ OfKind("file") = Files /\ OfKind("leafdir") = LeafDirs
  /\ NULL \notin Entries /\ Master \in Threads
  BY EntriesAssumption, NullAssumption, CreateAssumption DEF Kind, OfKind, KindOf, Entries

\* The entries of a type that are not busy are finitely many.
LEMMA NotBusyFinite ==
  ASSUME NEW k \in Kind
  PROVE  IsFiniteSet(NotBusy(k)) /\ Cardinality(NotBusy(k)) \in Nat
<1>1. IsFiniteSet(NotBusy(k))
  BY Kinds, FS_Subset DEF NotBusy
<1> QED
  BY <1>1, FS_CardinalityType

\* A surplus is a number.
LEMMA SurplusNat ==
  ASSUME remains \in Remains, NEW k
  PROVE  Surplus(k, remains.surplus) \in Nat
  BY DEF Remains, Surplus

\* Claiming an entry that is not busy, and counting it, keeps the idle counts exact.
LEMMA ClaimIdle ==
  ASSUME CoreTypeOK, remains \in Remains, UNCHANGED remains,
         IdleExact, NEW k \in Kind, NEW e \in OfKind(k), e \notin fse_busy,
         fse_busy' = fse_busy \cup {e}, fs_idle' = [fs_idle EXCEPT ![k] = @ - 1]
  PROVE  IdleExact'
<1>1. e \in NotBusy(k) /\ NotBusy(k)' = NotBusy(k) \ {e}
  BY DEF NotBusy
<1>2. Cardinality(NotBusy(k)') = Cardinality(NotBusy(k)) - 1
  BY <1>1, NotBusyFinite, FS_RemoveElement
<1>3. \A j \in Kind \ {k} : NotBusy(j)' = NotBusy(j)
  BY Kinds DEF NotBusy
<1>4. Surplus(k, remains.surplus) \in Nat /\ Cardinality(NotBusy(k)) \in Nat
  BY SurplusNat, NotBusyFinite
<1> HIDE DEF NotBusy
<1> QED
  BY <1>2, <1>3, <1>4 DEF IdleExact, CoreTypeOK

\* So does a release.
LEMMA ReleaseIdle ==
  ASSUME CoreTypeOK, remains \in Remains, UNCHANGED remains,
         IdleExact, NEW e \in Entries, e \in fse_busy, Release(e)
  PROVE  IdleExact'
<1>1. PICK k \in Kind : k = KindOf(e) /\ e \in OfKind(k)
  BY Kinds
<1>2. e \notin NotBusy(k) /\ NotBusy(k)' = NotBusy(k) \cup {e}
  BY <1>1 DEF NotBusy, Release
<1>3. Cardinality(NotBusy(k)') = Cardinality(NotBusy(k)) + 1
  BY <1>2, NotBusyFinite, FS_AddElement
<1>4. \A j \in Kind \ {k} : NotBusy(j)' = NotBusy(j)
  BY <1>1, Kinds DEF NotBusy, Release
<1>5. fs_idle' = [fs_idle EXCEPT ![k] = @ + 1]
  BY <1>1 DEF Release
<1>6. Surplus(k, remains.surplus) \in Nat /\ Cardinality(NotBusy(k)) \in Nat
  BY SurplusNat, NotBusyFinite
<1> HIDE DEF NotBusy
<1> QED
  BY <1>3, <1>4, <1>5, <1>6 DEF IdleExact, CoreTypeOK

\* What fileset_unbusy() does, as far as the master and the allocation threads see it.
LEMMA UnbusyDoes ==
  ASSUME CoreTypeOK, remains \in Remains, UNCHANGED remains,
         IdleExact, TreesMatchFlags, NEW e \in Entries, NEW x \in BOOLEAN,
         fileset_unbusy(e, TRUE, x, 0)
  PROVE  /\ CoreTypeOK' /\ IdleExact' /\ TreesMatchFlags'
         /\ fse_busy' = fse_busy \ {e} /\ fse_free' = fse_free \ {e}
         /\ fse_exists' = IF x THEN fse_exists \cup {e} ELSE fse_exists \ {e}
<1>1. /\ fse_exists' = IF x THEN fse_exists \cup {e} ELSE fse_exists \ {e}
      /\ fse_free' = fse_free \ {e}
  BY DEF fileset_unbusy, UpdateExist
<1>2. /\ fse_busy' = fse_busy \ {e} /\ fs_rotor' = fs_rotor
      /\ e \in fse_busy => Release(e)
      /\ e \notin fse_busy => UNCHANGED <<fse_busy, fse_waitng, thrd_wait_cv, fs_idle, idle_cv>>
  BY DEF fileset_unbusy, Release
<1>3. TreesMatchFlags'
  <2>1. CASE e \in Dirs
    <3>1. fs_tree' = fs_tree
      BY <2>1 DEF fileset_unbusy, UpdateExist
    <3> QED BY <1>1, <2>1, <3>1, EntriesAssumption DEF TreesMatchFlags
  <2>2. CASE e \notin Dirs
    <3>1. e \in Files \cup LeafDirs /\ DOMAIN fs_tree = {"free", "exist", "noex"}
      BY <2>2 DEF Entries, CoreTypeOK, Tree
    <3>2. CASE e \in fse_free /\ x
      <4>1. fs_tree' = [fs_tree EXCEPT !["free"] = @ \ {e}, !["exist"] = @ \cup {e}]
        BY <2>2, <3>2 DEF fileset_unbusy, UpdateExist, fileset_move_entry
      <4> QED BY <1>1, <3>1, <3>2, <4>1 DEF TreesMatchFlags
    <3>3. CASE e \in fse_free /\ ~x
      <4>1. fs_tree' = [fs_tree EXCEPT !["free"] = @ \ {e}, !["noex"] = @ \cup {e}]
        BY <2>2, <3>3 DEF fileset_unbusy, UpdateExist, fileset_move_entry
      <4> QED BY <1>1, <3>1, <3>3, <4>1 DEF TreesMatchFlags
    <3>4. CASE e \notin fse_free /\ x /\ e \notin fse_exists
      <4>1. fs_tree' = [fs_tree EXCEPT !["noex"] = @ \ {e}, !["exist"] = @ \cup {e}]
        BY <2>2, <3>4 DEF fileset_unbusy, UpdateExist, fileset_move_entry
      <4> QED BY <1>1, <3>1, <3>4, <4>1 DEF TreesMatchFlags
    <3>5. CASE e \notin fse_free /\ ~x /\ e \in fse_exists
      <4>1. fs_tree' = [fs_tree EXCEPT !["exist"] = @ \ {e}, !["noex"] = @ \cup {e}]
        BY <2>2, <3>5 DEF fileset_unbusy, UpdateExist, fileset_move_entry
      <4> QED BY <1>1, <3>1, <3>5, <4>1 DEF TreesMatchFlags
    <3>6. CASE e \notin fse_free /\ (x <=> e \in fse_exists)
      <4>1. fs_tree' = fs_tree
        BY <2>2, <3>6 DEF fileset_unbusy, UpdateExist
      <4> QED BY <1>1, <3>6, <4>1 DEF TreesMatchFlags
    <3> QED BY <3>2, <3>3, <3>4, <3>5, <3>6
  <2> QED BY <2>1, <2>2
<1>4. IdleExact'
  <2>1. CASE e \in fse_busy
    BY <1>2, <2>1, ReleaseIdle
  <2>2. CASE e \notin fse_busy
    BY <1>2, <2>2 DEF IdleExact, NotBusy
  <2> QED BY <2>1, <2>2
<1>5. CoreTypeOK'
  <2>1. fs_tree' \in [Tree -> SUBSET (Files \cup LeafDirs)]
    <3>1. ASSUME NEW src \in Tree, NEW dst \in Tree, e \notin Dirs, fileset_move_entry(src, dst, e)
          PROVE  fs_tree' \in [Tree -> SUBSET (Files \cup LeafDirs)]
      <4>1. e \in Files \cup LeafDirs
        BY <3>1 DEF Entries
      <4> QED BY <3>1, <4>1 DEF fileset_move_entry, CoreTypeOK
    <3>2. fs_tree' = fs_tree \/ \E src, dst \in Tree : e \notin Dirs /\ fileset_move_entry(src, dst, e)
      <4>1. {"free", "exist", "noex"} = Tree
        BY DEF Tree
      <4> QED BY <4>1 DEF fileset_unbusy, UpdateExist
    <3> QED BY <3>1, <3>2 DEF CoreTypeOK
  <2>2. fse_open_cnt' \in [Entries -> Int]
    BY DEF CoreTypeOK, fileset_unbusy
  <2>3. fs_idle' \in [Kind -> Nat] /\ idle_cv' \in [Kind -> SUBSET Threads]
    BY <1>2, Kinds DEF CoreTypeOK, Release, SignalIdle
  <2>4. /\ fse_busy' \subseteq Entries /\ fse_waitng' \subseteq Entries
        /\ thrd_wait_cv' \subseteq Threads /\ fs_rotor' \in [Rotor -> Nat]
    BY <1>2 DEF CoreTypeOK, Release
  <2>5. fse_free' \subseteq Entries /\ fse_exists' \subseteq Entries
    BY <1>1 DEF CoreTypeOK
  <2> QED BY <2>1, <2>2, <2>3, <2>4, <2>5 DEF CoreTypeOK
<1> QED
  BY <1>1, <1>2, <1>3, <1>4, <1>5

-----------------------------------------------------------------------------
(* The steps that touch the shared state of the fileset.                   *)

\* A pick takes a free entry that is not busy.
LEMMA PickDoes ==
  ASSUME IInv, MasterPicks
  PROVE  \E k \in {"file", "leafdir"} : \E e \in OfKind(k) :
           /\ mpc = <<"pick", k>> /\ mpc' = <<"chosen", k>> /\ cur' = e
           /\ e \in fse_free /\ e \notin fse_busy
           /\ fse_busy' = fse_busy \cup {e} /\ UNCHANGED <<flagVars, restOfMaster>>
           /\ CoreTypeOK' /\ IdleExact'
<1>1. PICK k \in {"file", "leafdir"}, e \in Entries :
        /\ mpc = <<"pick", k>> /\ mpc' = <<"chosen", k>> /\ cur' = e /\ UNCHANGED restOfMaster
        /\ PickEntry(k, "free", NULL, TRUE, e)
  BY DEF MasterPicks, At
<1>2. e \in PickTree(k, "free") /\ e \notin fse_busy
  BY <1>1 DEF PickEntry, fileset_find_entry
<1>3. k \in Kind /\ e \in OfKind(k) /\ e \in fs_tree["free"]
  BY <1>2 DEF PickTree, Kind
<1>4. e \in fse_free
  BY <1>3 DEF IInv, TreesMatchFlags
<1>5. /\ fs_idle[k] # 0 /\ fs_idle' = [fs_idle EXCEPT ![k] = @ - 1] /\ fse_busy' = fse_busy \cup {e}
      /\ fs_rotor' = fs_rotor /\ UNCHANGED <<flagVars, fse_waitng, idle_cv, thrd_wait_cv>>
  BY <1>1 DEF PickEntry, AdvanceRotor
<1>6. CoreTypeOK /\ IdleExact /\ remains \in Remains /\ UNCHANGED remains
  BY <1>1 DEF IInv, TypeOK, restOfMaster
<1>7. CoreTypeOK'
  BY <1>1, <1>3, <1>5, <1>6 DEF CoreTypeOK, flagVars
<1>8. IdleExact'
  BY <1>2, <1>3, <1>5, <1>6, ClaimIdle
<1> QED
  BY <1>1, <1>2, <1>3, <1>4, <1>5, <1>7, <1>8

\* A turn of fileset_pickreset() frees an entry, or finds a tree in pieces.
LEMMA ResetDoes ==
  ASSUME IInv, ResetTurn("reset_noex", "noex") \/ ResetTurn("reset_exist", "exist")
  PROVE  \E k \in {"file", "leafdir"} :
           /\ mpc \in {<<"reset_noex", k>>, <<"reset_exist", k>>} /\ UNCHANGED restOfMaster
           /\ CoreTypeOK' /\ IdleExact' /\ TreesMatchFlags'
           /\ \/ mpc' = <<"corrupt", k>> /\ UNCHANGED <<coreVars, cur>>
              \/ /\ mpc' = mpc /\ cur' \in OfKind(k) \cup {NULL}
                 /\ cur \in OfKind(k) /\ fse_free' = fse_free \cup {cur}
                 /\ UNCHANGED <<fse_exists, claimVars>>
<1>1. PICK p \in {"reset_noex", "reset_exist"}, src \in {"noex", "exist"} : ResetTurn(p, src)
  OBVIOUS
<1>2. PICK k \in {"file", "leafdir"} :
        /\ mpc = <<p, k>> /\ cur # NULL /\ UNCHANGED restOfMaster
        /\ \/ mpc' = <<"corrupt", k>> /\ UNCHANGED <<coreVars, cur>>
           \/ /\ cur \in fs_tree[src]
              /\ fse_free' = fse_free \cup {cur}
              /\ fse_open_cnt' = [fse_open_cnt EXCEPT ![cur] = 0]
              /\ fileset_move_entry(src, "free", cur)
              /\ cur' \in OfKind(k) \cup {NULL}
              /\ UNCHANGED <<mpc, fse_exists, claimVars>>
  BY <1>1 DEF ResetTurn, At, Lowest, restOfMaster
<1>3. CoreTypeOK /\ IdleExact /\ TreesMatchFlags /\ UNCHANGED remains
  BY <1>2 DEF IInv, TypeOK, restOfMaster
<1>4. CASE UNCHANGED coreVars /\ mpc' = <<"corrupt", k>> /\ UNCHANGED cur
  <2>1. CoreTypeOK' /\ IdleExact' /\ TreesMatchFlags'
    BY <1>3, <1>4 DEF CoreTypeOK, IdleExact, NotBusy, TreesMatchFlags, coreVars, flagVars, claimVars
  <2> QED BY <1>2, <1>4, <2>1
<1>5. CASE /\ cur \in fs_tree[src] /\ fse_free' = fse_free \cup {cur}
           /\ fse_open_cnt' = [fse_open_cnt EXCEPT ![cur] = 0]
           /\ fileset_move_entry(src, "free", cur) /\ cur' \in OfKind(k) \cup {NULL}
           /\ UNCHANGED <<mpc, fse_exists, claimVars>>
  <2>1. cur \in OfKind(k)
    BY <1>2 DEF IInv, Place
  <2>2. cur \in Files \cup LeafDirs /\ DOMAIN fs_tree = {"free", "exist", "noex"}
    BY <2>1, Kinds, <1>3 DEF CoreTypeOK, Tree
  <2>3. fs_tree' = [fs_tree EXCEPT ![src] = @ \ {cur}, !["free"] = @ \cup {cur}]
    BY <1>5 DEF fileset_move_entry
  <2>4. TreesMatchFlags'
    BY <1>3, <1>5, <2>2, <2>3 DEF TreesMatchFlags
  <2>5. IdleExact'
    BY <1>3, <1>5 DEF IdleExact, NotBusy, claimVars
  <2>6. CoreTypeOK'
    <3>1. fs_tree' \in [Tree -> SUBSET (Files \cup LeafDirs)]
      BY <1>3, <2>2, <2>3 DEF CoreTypeOK
    <3>2. fse_open_cnt' \in [Entries -> Int] /\ fse_free' \subseteq Entries
      BY <1>3, <1>5, <2>2 DEF CoreTypeOK, Entries
    <3> QED BY <1>3, <1>5, <3>1, <3>2 DEF CoreTypeOK, claimVars
  <2> QED BY <1>2, <1>5, <2>1, <2>4, <2>5, <2>6
<1> QED
  BY <1>2, <1>4, <1>5

\* Skipping an entry, or allocating it in the master, returns it.
LEMMA ReturnDoes ==
  ASSUME IInv, Skip \/ AllocHere
  PROVE  \E k \in {"file", "leafdir"}, x \in BOOLEAN :
           /\ mpc \in {<<"chosen", k>>, <<"alloc", k>>} /\ cur \in OfKind(k)
           /\ CoreTypeOK' /\ IdleExact' /\ TreesMatchFlags'
           /\ fse_busy' = fse_busy \ {cur} /\ fse_free' = fse_free \ {cur}
           /\ fse_exists' = IF x THEN fse_exists \cup {cur} ELSE fse_exists \ {cur}
           /\ cur' = NULL
           /\ UNCHANGED <<alloc, paralloc_count, paralloc_wait, reusing, creates, max_paralloc, remains>>
           /\ \/ mpc' = <<"pick", k>> /\ UNCHANGED failed
              \/ mpc' = <<"error", k>> /\ failed' = TRUE
           /\ disk \subseteq disk' /\ disk' \subseteq disk \cup {cur} /\ (x => cur \in disk')
<1>1. PICK k \in {"file", "leafdir"}, x \in BOOLEAN :
        /\ mpc \in {<<"chosen", k>>, <<"alloc", k>>}
        /\ fileset_unbusy(cur, TRUE, x, 0) /\ cur' = NULL
        /\ UNCHANGED <<alloc, paralloc_count, paralloc_wait, reusing, creates, max_paralloc, remains>>
        /\ \/ mpc' = <<"pick", k>> /\ UNCHANGED failed
           \/ mpc' = <<"error", k>> /\ failed' = TRUE
        /\ disk \subseteq disk' /\ disk' \subseteq disk \cup {cur} /\ (x => cur \in disk')
  <2>1. CASE Skip
    BY <2>1 DEF Skip, At, restOfMaster
  <2>2. CASE AllocHere
    BY <2>2 DEF AllocHere, At
  <2> QED BY <2>1, <2>2
<1>2. cur \in OfKind(k) /\ cur \in Entries
  BY <1>1, Kinds DEF IInv, Place, Kind
<1>3. CoreTypeOK /\ IdleExact /\ TreesMatchFlags /\ remains \in Remains
  BY DEF IInv, TypeOK
<1>4. /\ CoreTypeOK' /\ IdleExact' /\ TreesMatchFlags'
      /\ fse_busy' = fse_busy \ {cur} /\ fse_free' = fse_free \ {cur}
      /\ fse_exists' = IF x THEN fse_exists \cup {cur} ELSE fse_exists \ {cur}
  BY <1>1, <1>2, <1>3, UnbusyDoes
<1> QED
  BY <1>1, <1>2, <1>4

\* So does an allocation thread.
LEMMA ThreadReturns ==
  ASSUME IInv, NEW e \in Files, ThreadUnbusies(e)
  PROVE  /\ CoreTypeOK' /\ IdleExact' /\ TreesMatchFlags'
         /\ fse_busy' = fse_busy \ {e} /\ fse_free' = fse_free \ {e}
         /\ UNCHANGED <<restOfThread, paralloc_count, paralloc_wait, disk, failed>>
         /\ \/ /\ alloc[e] = "unbusy_ok" /\ alloc' = [alloc EXCEPT ![e] = "count_ok"]
               /\ fse_exists' = fse_exists \cup {e}
            \/ /\ alloc[e] = "unbusy_err" /\ alloc' = [alloc EXCEPT ![e] = "count_err"]
               /\ fse_exists' = fse_exists \ {e}
<1>1. /\ CoreTypeOK /\ IdleExact /\ TreesMatchFlags /\ e \in Entries
      /\ remains \in Remains /\ UNCHANGED remains
  BY DEF IInv, TypeOK, Entries, ThreadUnbusies, restOfThread
<1>2. CASE alloc[e] = "unbusy_ok" /\ fileset_unbusy(e, TRUE, TRUE, 0)
           /\ alloc' = [alloc EXCEPT ![e] = "count_ok"]
  BY <1>1, <1>2, UnbusyDoes DEF ThreadUnbusies
<1>3. CASE alloc[e] = "unbusy_err" /\ fileset_unbusy(e, TRUE, FALSE, 0)
           /\ alloc' = [alloc EXCEPT ![e] = "count_err"]
  BY <1>1, <1>3, UnbusyDoes DEF ThreadUnbusies
<1> QED
  BY <1>2, <1>3 DEF ThreadUnbusies

\* What a run leaves: an entry is in the tree its flags name, the idle counts are exact
\* but for the surplus, and remains says which entries are busy, and which have
\* FSE_EXISTS and are not on storage.
LEMMA AgainDoes ==
  ASSUME IInv, Again
  PROVE  /\ CoreTypeOK' /\ IdleExact' /\ TreesMatchFlags'
         /\ remains' \in Remains /\ disk' \subseteq Files \cup LeafDirs
         /\ mpc = <<"ok", "leafdir">> /\ mpc' = <<"start", "file">>
         /\ fse_free' = fse_free /\ fse_busy' = remains'.busy
         /\ fse_exists' \ (Dirs \cup remains'.astray) \subseteq disk'
         /\ UNCHANGED <<cur, alloc, paralloc_count, paralloc_wait, reusing, failed, creates,
                       max_paralloc>>
<1>0. CoreTypeOK /\ TreesMatchFlags /\ remains \in Remains
  BY DEF IInv, TypeOK
<1>1. PICK surplus \in remains.surplus..MaxSurplus, lock \in BOOLEAN :
        /\ RunClaims(surplus) /\ RunEntries
        /\ remains' = [busy |-> fse_busy', astray |-> (fse_exists' \ Dirs) \ disk',
                       surplus |-> surplus, waited |-> {k \in Kind : idle_cv'[k] # {}}, lock |-> lock]
  BY DEF Again
<1>2. /\ mpc = <<"ok", "leafdir">> /\ mpc' = <<"start", "file">>
      /\ UNCHANGED <<cur, alloc, paralloc_count, paralloc_wait, reusing, failed, creates, max_paralloc>>
  BY DEF Again, At
<1>3. surplus \in Nat
  BY <1>0, CreateAssumption DEF Remains
<1>4. /\ fse_busy' \subseteq Entries
      /\ fs_idle' = [k \in Kind |-> Cardinality(OfKind(k) \ fse_busy') + Surplus(k, surplus)]
      /\ idle_cv' \in [Kind -> SUBSET Threads] /\ UNCHANGED <<fse_waitng, fs_rotor, thrd_wait_cv>>
  BY <1>1 DEF RunClaims
<1>5. PICK exists \in SUBSET ((Files \cup LeafDirs) \ fse_free) :
        /\ fse_exists' = Dirs \cup exists \cup (fse_exists \cap fse_free)
        /\ fs_tree' = [fs_tree EXCEPT !["exist"] = exists,
                                      !["noex"] = (Files \cup LeafDirs) \ (exists \cup fse_free)]
        /\ disk' \subseteq Files \cup LeafDirs /\ UNCHANGED <<fse_free, fse_open_cnt>>
  BY <1>1 DEF RunEntries
<1>6. DOMAIN fs_tree = {"free", "exist", "noex"} /\ fse_exists \subseteq Entries
  BY <1>0 DEF CoreTypeOK, Tree
<1>7. TreesMatchFlags'
  BY <1>0, <1>5, <1>6, EntriesAssumption DEF TreesMatchFlags
<1>8. \A k \in Kind : Surplus(k, surplus) \in Nat /\ Cardinality(OfKind(k) \ fse_busy') \in Nat
  BY <1>3, Kinds, FS_Subset, FS_CardinalityType DEF Surplus
<1>9. CoreTypeOK'
  <2>1. fs_tree' \in [Tree -> SUBSET (Files \cup LeafDirs)]
    BY <1>0, <1>5 DEF CoreTypeOK
  <2>2. fs_idle' \in [Kind -> Nat]
    BY <1>4, <1>8
  <2>3. fse_exists' \subseteq Entries
    BY <1>5, <1>6 DEF Entries
  <2> QED BY <1>0, <1>4, <1>5, <2>1, <2>2, <2>3 DEF CoreTypeOK
<1>10. IdleExact'
  <2>1. remains'.surplus = surplus
    BY <1>1
  <2> QED BY <1>4, <2>1 DEF IdleExact, NotBusy
<1>11. remains' \in Remains
  <2>1. fse_exists' \ Dirs \subseteq Files \cup LeafDirs
    BY <1>5, <1>6 DEF Entries
  <2> QED BY <1>1, <1>3, <1>4, <2>1 DEF Remains
<1>12. fse_busy' = remains'.busy /\ fse_exists' \ (Dirs \cup remains'.astray) \subseteq disk'
  BY <1>1
<1> QED
  BY <1>2, <1>5, <1>7, <1>9, <1>10, <1>11, <1>12

\* The other steps of the master within a call: they leave the flags, what is busy and the counts
\* alone, and blocking is all they do to the threads.
Elsewhere ==
  \/ Start \/ ResetDone \/ MasterWaitsIdle \/ MasterPickedAll \/ Allocate
  \/ LimitWait \/ LimitError \/ Fire \/ FireFails \/ FinishWait \/ Finish \/ Check

\* They keep what is said of the shared state alone.
LEMMA ElsewhereQuiet ==
  ASSUME IInv, Elsewhere \/ \E e \in Files : ThreadWrites(e) \/ ThreadCounts(e)
  PROVE  /\ UNCHANGED <<fse_free, fse_exists, fse_busy, remains>>
         /\ CoreTypeOK' /\ IdleExact' /\ TreesMatchFlags'
<1>0. CoreTypeOK /\ IdleExact /\ TreesMatchFlags /\ UNCHANGED remains
  <2>1. UNCHANGED remains
    BY DEF Elsewhere, Start, ResetDone, MasterWaitsIdle, MasterPickedAll, Allocate, LimitWait, LimitError,
      Fire, FireFails, FinishWait, Finish, Check, ThreadWrites, ThreadCounts, restOfMaster, restOfThread,
      createVars
  <2> QED BY <2>1 DEF IInv, TypeOK
<1>1. CASE UNCHANGED coreVars
  BY <1>0, <1>1 DEF CoreTypeOK, IdleExact, NotBusy, TreesMatchFlags, coreVars, flagVars, claimVars
<1>2. CASE MasterWaitsIdle
  <2>1. PICK k \in Kind : PickWait(Master, k)
    BY <1>2 DEF MasterWaitsIdle, Kind
  <2>2. UNCHANGED <<flagVars, fse_busy, fse_waitng, fs_idle, fs_rotor, thrd_wait_cv>>
    BY <2>1 DEF PickWait
  <2>3. idle_cv' \in [Kind -> SUBSET Threads]
    BY <1>0, <2>1, Kinds DEF PickWait, CoreTypeOK
  <2> QED BY <1>0, <2>2, <2>3 DEF CoreTypeOK, IdleExact, NotBusy, TreesMatchFlags, flagVars
<1>3. CASE MasterPickedAll
  <2>1. UNCHANGED coreVars
    BY <1>3 DEF MasterPickedAll, PickNull, AdvanceRotor, coreVars, claimVars
  <2> QED BY <1>1, <2>1
<1>4. CASE \/ Start \/ ResetDone \/ Allocate \/ LimitWait \/ LimitError \/ Fire \/ FireFails
           \/ FinishWait \/ Finish \/ Check
           \/ \E e \in Files : ThreadWrites(e) \/ ThreadCounts(e)
  <2>1. UNCHANGED coreVars
    BY <1>4 DEF Start, ResetDone, Allocate, LimitWait, LimitError, Fire, FireFails, FinishWait,
      Finish, Check, ThreadWrites, ThreadCounts
  <2> QED BY <1>1, <2>1
<1> QED
  BY <1>2, <1>3, <1>4 DEF Elsewhere

\* The steps of the specification.
LEMMA Steps ==
  ASSUME [Next]_vars
  PROVE  \/ Elsewhere \/ Again \/ MasterPicks
         \/ ResetTurn("reset_noex", "noex") \/ ResetTurn("reset_exist", "exist")
         \/ Skip \/ AllocHere
         \/ \E e \in Files : ThreadWrites(e) \/ ThreadCounts(e) \/ ThreadUnbusies(e)
         \/ UNCHANGED vars
  BY DEF Next, Master_Next, Thread_Next, Elsewhere

\* Every step keeps the types of the shared state, the idle counts and the trees.
LEMMA NextCore ==
  ASSUME IInv, [Next]_vars
  PROVE  CoreTypeOK' /\ IdleExact' /\ TreesMatchFlags'
<1>1. CASE UNCHANGED vars
  BY <1>1 DEF IInv, TypeOK, CoreTypeOK, IdleExact, NotBusy, TreesMatchFlags, vars, coreVars,
    flagVars, claimVars, createVars
<1>2. CASE MasterPicks
  <2>1. CoreTypeOK' /\ IdleExact' /\ UNCHANGED flagVars
    BY <1>2, PickDoes
  <2> QED BY <2>1 DEF IInv, TreesMatchFlags, flagVars
<1> QED
  BY <1>1, <1>2, Steps, ElsewhereQuiet, AgainDoes, ResetDoes, ReturnDoes, ThreadReturns

-----------------------------------------------------------------------------
(* The master's place and the count.                                       *)

\* A reset begins with an entry of its tree, if there is one.
LEMMA ToResetPlace ==
  ASSUME NEW p, NEW k \in {"file", "leafdir"}, NEW want, ToReset(p, k, PickTree(k, want))
  PROVE  mpc' = <<p, k>> /\ cur' \in OfKind(k) \cup {NULL}
  BY DEF ToReset, Lowest, PickTree

\* Every step keeps Place.
LEMMA NextPlace ==
  ASSUME IInv, [Next]_vars
  PROVE  Place'
<1>0. Place /\ mpc \in MasterPc \X {"file", "leafdir"}
  BY DEF IInv, TypeOK
<1>1. CASE UNCHANGED <<mpc, cur>>
  BY <1>0, <1>1 DEF Place
<1>2. CASE UNCHANGED vars
  BY <1>1, <1>2 DEF vars, createVars
<1>3. CASE \E e \in Files : ThreadWrites(e) \/ ThreadCounts(e) \/ ThreadUnbusies(e)
  BY <1>1, <1>3 DEF ThreadWrites, ThreadCounts, ThreadUnbusies, restOfThread
<1>4. CASE MasterPicks
  BY <1>4, PickDoes DEF Place
<1>5. CASE ResetTurn("reset_noex", "noex") \/ ResetTurn("reset_exist", "exist")
  BY <1>5, ResetDoes DEF Place
<1>6. CASE Skip \/ AllocHere
  <2>1. PICK k \in {"file", "leafdir"} : mpc' = <<"pick", k>> \/ mpc' = <<"error", k>>
    BY <1>6, ReturnDoes
  <2> QED BY <2>1 DEF Place
<1>7. CASE Elsewhere
  <2>1. CASE Start
    <3>1. \/ ToReset("reset_noex", "file", PickTree("file", "noex"))
          \/ mpc' = <<"error", "file">>
      BY <2>1 DEF Start
    <3> QED BY <3>1, ToResetPlace DEF Place
  <2>2. CASE ResetDone
    <3>1. PICK k \in {"file", "leafdir"} :
            \/ ToReset("reset_exist", k, PickTree(k, "exist"))
            \/ mpc' = <<"pick", k>>
      BY <2>2 DEF ResetDone
    <3> QED BY <3>1, ToResetPlace DEF Place
  <2>3. CASE MasterPickedAll
    <3>1. \/ ToReset("reset_noex", "leafdir", PickTree("leafdir", "noex"))
          \/ mpc' = <<"finish", "leafdir">>
      BY <2>3 DEF MasterPickedAll
    <3> QED BY <3>1, ToResetPlace DEF Place
  <2>4. CASE MasterWaitsIdle \/ LimitWait \/ FinishWait
    BY <1>1, <2>4 DEF MasterWaitsIdle, LimitWait, FinishWait, createVars
  <2>5. CASE Allocate
    BY <1>0, <2>5 DEF Allocate, At, Place
  <2>6. CASE LimitError \/ Fire \/ FireFails \/ Finish \/ Check
    BY <2>6 DEF LimitError, Fire, FireFails, Finish, Check, Place
  <2> QED BY <1>7, <2>1, <2>2, <2>3, <2>4, <2>5, <2>6 DEF Elsewhere
<1>8. CASE Again
  BY <1>8, AgainDoes DEF Place
<1> QED
  BY <1>2, <1>3, <1>4, <1>5, <1>6, <1>7, <1>8, Steps

\* The allocation threads at work are finitely many, and no more than the files.
LEMMA ActiveFinite ==
  /\ IsFiniteSet(Files) /\ IsFiniteSet(Active)
  /\ Cardinality(Files) \in Nat /\ Cardinality(Active) \in Nat
  /\ Cardinality(Active) <= Cardinality(Files)
<1>1. IsFiniteSet(Files) /\ Active \subseteq Files
  BY EntriesAssumption DEF Active
<1>2. IsFiniteSet(Active) /\ Cardinality(Active) <= Cardinality(Files)
  BY <1>1, FS_Subset
<1> QED
  BY <1>1, <1>2, FS_CardinalityType

\* Nobody is at work, and nothing has failed, where the master is alone.
LEMMA AloneNobody ==
  ASSUME IInv, Alone
  PROVE  Active = {} /\ ~failed /\ paralloc_count = 0 /\ ~Stopped
<1>1. paralloc_count = 0 /\ ~Stopped
  BY DEF IInv, Counts, Alone, Stopped
<1>2. Cardinality(Active) = 0 /\ (failed => Failing # {})
  BY <1>1 DEF IInv, Counts
<1>3. Active = {}
  BY <1>2, ActiveFinite, FS_EmptySet
<1>4. Failing \subseteq Active
  BY DEF Failing, Active
<1> QED
  BY <1>1, <1>2, <1>3, <1>4

\* A step of the master that leaves the threads and their count alone.
LEMMA QuietCounts ==
  ASSUME Counts, UNCHANGED <<alloc, paralloc_count, failed>>,
         ~Stopped' => ~Stopped, Alone' => paralloc_count = 0, mpc'[1] = "check" => paralloc_count <= 0
  PROVE  Counts'
  BY DEF Counts, Active, Failing

\* Every step of the master keeps Counts.
LEMMA MasterCounts ==
  ASSUME IInv, \/ Elsewhere \/ Again \/ MasterPicks \/ Skip \/ AllocHere
               \/ ResetTurn("reset_noex", "noex") \/ ResetTurn("reset_exist", "exist")
  PROVE  Counts'
<1>0. Place /\ Counts /\ mpc \in MasterPc \X {"file", "leafdir"} /\ paralloc_count \in Int
  BY DEF IInv, TypeOK
<1>1. CASE Start
  <2>1. Active = {} /\ ~failed
    BY <1>1, AloneNobody DEF Start, At, Alone
  <2>2. /\ paralloc_count' = 0 /\ UNCHANGED <<alloc, failed>> /\ mpc'[1] # "check"
    BY <1>1 DEF Start, ToReset
  <2>3. Active' = Active /\ Cardinality({}) = 0
    BY <2>2, FS_EmptySet DEF Active
  <2> QED BY <2>1, <2>2, <2>3, ActiveFinite DEF Counts
<1>2. CASE ResetDone
  <2>1. PICK k \in {"file", "leafdir"} :
          \/ mpc = <<"reset_noex", k>> /\ mpc' = <<"reset_exist", k>>
          \/ mpc = <<"reset_exist", k>> /\ mpc' = <<"pick", k>>
    BY <1>2 DEF ResetDone, At, ToReset
  <2>2. UNCHANGED <<alloc, paralloc_count, failed>>
    BY <1>2 DEF ResetDone
  <2>3. ~Stopped' => ~Stopped
    BY <2>1 DEF Stopped
  <2>4. Alone' => paralloc_count = 0
    BY <1>0, <2>1 DEF Alone, Counts
  <2> QED BY <1>0, <2>1, <2>2, <2>3, <2>4, QuietCounts
<1>3. CASE ResetTurn("reset_noex", "noex") \/ ResetTurn("reset_exist", "exist")
  <2>1. PICK k \in {"file", "leafdir"} :
          /\ mpc \in {<<"reset_noex", k>>, <<"reset_exist", k>>} /\ UNCHANGED restOfMaster
          /\ mpc' \in {mpc, <<"corrupt", k>>}
    BY <1>3, ResetDoes
  <2>2. ~Stopped' => ~Stopped
    BY <2>1 DEF Stopped
  <2>3. Alone' => paralloc_count = 0
    BY <1>0, <2>1 DEF Alone, Counts
  <2> QED BY <1>0, <2>1, <2>2, <2>3, QuietCounts DEF restOfMaster
<1>4. CASE MasterWaitsIdle \/ MasterPickedAll \/ MasterPicks \/ Skip \/ Allocate \/ LimitWait
           \/ LimitError \/ FinishWait
  <2>1. UNCHANGED <<alloc, paralloc_count, failed>>
    BY <1>4 DEF MasterWaitsIdle, MasterPickedAll, MasterPicks, Skip, Allocate, LimitWait, LimitError,
      FinishWait, restOfMaster, createVars
  <2>2. /\ mpc[1] \in {"pick", "chosen", "limit", "finish"}
        /\ mpc'[1] \in {"pick", "chosen", "limit", "alloc", "finish", "error"} \/ mpc' = <<"reset_noex", "leafdir">>
    <3>1. CASE MasterWaitsIdle \/ LimitWait \/ LimitError \/ FinishWait
      BY <3>1 DEF MasterWaitsIdle, LimitWait, LimitError, FinishWait, At, createVars
    <3>2. CASE MasterPickedAll
      BY <3>2 DEF MasterPickedAll, At, ToReset
    <3>3. CASE MasterPicks
      BY <3>3, PickDoes
    <3>4. CASE Allocate
      <4>1. PICK k \in {"file", "leafdir"} :
              mpc = <<"chosen", k>> /\ (mpc' = <<"limit", k>> \/ mpc' = <<"alloc", k>>)
        BY <3>4 DEF Allocate, At
      <4> QED BY <4>1
    <3>5. CASE Skip
      BY <3>5 DEF Skip, At
    <3> QED BY <1>4, <3>1, <3>2, <3>3, <3>4, <3>5
  <2>3. ~Stopped /\ ~Alone' /\ mpc'[1] # "check"
    BY <2>2 DEF Stopped, Alone
  <2> QED BY <1>0, <2>1, <2>3, QuietCounts
<1>5. CASE Finish \/ Check \/ Again
  <2>1. UNCHANGED <<alloc, paralloc_count, failed>> /\ ~Stopped
    BY <1>5 DEF Finish, Check, Again, restOfMaster, At, Stopped
  <2>2. Alone' => paralloc_count = 0
    BY <1>0, <1>5 DEF Finish, Check, Again, At, Alone, Counts
  <2>3. mpc'[1] = "check" => paralloc_count <= 0
    BY <1>5 DEF Finish, Check, Again
  <2> QED BY <1>0, <2>1, <2>2, <2>3, QuietCounts
<1>6. CASE AllocHere
  <2>1. PICK k \in {"file", "leafdir"} :
          /\ mpc = <<"alloc", k>> /\ UNCHANGED <<alloc, paralloc_count>>
          /\ \/ mpc' = <<"pick", k>> /\ UNCHANGED failed
             \/ mpc' = <<"error", k>>
    BY <1>6 DEF AllocHere, At
  <2>2. ~Stopped /\ ~Alone' /\ mpc'[1] # "check"
    BY <2>1 DEF Stopped, Alone
  <2>3. Active' = Active /\ Failing' = Failing
    BY <2>1 DEF Active, Failing
  <2>4. Stopped' \/ UNCHANGED failed
    BY <2>1 DEF Stopped
  <2> QED BY <1>0, <2>1, <2>2, <2>3, <2>4 DEF Counts
<1>7. CASE Fire
  <2>1. /\ mpc = <<"limit", "file">> /\ mpc' = <<"pick", "file">> /\ UNCHANGED failed
        /\ paralloc_count >= 0 /\ paralloc_count' = paralloc_count + 1
        /\ alloc' = [alloc EXCEPT ![cur] = "write"]
    BY <1>7 DEF Fire, At
  <2>2. cur \in Files /\ alloc[cur] = "none" /\ alloc \in [Files -> AllocState]
    BY <2>1, Kinds DEF IInv, TypeOK, Place, Claimed, Stopped, Held, Active
  <2>3. Active' = Active \cup {cur} /\ cur \notin Active /\ Failing' = Failing
    BY <2>1, <2>2 DEF Active, Failing, AllocState
  <2>4. Cardinality(Active') = Cardinality(Active) + 1
    BY <2>3, ActiveFinite, FS_AddElement
  <2>5. ~Stopped /\ ~Alone' /\ mpc'[1] # "check"
    BY <2>1 DEF Stopped, Alone
  <2> QED BY <1>0, <2>1, <2>3, <2>4, <2>5, ActiveFinite DEF Counts
<1>8. CASE FireFails
  <2>1. mpc' = <<"error", "file">> /\ paralloc_count' = paralloc_count + 1 /\ UNCHANGED <<alloc, failed>>
    BY <1>8 DEF FireFails
  <2>2. Stopped' /\ ~Alone' /\ mpc'[1] # "check" /\ Active' = Active
    BY <2>1 DEF Stopped, Alone, Active
  <2> QED BY <1>0, <2>1, <2>2, ActiveFinite DEF Counts
<1> QED
  BY <1>1, <1>2, <1>3, <1>4, <1>5, <1>6, <1>7, <1>8 DEF Elsewhere

\* So does every step of an allocation thread: a count of -1 stays negative, because
\* the threads only count down.
LEMMA ThreadCountsKeep ==
  ASSUME IInv, NEW e \in Files, ThreadWrites(e) \/ ThreadCounts(e) \/ ThreadUnbusies(e)
  PROVE  Counts'
<1>0. /\ Counts /\ paralloc_count \in Int /\ alloc \in [Files -> AllocState]
  BY DEF IInv, TypeOK
<1>1. UNCHANGED mpc /\ (Stopped' <=> Stopped) /\ (Alone' <=> Alone)
  BY DEF ThreadWrites, ThreadCounts, ThreadUnbusies, restOfThread, Stopped, Alone
<1>2. e \in Active /\ ~Alone
  <2>1. e \in Active
    BY DEF ThreadWrites, ThreadCounts, ThreadUnbusies, Active
  <2> QED BY <2>1, AloneNobody
<1>3. CASE ThreadWrites(e) \/ ThreadUnbusies(e)
  <2>1. Active' = Active /\ Failing \subseteq Failing' /\ UNCHANGED paralloc_count
    BY <1>0, <1>3 DEF ThreadWrites, ThreadUnbusies, Active, Failing, AllocState
  <2>2. failed' => failed \/ Failing' # {}
    BY <1>0, <1>3 DEF ThreadWrites, ThreadUnbusies, Failing, AllocState
  <2> QED BY <1>0, <1>1, <1>2, <2>1, <2>2 DEF Counts
<1>4. CASE ThreadCounts(e)
  <2>1. /\ paralloc_count' = IF alloc[e] = "count_err" THEN -1 ELSE paralloc_count - 1
        /\ alloc' = [alloc EXCEPT ![e] = "none"] /\ UNCHANGED failed
    BY <1>4 DEF ThreadCounts
  <2>2. Active' = Active \ {e}
    BY <1>0, <2>1 DEF Active, AllocState
  <2>3. Cardinality(Active') = Cardinality(Active) - 1
    BY <1>2, <2>2, ActiveFinite, FS_RemoveElement
  <2>4. paralloc_count' >= 0 => alloc[e] = "count_ok" /\ paralloc_count' = paralloc_count - 1
    BY <1>0, <1>4, <2>1 DEF ThreadCounts
  <2>5. alloc[e] = "count_ok" => Failing' = Failing
    BY <1>0, <2>1 DEF Failing, AllocState
  <2>6. paralloc_count' >= Cardinality(Active') - Cardinality(Files)
    BY <1>0, <2>1, <2>3, ActiveFinite DEF Counts
  <2>7. ~Stopped /\ paralloc_count' >= 0 =>
          paralloc_count' = Cardinality(Active') /\ (failed => Failing' # {})
    BY <1>0, <2>3, <2>4, <2>5, ActiveFinite DEF Counts
  <2>8. mpc[1] = "check" => paralloc_count' <= 0
    BY <1>0, <2>1 DEF Counts
  <2> QED BY <1>1, <1>2, <2>1, <2>6, <2>7, <2>8 DEF Counts
<1> QED
  BY <1>3, <1>4

-----------------------------------------------------------------------------
(* What is busy, and what is left free.                                    *)

\* A step of the master keeps Claimed.
LEMMA MasterClaimed ==
  ASSUME IInv, \/ Elsewhere \/ Again \/ MasterPicks \/ Skip \/ AllocHere
               \/ ResetTurn("reset_noex", "noex") \/ ResetTurn("reset_exist", "exist")
  PROVE  Claimed'
<1>0. Claimed /\ alloc \in [Files -> AllocState] /\ remains \in Remains
  BY DEF IInv, TypeOK
<1> SUFFICES ASSUME ~Stopped' PROVE Claimed'
  BY DEF Claimed
<1>1. CASE Elsewhere /\ ~Fire
  <2>1. UNCHANGED <<fse_free, fse_busy, remains>>
    BY <1>1, ElsewhereQuiet
  <2>2. UNCHANGED alloc
    BY <1>1 DEF Elsewhere, Start, ResetDone, MasterWaitsIdle, MasterPickedAll, Allocate, LimitWait,
      LimitError, FireFails, FinishWait, Finish, Check, restOfMaster, createVars
  <2>3. ~Stopped /\ Held' = Held
    <3>1. CASE Start \/ ResetDone \/ MasterPickedAll
      <4>1. /\ mpc[1] \in {"start", "reset_noex", "reset_exist", "pick"}
            /\ mpc'[1] \in {"error", "reset_noex", "reset_exist", "pick", "finish"}
        <5>1. CASE Start
          BY <5>1 DEF Start, At, ToReset
        <5>2. CASE ResetDone
          BY <5>2 DEF ResetDone, At, ToReset
        <5>3. CASE MasterPickedAll
          BY <5>3 DEF MasterPickedAll, At, ToReset
        <5> QED BY <3>1, <5>1, <5>2, <5>3
      <4> QED BY <4>1 DEF Held, Stopped
    <3>2. CASE MasterWaitsIdle \/ LimitWait \/ FinishWait
      <4>1. UNCHANGED <<mpc, cur>> /\ mpc[1] \in {"pick", "limit", "finish"}
        BY <3>2 DEF MasterWaitsIdle, LimitWait, FinishWait, At, createVars
      <4> QED BY <4>1 DEF Held, Stopped
    <3>3. CASE Allocate
      <4>1. PICK k \in {"file", "leafdir"} :
              mpc = <<"chosen", k>> /\ (mpc' = <<"limit", k>> \/ mpc' = <<"alloc", k>>) /\ cur' = cur
        BY <3>3 DEF Allocate, At
      <4> QED BY <4>1 DEF Held, Stopped
    <3>4. CASE LimitError \/ FireFails
      BY <3>4 DEF LimitError, FireFails, Stopped
    <3>5. CASE Finish \/ Check
      BY <3>5 DEF Finish, Check, At, Held, Stopped
    <3> QED BY <1>1, <3>1, <3>2, <3>3, <3>4, <3>5 DEF Elsewhere
  <2> QED BY <1>0, <2>1, <2>2, <2>3 DEF Claimed, Active, Allocating
<1>2. CASE Fire
  <2>1. /\ mpc = <<"limit", "file">> /\ mpc' = <<"pick", "file">>
        /\ alloc' = [alloc EXCEPT ![cur] = "write"]
    BY <1>2 DEF Fire, At
  <2>2. cur \in Files /\ Held = {cur} /\ Held' = {} /\ ~Stopped
    BY <2>1, Kinds DEF IInv, Place, Held, Stopped
  <2>3. Active' = Active \cup {cur} /\ Allocating' = Allocating \cup {cur}
    BY <1>0, <2>1, <2>2 DEF Active, Allocating, AllocState
  <2>4. UNCHANGED <<fse_free, fse_busy, remains>>
    BY <1>2, ElsewhereQuiet DEF Elsewhere
  <2> QED BY <1>0, <2>2, <2>3, <2>4 DEF Claimed
<1>3. CASE MasterPicks
  <2>1. PICK k \in {"file", "leafdir"}, e \in fse_free :
          /\ mpc = <<"pick", k>> /\ mpc' = <<"chosen", k>> /\ cur' = e
          /\ e \notin fse_busy
          /\ fse_busy' = fse_busy \cup {e} /\ UNCHANGED <<flagVars, restOfMaster>>
    BY <1>3, PickDoes
  <2>2. ~Stopped /\ Held = {} /\ Held' = {e}
    BY <2>1 DEF Stopped, Held
  <2>3. e \notin Active
    BY <1>0, <2>1, <2>2 DEF Claimed
  <2>4. /\ Active' = Active /\ Allocating' = Allocating /\ fse_free' = fse_free
        /\ UNCHANGED remains
    BY <2>1 DEF Active, Allocating, restOfMaster, flagVars
  <2> QED BY <1>0, <2>1, <2>2, <2>3, <2>4 DEF Claimed
<1>4. CASE ResetTurn("reset_noex", "noex") \/ ResetTurn("reset_exist", "exist")
  <2>1. PICK k \in {"file", "leafdir"} :
          /\ mpc \in {<<"reset_noex", k>>, <<"reset_exist", k>>} /\ UNCHANGED restOfMaster
          /\ mpc' = mpc /\ cur \in OfKind(k) /\ fse_free' = fse_free \cup {cur}
          /\ fse_busy' = fse_busy
    <3>1. \A k : mpc' # <<"corrupt", k>>
      BY DEF Stopped
    <3> QED BY <1>4, <3>1, ResetDoes DEF claimVars
  <2>2. ~Stopped /\ Held = {} /\ Held' = {}
    BY <2>1 DEF Stopped, Held
  <2>3. cur \notin Active
    <3>1. CASE k = "file"
      BY <2>1, <3>1, AloneNobody DEF Alone
    <3>2. CASE k = "leafdir"
      BY <2>1, <3>2, Kinds, EntriesAssumption DEF Active
    <3> QED BY <3>1, <3>2
  <2>4. Active' = Active /\ Allocating' = Allocating /\ UNCHANGED remains
    BY <2>1 DEF Active, Allocating, restOfMaster
  <2> QED BY <1>0, <2>1, <2>2, <2>3, <2>4 DEF Claimed
<1>5. CASE Skip \/ AllocHere
  <2>1. PICK k \in {"file", "leafdir"} :
          /\ mpc \in {<<"chosen", k>>, <<"alloc", k>>} /\ mpc' = <<"pick", k>>
          /\ fse_busy' = fse_busy \ {cur} /\ fse_free' = fse_free \ {cur} /\ UNCHANGED <<alloc, remains>>
    <3>1. \A k : mpc' # <<"error", k>>
      BY DEF Stopped
    <3> QED BY <1>5, <3>1, ReturnDoes
  <2>2. ~Stopped /\ Held = {cur} /\ Held' = {}
    BY <2>1 DEF Stopped, Held
  <2>3. Active' = Active /\ Allocating' = Allocating /\ Allocating \subseteq Active
    BY <2>1 DEF Active, Allocating
  <2> QED BY <1>0, <2>1, <2>2, <2>3 DEF Claimed
<1>6. CASE Again
  <2>1. Active = {}
    BY <1>6, AgainDoes, AloneNobody DEF Alone
  <2>2. Active' = {} /\ Allocating' = {} /\ Held' = {} /\ fse_busy' = remains'.busy
    BY <1>6, <2>1, AgainDoes DEF Active, Allocating, Held
  <2> QED BY <2>2 DEF Claimed
<1> QED
  BY <1>1, <1>2, <1>3, <1>4, <1>5, <1>6

\* What an allocation thread does to the sets of those at work.
LEMMA ThreadMoves ==
  ASSUME IInv, NEW e \in Files, ThreadWrites(e) \/ ThreadCounts(e) \/ ThreadUnbusies(e)
  PROVE  /\ e \in Active /\ UNCHANGED <<mpc, cur, remains>>
         /\ (Stopped' <=> Stopped) /\ Held' = Held
         /\ \/ /\ ThreadWrites(e) /\ Active' = Active /\ Allocating' = Allocating
               /\ UNCHANGED <<fse_free, fse_busy>>
            \/ /\ ThreadCounts(e) /\ Active' = Active \ {e} /\ Allocating' = Allocating
               /\ UNCHANGED <<fse_free, fse_busy>>
            \/ /\ ThreadUnbusies(e) /\ Active' = Active /\ Allocating' = Allocating \ {e}
               /\ fse_free' = fse_free \ {e} /\ fse_busy' = fse_busy \ {e}
<1>0. alloc \in [Files -> AllocState]
  BY DEF IInv, TypeOK
<1>1. e \in Active /\ UNCHANGED <<mpc, cur, remains>>
  BY DEF ThreadWrites, ThreadCounts, ThreadUnbusies, restOfThread, Active
<1>2. (Stopped' <=> Stopped) /\ Held' = Held
  BY <1>1 DEF Stopped, Held
<1>3. CASE ThreadWrites(e)
  BY <1>0, <1>1, <1>2, <1>3, ElsewhereQuiet DEF ThreadWrites, Active, Allocating, AllocState
<1>4. CASE ThreadCounts(e)
  BY <1>0, <1>1, <1>2, <1>4, ElsewhereQuiet DEF ThreadCounts, Active, Allocating, AllocState
<1>5. CASE ThreadUnbusies(e)
  <2>1. fse_busy' = fse_busy \ {e} /\ fse_free' = fse_free \ {e}
    BY <1>5, ThreadReturns
  <2>2. Active' = Active /\ Allocating' = Allocating \ {e}
    BY <1>0, <1>5 DEF ThreadUnbusies, Active, Allocating, AllocState
  <2> QED BY <1>1, <1>2, <1>5, <2>1, <2>2
<1> QED
  BY <1>3, <1>4, <1>5

\* Every step keeps Claimed.
LEMMA NextClaimed ==
  ASSUME IInv, [Next]_vars
  PROVE  Claimed'
<1>0. Claimed
  BY DEF IInv
<1>1. CASE UNCHANGED vars
  BY <1>0, <1>1 DEF Claimed, Stopped, Held, Active, Allocating, vars, coreVars, flagVars, claimVars,
    createVars
<1>2. ASSUME NEW e \in Files, ThreadWrites(e) \/ ThreadCounts(e) \/ ThreadUnbusies(e)
      PROVE  Claimed'
  <2> SUFFICES ASSUME ~Stopped' PROVE Claimed'
    BY DEF Claimed
  <2>1. ~Stopped /\ e \notin Held \cup remains.busy /\ Held' = Held /\ UNCHANGED remains
    BY <1>0, <1>2, ThreadMoves DEF Claimed
  <2>2. CASE Active' \subseteq Active /\ Allocating' = Allocating /\ UNCHANGED <<fse_free, fse_busy>>
    BY <1>0, <2>1, <2>2 DEF Claimed
  <2>3. CASE /\ Active' = Active /\ Allocating' = Allocating \ {e}
             /\ fse_free' = fse_free \ {e} /\ fse_busy' = fse_busy \ {e}
    BY <1>0, <2>1, <2>3 DEF Claimed
  <2> QED BY <1>2, <2>2, <2>3, ThreadMoves
<1> QED
  BY <1>1, <1>2, Steps, MasterClaimed

\* A pick that finds nothing leaves only what is busy free.
LEMMA NothingFree ==
  ASSUME IInv, MasterPickedAll
  PROVE  \E k \in {"file", "leafdir"} :
           /\ mpc = <<"pick", k>> /\ fse_free \cap OfKind(k) \subseteq Allocating \cup remains.busy
           /\ k = "file" => mpc' = <<"reset_noex", "leafdir">>
           /\ UNCHANGED <<alloc, fse_free, remains>>
<1>1. PICK k \in {"file", "leafdir"} :
        /\ mpc = <<"pick", k>> /\ PickNull(k, "free", NULL, TRUE)
        /\ k = "file" => mpc' = <<"reset_noex", "leafdir">>
        /\ UNCHANGED <<alloc, remains>>
  BY DEF MasterPickedAll, At, ToReset, restOfMaster
<1>2. OfKind(k) = {} \/ PickTree(k, "free") \subseteq fse_busy
  BY <1>1 DEF PickNull
<1>3. PickTree(k, "free") = fs_tree["free"] \cap OfKind(k)
  BY <1>1 DEF PickTree
<1>4. fse_free \cap OfKind(k) \subseteq PickTree(k, "free")
  BY <1>3, Kinds DEF IInv, TreesMatchFlags
<1>5. fse_busy = Allocating \cup remains.busy
  BY <1>1 DEF IInv, Claimed, Held, Stopped
<1>6. fse_free' = fse_free
  BY <1>1 DEF PickNull, flagVars
<1> QED
  BY <1>1, <1>2, <1>4, <1>5, <1>6

\* Every step keeps Left.
LEMMA NextLeft ==
  ASSUME IInv, [Next]_vars
  PROVE  Left'
<1>0. Left /\ Place /\ mpc \in MasterPc \X {"file", "leafdir"}
  BY DEF IInv, TypeOK
<1>1. CASE UNCHANGED vars
  BY <1>0, <1>1 DEF Left, Stopped, Allocating, vars, coreVars, flagVars, createVars
<1>2. ASSUME NEW e \in Files, ThreadWrites(e) \/ ThreadCounts(e) \/ ThreadUnbusies(e)
      PROVE  Left'
  <2>1. /\ mpc' = mpc /\ (Stopped' <=> Stopped) /\ remains' = remains
        /\ \/ Allocating' = Allocating /\ fse_free' = fse_free
           \/ Allocating' = Allocating \ {e} /\ fse_free' = fse_free \ {e}
    BY <1>2, ThreadMoves
  <2> QED BY <1>0, <2>1 DEF Left
<1>3. CASE MasterPickedAll
  <2>1. PICK k \in {"file", "leafdir"} :
          /\ mpc = <<"pick", k>> /\ fse_free \cap OfKind(k) \subseteq Allocating \cup remains.busy
          /\ k = "file" => mpc' = <<"reset_noex", "leafdir">>
          /\ UNCHANGED <<alloc, fse_free, remains>>
    BY <1>3, NothingFree
  <2>2. Allocating' = Allocating /\ Allocating \subseteq Files /\ ~Stopped
    BY <2>1 DEF Allocating, Stopped
  <2>3. CASE k = "file"
    BY <1>0, <2>1, <2>2, <2>3, Kinds DEF Left
  <2>4. CASE k = "leafdir"
    <3>1. fse_free \cap LeafDirs \subseteq remains.busy
      BY <2>1, <2>2, <2>4, Kinds, EntriesAssumption
    <3> QED BY <1>0, <2>1, <2>2, <2>4, <3>1 DEF Left
  <2> QED BY <2>3, <2>4
<1>4. CASE MasterPicks
  <2>1. PICK k \in {"file", "leafdir"} :
          mpc = <<"pick", k>> /\ mpc' = <<"chosen", k>> /\ UNCHANGED <<fse_free, alloc, remains>>
    BY <1>4, PickDoes DEF flagVars, restOfMaster
  <2> QED BY <1>0, <2>1 DEF Left, Stopped, Allocating
<1>5. CASE ResetTurn("reset_noex", "noex") \/ ResetTurn("reset_exist", "exist")
  <2>1. PICK k \in {"file", "leafdir"} :
          /\ mpc \in {<<"reset_noex", k>>, <<"reset_exist", k>>} /\ UNCHANGED <<alloc, remains>>
          /\ \/ mpc' = <<"corrupt", k>> /\ UNCHANGED fse_free
             \/ mpc' = mpc /\ cur \in OfKind(k) /\ fse_free' = fse_free \cup {cur}
    BY <1>5, ResetDoes DEF restOfMaster, coreVars, flagVars
  <2>2. OfKind("file") = Files /\ OfKind("leafdir") = LeafDirs /\ Files \cap LeafDirs = {}
    BY Kinds, EntriesAssumption
  <2>3. CASE mpc' = <<"corrupt", k>> /\ UNCHANGED fse_free
    BY <1>0, <2>3 DEF Left, Stopped
  <2>4. CASE mpc' = mpc /\ cur \in OfKind(k) /\ fse_free' = fse_free \cup {cur}
    BY <1>0, <2>1, <2>2, <2>4 DEF Left, Stopped, Allocating
  <2> QED BY <2>1, <2>3, <2>4
<1>6. CASE Skip \/ AllocHere
  <2>1. PICK k \in {"file", "leafdir"} :
          /\ mpc \in {<<"chosen", k>>, <<"alloc", k>>} /\ cur \in OfKind(k)
          /\ mpc' \in {<<"pick", k>>, <<"error", k>>}
          /\ fse_free' = fse_free \ {cur} /\ UNCHANGED <<alloc, remains>>
    BY <1>6, ReturnDoes
  <2> QED BY <1>0, <2>1 DEF Left, Stopped, Allocating
<1>7. CASE Elsewhere /\ ~MasterPickedAll
  <2>1. fse_free' = fse_free /\ remains' = remains
    BY <1>7, ElsewhereQuiet
  <2>2. CASE Start
    <3>1. mpc'[2] = "file" /\ mpc'[1] \in {"reset_noex", "error"}
      BY <2>2 DEF Start, ToReset
    <3> QED BY <1>0, <2>1, <3>1 DEF Left
  <2>3. CASE ResetDone
    <3>1. PICK k \in {"file", "leafdir"} :
            /\ mpc \in {<<"reset_noex", k>>, <<"reset_exist", k>>}
            /\ mpc' \in {<<"reset_exist", k>>, <<"pick", k>>} /\ UNCHANGED alloc
      BY <2>3 DEF ResetDone, At, ToReset
    <3> QED BY <1>0, <2>1, <3>1 DEF Left, Stopped, Allocating
  <2>4. CASE MasterWaitsIdle \/ LimitWait \/ FinishWait
    <3>1. UNCHANGED <<mpc, alloc>>
      BY <2>4 DEF MasterWaitsIdle, LimitWait, FinishWait, createVars
    <3> QED BY <1>0, <2>1, <3>1 DEF Left, Stopped, Allocating
  <2>5. CASE Allocate
    <3>1. PICK k \in {"file", "leafdir"} :
            /\ mpc = <<"chosen", k>> /\ (mpc' = <<"limit", k>> \/ mpc' = <<"alloc", k>>)
            /\ UNCHANGED alloc
      BY <2>5 DEF Allocate, At, restOfMaster
    <3> QED BY <1>0, <2>1, <3>1 DEF Left, Stopped, Allocating
  <2>6. CASE LimitError \/ Fire \/ FireFails
    <3>1. mpc' \in {<<"error", "file">>, <<"pick", "file">>}
      BY <2>6 DEF LimitError, Fire, FireFails
    <3> QED BY <1>0, <2>1, <3>1 DEF Left
  <2>7. CASE Finish \/ Check
    <3>1. /\ mpc \in {<<"finish", "leafdir">>, <<"check", "leafdir">>} /\ UNCHANGED alloc
      BY <2>7 DEF Finish, Check, At, restOfMaster
    <3> QED BY <1>0, <2>1, <3>1 DEF Left, Stopped, Allocating
  <2> QED BY <1>7, <2>2, <2>3, <2>4, <2>5, <2>6, <2>7 DEF Elsewhere
<1>8. CASE Again
  BY <1>0, <1>8, AgainDoes DEF Left
<1> QED
  BY <1>1, <1>2, <1>3, <1>4, <1>5, <1>6, <1>7, <1>8, Steps

-----------------------------------------------------------------------------
(* The invariant.                                                          *)

\* Every step keeps the types of the state of the creation.
LEMMA NextTypes ==
  ASSUME IInv, [Next]_vars
  PROVE  TypeOK'
<1>0. /\ TypeOK /\ Place /\ Counts
  BY DEF IInv
<1>1. CoreTypeOK'
  BY NextCore
<1>2. mpc' \in (MasterPc \X {"file", "leafdir"}) /\ cur' \in Entries \cup {NULL}
  <2>1. CASE UNCHANGED vars
    BY <1>0, <2>1 DEF vars, createVars, TypeOK
  <2>2. CASE \E e \in Files : ThreadWrites(e) \/ ThreadCounts(e) \/ ThreadUnbusies(e)
    BY <1>0, <2>2, ThreadMoves DEF TypeOK
  <2>3. CASE MasterPicks
    <3>1. PICK k \in {"file", "leafdir"}, e \in Entries : mpc' = <<"chosen", k>> /\ cur' = e
      BY <2>3 DEF MasterPicks
    <3> QED BY <3>1 DEF MasterPc
  <2>4. CASE ResetTurn("reset_noex", "noex") \/ ResetTurn("reset_exist", "exist")
    <3>1. PICK k \in {"file", "leafdir"} :
            /\ mpc \in {<<"reset_noex", k>>, <<"reset_exist", k>>}
            /\ mpc' \in {mpc, <<"corrupt", k>>}
            /\ cur' = cur \/ cur' \in OfKind(k) \cup {NULL}
      BY <2>4, ResetDoes
    <3>2. OfKind(k) \subseteq Entries
      BY <3>1, Kinds DEF Kind
    <3> QED BY <1>0, <3>1, <3>2 DEF TypeOK, MasterPc
  <2>5. CASE Skip \/ AllocHere
    <3>1. PICK k \in {"file", "leafdir"} : mpc' \in {<<"pick", k>>, <<"error", k>>} /\ cur' = NULL
      BY <2>5, ReturnDoes
    <3> QED BY <3>1 DEF MasterPc
  <2>6. CASE Start \/ ResetDone \/ MasterPickedAll
    <3>1. PICK k \in {"file", "leafdir"}, p \in MasterPc :
            mpc' = <<p, k>> /\ (cur' = cur \/ cur' \in OfKind(k) \cup {NULL})
      <4>1. CASE Start
        <5>1. \/ mpc' = <<"error", "file">> /\ cur' = cur
              \/ ToReset("reset_noex", "file", PickTree("file", "noex"))
          BY <4>1 DEF Start
        <5> QED BY <5>1, ToResetPlace DEF MasterPc
      <4>2. CASE ResetDone
        <5>1. PICK k \in {"file", "leafdir"} :
                \/ mpc' = <<"pick", k>> /\ cur' = cur
                \/ ToReset("reset_exist", k, PickTree(k, "exist"))
          BY <4>2 DEF ResetDone
        <5> QED BY <5>1, ToResetPlace DEF MasterPc
      <4>3. CASE MasterPickedAll
        <5>1. \/ mpc' = <<"finish", "leafdir">> /\ cur' = NULL
              \/ ToReset("reset_noex", "leafdir", PickTree("leafdir", "noex"))
          BY <4>3 DEF MasterPickedAll
        <5> QED BY <5>1, ToResetPlace DEF MasterPc
      <4> QED BY <2>6, <4>1, <4>2, <4>3
    <3>2. OfKind(k) \subseteq Entries
      BY <3>1, Kinds DEF Kind
    <3> QED BY <1>0, <3>1, <3>2 DEF TypeOK
  <2>7. CASE Allocate
    <3>1. PICK k \in {"file", "leafdir"} : mpc' = <<"limit", k>> \/ mpc' = <<"alloc", k>>
      BY <2>7 DEF Allocate
    <3> QED BY <1>0, <2>7, <3>1 DEF Allocate, TypeOK, MasterPc
  <2>8. CASE \/ MasterWaitsIdle \/ LimitWait \/ LimitError \/ Fire \/ FireFails \/ FinishWait \/ Finish
             \/ Check
    BY <1>0, <2>8 DEF MasterWaitsIdle, LimitWait, LimitError, Fire, FireFails, FinishWait, Finish,
      Check, TypeOK, MasterPc, createVars
  <2>9. CASE Again
    BY <1>0, <2>9, AgainDoes DEF TypeOK, MasterPc
  <2> QED BY <2>1, <2>2, <2>3, <2>4, <2>5, <2>6, <2>7, <2>8, <2>9, Steps DEF Elsewhere
<1>3. alloc' \in [Files -> AllocState]
  <2>1. UNCHANGED alloc \/ \E e \in Files : \E a \in AllocState : alloc' = [alloc EXCEPT ![e] = a]
    <3>1. CASE Fire
      <4>1. cur \in Files
        BY <1>0, <3>1, Kinds DEF Fire, At, Place
      <4> QED BY <3>1, <4>1 DEF Fire, AllocState
    <3>2. CASE \E e \in Files : ThreadWrites(e) \/ ThreadCounts(e) \/ ThreadUnbusies(e)
      BY <3>2 DEF ThreadWrites, ThreadCounts, ThreadUnbusies, AllocState
    <3>3. CASE Elsewhere /\ ~Fire
      BY <3>3 DEF Elsewhere, Start, ResetDone, MasterWaitsIdle, MasterPickedAll, Allocate, LimitWait,
        LimitError, FireFails, FinishWait, Finish, Check, restOfMaster, createVars
    <3>4. CASE \/ MasterPicks \/ Skip \/ AllocHere \/ UNCHANGED vars \/ Again
               \/ ResetTurn("reset_noex", "noex") \/ ResetTurn("reset_exist", "exist")
      BY <3>4, PickDoes, ReturnDoes, ResetDoes, AgainDoes DEF restOfMaster, vars, createVars
    <3> QED BY <3>1, <3>2, <3>3, <3>4, Steps
  <2> QED BY <1>0, <2>1 DEF TypeOK
<1>4. Counts'
  <2>1. CASE UNCHANGED vars
    BY <1>0, <2>1 DEF Counts, Stopped, Alone, Active, Failing, vars, createVars
  <2> QED BY <2>1, Steps, MasterCounts, ThreadCountsKeep
<1>5. /\ paralloc_count' \in Int /\ paralloc_count' <= max_paralloc /\ max_paralloc' = max_paralloc
      /\ creates' \in 0..MaxCreates
  <2>0. paralloc_count \in Int /\ paralloc_count <= max_paralloc /\ max_paralloc \in Nat \ {0}
    BY <1>0, ActiveFinite, CreateAssumption DEF TypeOK
  <2>1. CASE Start
    BY <1>0, <2>0, <2>1, CreateAssumption DEF Start, TypeOK
  <2>2. CASE Fire \/ FireFails
    BY <1>0, <2>0, <2>2 DEF Fire, FireFails, TypeOK
  <2>3. CASE \E e \in Files : ThreadWrites(e) \/ ThreadCounts(e) \/ ThreadUnbusies(e)
    <3>1. /\ paralloc_count' \in {paralloc_count, paralloc_count - 1, -1}
          /\ UNCHANGED <<max_paralloc, creates>>
      BY <2>3 DEF ThreadWrites, ThreadCounts, ThreadUnbusies, restOfThread
    <3> QED BY <1>0, <2>0, <3>1 DEF TypeOK
  <2>4. CASE Elsewhere /\ ~Fire /\ ~FireFails /\ ~Start
    BY <1>0, <2>0, <2>4 DEF Elsewhere, ResetDone, MasterWaitsIdle, MasterPickedAll, Allocate,
      LimitWait, LimitError, FinishWait, Finish, Check, restOfMaster, createVars, TypeOK
  <2>5. CASE \/ MasterPicks \/ Skip \/ AllocHere \/ UNCHANGED vars \/ Again
             \/ ResetTurn("reset_noex", "noex") \/ ResetTurn("reset_exist", "exist")
    <3>1. UNCHANGED <<paralloc_count, max_paralloc, creates>>
      BY <2>5, PickDoes, ReturnDoes, ResetDoes, AgainDoes DEF restOfMaster, vars, createVars
    <3> QED BY <1>0, <2>0, <3>1 DEF TypeOK
  <2> QED BY <2>1, <2>2, <2>3, <2>4, <2>5, Steps
<1>6. paralloc_count' \in -Cardinality(Files)..max_paralloc'
  <2>1. Cardinality(Active') \in Nat
    <3>1. Active' \subseteq Files
      BY DEF Active
    <3> QED BY <3>1, ActiveFinite, FS_Subset, FS_CardinalityType
  <2>2. paralloc_count' >= 0 - Cardinality(Files)
    BY <1>4, <1>5, <2>1, ActiveFinite DEF Counts
  <2>3. \A n \in Int : -n = 0 - n
    OBVIOUS
  <2>4. -Cardinality(Files) = 0 - Cardinality(Files)
    BY <2>3, ActiveFinite
  <2>5. max_paralloc \in Int
    BY <1>0, CreateAssumption DEF TypeOK
  <2> QED BY <1>5, <2>2, <2>4, <2>5, ActiveFinite
<1>7. paralloc_wait' \in BOOLEAN /\ failed' \in BOOLEAN
  <2>1. paralloc_wait \in BOOLEAN /\ failed \in BOOLEAN
    BY <1>0 DEF TypeOK
  <2>2. paralloc_wait' \in {paralloc_wait, TRUE, FALSE} /\ failed' \in {failed, TRUE}
    <3>1. CASE \E e \in Files : ThreadWrites(e) \/ ThreadCounts(e) \/ ThreadUnbusies(e)
      BY <3>1, Zenon DEF ThreadWrites, ThreadCounts, ThreadUnbusies
    <3>2. CASE Elsewhere
      <4>1. UNCHANGED failed
        BY <3>2 DEF Elsewhere, Start, ResetDone, MasterWaitsIdle, MasterPickedAll, Allocate, LimitWait,
          LimitError, Fire, FireFails, FinishWait, Finish, Check, restOfMaster, createVars
      <4>2. UNCHANGED paralloc_wait \/ paralloc_wait' = TRUE
        BY <3>2 DEF Elsewhere, Start, ResetDone, MasterWaitsIdle, MasterPickedAll, Allocate, LimitWait,
          LimitError, Fire, FireFails, FinishWait, Finish, Check, restOfMaster, createVars
      <4> QED BY <4>1, <4>2
    <3>3. CASE \/ MasterPicks \/ Skip \/ AllocHere \/ UNCHANGED vars \/ Again
               \/ ResetTurn("reset_noex", "noex") \/ ResetTurn("reset_exist", "exist")
      BY <3>3, PickDoes, ReturnDoes, ResetDoes, AgainDoes DEF restOfMaster, vars, createVars
    <3> QED BY <3>1, <3>2, <3>3, Steps
  <2> QED BY <2>1, <2>2, Zenon
<1>8. reusing' \in BOOLEAN
  <2>1. reusing \in BOOLEAN /\ Reuse \in BOOLEAN
    BY <1>0, CreateAssumption, Zenon DEF TypeOK
  <2>2. CASE Start
    <3>1. reusing' \in ReuseDecision
      BY <2>2 DEF Start
    <3>2. ReuseDecision \subseteq BOOLEAN
      BY <2>1, Zenon DEF ReuseDecision
    <3> QED BY <3>1, <3>2
  <2>3. CASE ~Start
    <3>1. reusing' = reusing
      BY <2>3, Steps, PickDoes, ReturnDoes, ResetDoes, AgainDoes DEF Elsewhere, ResetDone, MasterWaitsIdle,
        MasterPickedAll, Allocate, LimitWait, LimitError, Fire, FireFails, FinishWait, Finish, Check,
        ThreadWrites, ThreadCounts, ThreadUnbusies, restOfThread, restOfMaster, vars, createVars
    <3> QED BY <2>1, <3>1, Zenon
  <2> QED BY <2>2, <2>3
<1>9. disk' \subseteq Files \cup LeafDirs
  <2>0. disk \subseteq Files \cup LeafDirs
    BY <1>0 DEF TypeOK
  <2>1. CASE Skip \/ AllocHere \/ Again
    BY <2>0, <2>1, ReturnDoes, AgainDoes, Kinds
  <2>2. CASE \E e \in Files : ThreadWrites(e) \/ ThreadCounts(e) \/ ThreadUnbusies(e)
    BY <2>0, <2>2 DEF ThreadWrites, ThreadCounts, ThreadUnbusies
  <2>3. CASE Elsewhere
    <3>1. disk' \subseteq disk
      BY <2>3 DEF Elsewhere, Start, ResetDone, MasterWaitsIdle, MasterPickedAll, Allocate, LimitWait,
        LimitError, Fire, FireFails, FinishWait, Finish, Check, restOfMaster, createVars
    <3> QED BY <2>0, <3>1
  <2>4. CASE \/ MasterPicks \/ UNCHANGED vars
             \/ ResetTurn("reset_noex", "noex") \/ ResetTurn("reset_exist", "exist")
    BY <2>0, <2>4, PickDoes, ResetDoes DEF restOfMaster, vars, createVars
  <2> QED BY <2>1, <2>2, <2>3, <2>4, Steps
<1>10. max_paralloc' \in Limits
  BY <1>0, <1>5 DEF TypeOK
<1>11. remains' \in Remains
  <2>1. remains' = remains \/ remains' \in Remains
    BY Steps, AgainDoes, ElsewhereQuiet, PickDoes, ResetDoes, ReturnDoes, ThreadMoves
      DEF restOfMaster, vars, createVars
  <2> QED BY <1>0, <2>1 DEF TypeOK
<1> QED
  BY <1>1, <1>2, <1>3, <1>5, <1>6, <1>7, <1>8, <1>9, <1>10, <1>11, Zenon DEF TypeOK

\* The fileset as populated satisfies it.
LEMMA InitIInv ==
  ASSUME Init
  PROVE  IInv /\ Stored
<1>0. /\ mpc = <<"start", "file">> /\ cur = NULL /\ paralloc_count = 0 /\ creates = 0
      /\ fse_free = Files \cup LeafDirs /\ fse_exists = Dirs /\ fse_busy = {} /\ fse_waitng = {}
      /\ thrd_wait_cv = {} /\ alloc = [e \in Files |-> "none"] /\ ~failed
      /\ fs_idle = [k \in Kind |-> Cardinality(OfKind(k))]
      /\ fs_tree = [free |-> Files \cup LeafDirs, exist |-> {}, noex |-> {}]
      /\ disk \subseteq Files \cup LeafDirs /\ max_paralloc \in Limits
      /\ remains = [busy |-> {}, astray |-> {}, surplus |-> 0, waited |-> {}, lock |-> FALSE]
  BY DEF Init
<1>1. CoreTypeOK
  <2>1. fs_idle \in [Kind -> Nat]
    BY <1>0, Kinds, FS_CardinalityType
  <2>2. fs_tree \in [Tree -> SUBSET (Files \cup LeafDirs)]
    BY <1>0 DEF Tree
  <2>3. fse_open_cnt \in [Entries -> Int] /\ fs_rotor \in [Rotor -> Nat]
    BY DEF Init
  <2>4. idle_cv \in [Kind -> SUBSET Threads]
    BY DEF Init
  <2>5. fse_free \subseteq Entries /\ fse_exists \subseteq Entries
    BY <1>0 DEF Entries
  <2> QED BY <1>0, <2>1, <2>2, <2>3, <2>4, <2>5 DEF CoreTypeOK
<1>2. Active = {} /\ Allocating = {} /\ Cardinality(Active) = 0
  BY <1>0, FS_EmptySet DEF Active, Allocating
<1>3. TypeOK
  <2>1. paralloc_count \in -Cardinality(Files)..max_paralloc
    <3>1. \A n \in Int : -n = 0 - n
      OBVIOUS
    <3>2. -Cardinality(Files) = 0 - Cardinality(Files)
      BY <3>1, ActiveFinite
    <3>3. max_paralloc \in Nat
      BY <1>0, CreateAssumption
    <3> QED BY <1>0, <3>2, <3>3, ActiveFinite
  <2>2. paralloc_wait \in BOOLEAN /\ reusing \in BOOLEAN /\ failed \in BOOLEAN
    BY Zenon DEF Init
  <2>3. mpc \in (MasterPc \X {"file", "leafdir"}) /\ cur \in Entries \cup {NULL}
    BY <1>0 DEF MasterPc
  <2>4. alloc \in [Files -> AllocState] /\ creates \in 0..MaxCreates
    BY <1>0, CreateAssumption DEF AllocState
  <2>5. remains \in Remains
    BY <1>0 DEF Remains
  <2> QED BY <1>0, <1>1, <2>1, <2>2, <2>3, <2>4, <2>5 DEF TypeOK
<1>4. Place
  BY <1>0 DEF Place
<1>5. Counts
  BY <1>0, <1>2, ActiveFinite DEF Counts
<1>6. Claimed
  BY <1>0, <1>2 DEF Claimed, Held
<1>7. IdleExact
  <2>1. \A k \in Kind : Cardinality(OfKind(k)) \in Nat /\ Surplus(k, remains.surplus) = 0
    BY <1>0, Kinds, FS_CardinalityType DEF Surplus
  <2>2. \A k \in Kind : NotBusy(k) = OfKind(k)
    BY <1>0 DEF NotBusy
  <2> QED BY <1>0, <2>1, <2>2 DEF IdleExact
<1>8. Left
  BY <1>0 DEF Left
<1>9. TreesMatchFlags
  BY <1>0, EntriesAssumption DEF TreesMatchFlags
<1>10. Stored
  BY <1>0 DEF Stored
<1> QED
  BY <1>3, <1>4, <1>5, <1>6, <1>7, <1>8, <1>9, <1>10 DEF IInv

\* Every step keeps it.
LEMMA NextIInv ==
  ASSUME IInv, [Next]_vars
  PROVE  IInv'
<1>1. Counts'
  <2>1. CASE UNCHANGED vars
    BY <2>1 DEF IInv, Counts, Stopped, Alone, Active, Failing, vars, createVars
  <2> QED BY <2>1, Steps, MasterCounts, ThreadCountsKeep
<1> QED
  BY <1>1, NextTypes, NextCore, NextPlace, NextClaimed, NextLeft DEF IInv

\* The invariant holds in every state of every run.
THEOREM Invariant == Spec => []IInv
<1>1. Init => IInv
  BY InitIInv
<1>2. IInv /\ [Next]_vars => IInv'
  BY NextIInv
<1> QED
  BY <1>1, <1>2, PTL DEF Spec

\* Types: in particular shm_fsparalloc_count never exceeds MAX_PARALLOC_THREADS, nor
\* does it fall below minus the number of files.
THEOREM TypeCorrect == Spec => []TypeOK
<1>1. IInv => TypeOK
  BY DEF IInv
<1> QED
  BY <1>1, Invariant, PTL

\* The invariant says that a fileset that is said to be ready is complete.
LEMMA Complete ==
  ASSUME IInv
  PROVE  CompleteWhenOK
<1> SUFFICES ASSUME mpc[1] = "ok"
             PROVE  /\ ~failed /\ Active = {}
                    /\ fse_busy = remains.busy /\ fse_free \subseteq remains.busy
                    /\ IdleExact
  BY DEF CompleteWhenOK, IdleExact
<1>1. Active = {} /\ ~failed /\ ~Stopped
  BY AloneNobody DEF Alone
<1>2. Allocating = {}
  BY <1>1 DEF Active, Allocating
<1>3. fse_busy = remains.busy
  BY <1>1, <1>2 DEF IInv, Claimed, Held
<1>4. fse_free \subseteq remains.busy
  BY <1>1, <1>2 DEF IInv, Left, Place
<1> QED
  BY <1>1, <1>3, <1>4 DEF IInv

\* When fileset_createset() returns OK no allocation has failed, in whichever thread,
\* all threads have finished, and no entry is left busy, free or uncounted but those
\* that a run before the call has left busy; in every call, however many there are,
\* whatever the runs between them have done and fileset_pickreset() has left behind.
THEOREM CreateComplete == Spec => []CompleteWhenOK
<1>1. IInv => CompleteWhenOK
  BY Complete
<1> QED
  BY <1>1, Invariant, PTL

-----------------------------------------------------------------------------
(* The flags and storage.                                                  *)

\* Every step keeps Stored, as long as fileset_create() removes nothing that an earlier
\* call has made: the entries that fileset_pickreset() leaves behind keep FSE_EXISTS.
LEMMA NextStored ==
  ASSUME KeepsStorage, IInv, Stored, [Next]_vars
  PROVE  Stored'
<1>0. /\ Place /\ TypeOK /\ alloc \in [Files -> AllocState]
      /\ creates \in Nat /\ MaxCreates \in Nat
  BY CreateAssumption DEF IInv, TypeOK
<1>1. CASE UNCHANGED vars
  BY <1>1 DEF Stored, vars, coreVars, flagVars, createVars
<1>2. ASSUME NEW e \in Files, ThreadWrites(e) \/ ThreadCounts(e) \/ ThreadUnbusies(e)
      PROVE  Stored'
  <2>1. UNCHANGED <<mpc, creates, remains>> /\ disk \subseteq disk'
    BY <1>2 DEF ThreadWrites, ThreadCounts, ThreadUnbusies, restOfThread
  <2>2. creates # 0
    BY <1>2, AloneNobody, ThreadMoves DEF Stored, Alone
  <2>3. CASE ThreadWrites(e) \/ ThreadCounts(e)
    <3>1. fse_exists' = fse_exists
      BY <2>3, ElsewhereQuiet
    <3>2. \A f \in Files : alloc'[f] = "unbusy_ok" => f \in disk'
      BY <1>0, <2>1, <2>3 DEF ThreadWrites, ThreadCounts, Stored
    <3> QED BY <2>1, <2>2, <3>1, <3>2 DEF Stored
  <2>4. CASE ThreadUnbusies(e)
    <3>1. \/ alloc[e] = "unbusy_ok" /\ alloc' = [alloc EXCEPT ![e] = "count_ok"]
             /\ fse_exists' = fse_exists \cup {e}
          \/ alloc[e] = "unbusy_err" /\ alloc' = [alloc EXCEPT ![e] = "count_err"]
             /\ fse_exists' = fse_exists \ {e}
      BY <2>4, ThreadReturns
    <3> QED BY <1>0, <2>1, <2>2, <3>1 DEF Stored
  <2> QED BY <1>2, <2>3, <2>4
<1>3. CASE Start
  <2>1. \A f \in Files : alloc'[f] # "unbusy_ok"
    BY <1>3, AloneNobody DEF Start, At, Alone, Active
  <2>2. creates' # 0
    BY <1>0, <1>3 DEF Start
  <2>3. disk' = disk \/ fse_exists = Dirs
    <3>1. CASE Trust
      <4>1. reusing' = TRUE
        BY <1>3, <3>1 DEF Start, ReuseDecision
      <4> QED BY <1>3, <4>1 DEF Start
    <3>2. CASE Reuse
      <4>1. reusing' \/ disk = {}
        BY <1>3, <3>2, Zenon DEF Start, ReuseDecision
      <4> QED BY <1>3, <4>1 DEF Start
    <3>3. CASE MaxCreates <= 1
      <4>1. creates = 0
        BY <1>0, <1>3, <3>3 DEF Start
      <4> QED BY <4>1 DEF Stored
    <3> QED BY <3>1, <3>2, <3>3 DEF KeepsStorage
  <2>4. fse_exists' = fse_exists /\ remains' = remains
    BY <1>3, ElsewhereQuiet DEF Elsewhere
  <2> QED BY <2>1, <2>2, <2>3, <2>4 DEF Stored
<1>4. CASE Skip \/ AllocHere
  <2>1. PICK k \in {"file", "leafdir"}, x \in BOOLEAN :
          /\ mpc \in {<<"chosen", k>>, <<"alloc", k>>}
          /\ fse_exists' = IF x THEN fse_exists \cup {cur} ELSE fse_exists \ {cur}
          /\ UNCHANGED <<alloc, creates, remains>> /\ disk \subseteq disk' /\ (x => cur \in disk')
    BY <1>4, ReturnDoes
  <2>2. creates # 0
    BY <2>1 DEF Stored
  <2> QED BY <2>1, <2>2 DEF Stored
<1>5. CASE \/ Elsewhere /\ ~Start
           \/ MasterPicks \/ ResetTurn("reset_noex", "noex") \/ ResetTurn("reset_exist", "exist")
  <2>1. fse_exists' = fse_exists /\ remains' = remains
    BY <1>5, ElsewhereQuiet, PickDoes, ResetDoes DEF flagVars, coreVars, restOfMaster
  <2>2. UNCHANGED <<disk, creates>>
    BY <1>5, PickDoes, ResetDoes DEF Elsewhere, ResetDone, MasterWaitsIdle, MasterPickedAll, Allocate,
      LimitWait, LimitError, Fire, FireFails, FinishWait, Finish, Check, restOfMaster, createVars
  <2>3. \A f \in Files : alloc'[f] = "unbusy_ok" => alloc[f] = "unbusy_ok"
    <3>1. CASE Fire
      BY <1>0, <3>1 DEF Fire
    <3>2. CASE ~Fire
      BY <1>5, <3>2, PickDoes, ResetDoes DEF Elsewhere, ResetDone, MasterWaitsIdle, MasterPickedAll,
        Allocate, LimitWait, LimitError, FireFails, FinishWait, Finish, Check, restOfMaster,
        createVars
    <3> QED BY <3>1, <3>2
  <2>4. creates = 0 => mpc'[1] = "start"
    <3>1. CASE MasterPicks
      BY <3>1, PickDoes DEF Stored
    <3>2. CASE ResetTurn("reset_noex", "noex") \/ ResetTurn("reset_exist", "exist")
      BY <3>2, ResetDoes DEF Stored
    <3>3. CASE ResetDone
      BY <3>3 DEF Stored, ResetDone, At
    <3>4. CASE MasterWaitsIdle
      BY <3>4 DEF Stored, MasterWaitsIdle, At
    <3>5. CASE MasterPickedAll
      BY <3>5 DEF Stored, MasterPickedAll, At
    <3>6. CASE Allocate
      BY <3>6 DEF Stored, Allocate, At
    <3>7. CASE LimitWait \/ LimitError \/ Fire \/ FireFails
      BY <3>7 DEF Stored, LimitWait, LimitError, Fire, FireFails, At
    <3>8. CASE FinishWait \/ Finish \/ Check
      BY <3>8 DEF Stored, FinishWait, Finish, Check, At
    <3> QED BY <1>5, <3>1, <3>2, <3>3, <3>4, <3>5, <3>6, <3>7, <3>8 DEF Elsewhere
  <2> QED BY <2>1, <2>2, <2>3, <2>4 DEF Stored
<1>6. CASE Again
  <2>1. \A f \in Files : alloc'[f] # "unbusy_ok"
    BY <1>6, AgainDoes, AloneNobody DEF Alone, Active
  <2>2. creates # 0 /\ creates' = creates
    BY <1>6, AgainDoes DEF Stored
  <2> QED BY <1>6, <2>1, <2>2, AgainDoes DEF Stored
<1> QED
  BY <1>1, <1>2, <1>3, <1>4, <1>5, <1>6, Steps

\* When fileset_createset() returns OK the fileset is ready for the run, for any
\* numbers of files, threads and calls, whatever fails and whatever the runs between
\* the calls leave (ReadyWhenOK excepts it by name), provided that a later call
\* finds on storage what an earlier one has made.
THEOREM Ready ==
  ASSUME KeepsStorage
  PROVE  Spec => []ReadyWhenOK
<1>1. Init => IInv /\ Stored
  BY InitIInv
<1>2. IInv /\ Stored /\ [Next]_vars => IInv' /\ Stored'
  BY NextIInv, NextStored
<1>3. IInv /\ Stored => ReadyWhenOK
  BY Complete DEF CompleteWhenOK, ReadyWhenOK, Stored
<1> QED
  BY <1>1, <1>2, <1>3, PTL DEF Spec
=============================================================================
