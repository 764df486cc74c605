--------------------------- MODULE FilesetCreate ---------------------------
(***************************************************************************)
(* fileset_createset() and fileset_create() of src/filebench/fileset.c: the *)
(* master process preallocates the files and leaf directories of a         *)
(* populated fileset, the files by detached threads if paralloc is set.    *)
(* The master is the only thread that picks; an allocation thread is named *)
(* by the file it allocates.                                               *)
(*                                                                         *)
(* The fileset of a second call is the one that a run has used in between. *)
(* fileset_populate() leaves it alone (fileset.c:1583, its files having    *)
(* some bytes), so whatever the run has left in it is still there: Again   *)
(* chooses among what a run can leave, and remains records the choice.     *)
(***************************************************************************)
EXTENDS FilesetCore

CONSTANTS
  Master,       \* the master process
  Paralloc,     \* fs_paralloc
  Reuse,        \* fs_reuse
  Trust,        \* fs_trust_tree
  Partial,      \* fs_preallocpercent is below 100
  AllocFails,   \* system calls of the allocation may fail
  Limits,       \* values of MAX_PARALLOC_THREADS, around the number of files
  MaxCreates,   \* bound: calls of fileset_createset()
  MaxLost,      \* bound: entries that the runs leave busy
  MaxSurplus    \* bound: by how much the runs take fs_idle_files too far

ASSUME CreateAssumption ==
  /\ Master \in Threads      \* the others are workers of the runs between the calls
  /\ {Paralloc, Reuse, Trust, Partial, AllocFails} \subseteq BOOLEAN
  /\ Limits \subseteq Nat \ {0}
  /\ {MaxCreates, MaxLost, MaxSurplus} \subseteq Nat

VARIABLES
  mpc,            \* where the master is
  cur,            \* the entry the master works on
  alloc,          \* what the allocation thread of each file is doing
  paralloc_count, \* shm_fsparalloc_count
  paralloc_wait,  \* the master is blocked on shm_fsparalloc_cv
  disk,           \* the files and leaf directories that are on storage
  reusing,        \* fileset_create()'s decision to keep what is on storage
  failed,         \* history: some allocation has failed
  creates,        \* calls of fileset_createset() so far
  max_paralloc,   \* MAX_PARALLOC_THREADS, which no step changes
  remains         \* what the run before this call has left: see Remains

createVars == <<mpc, cur, alloc, paralloc_count, paralloc_wait, disk, reusing, failed, creates, max_paralloc, remains>>
vars == <<coreVars, createVars>>

AllocState == {"none", "write", "unbusy_ok", "unbusy_err", "count_ok", "count_err"}
MasterPc == {"start", "reset_noex", "reset_exist", "pick", "chosen", "limit", "alloc",
             "finish", "check", "ok", "error", "corrupt"}

\* busy: the entries left with FSE_BUSY; astray: those with FSE_EXISTS that are not
\* on storage; surplus: by how much fs_idle_files exceeds the files that are not
\* busy; waited: the types on whose idle_cv a worker was blocked when it was
\* killed; lock: a worker was killed that held fs_pick_lock.
Remains ==
  [busy : SUBSET Entries, astray : SUBSET (Files \cup LeafDirs), surplus : Nat,
   waited : SUBSET Kind, lock : BOOLEAN]

\* The surplus of the idle count of a type.
Surplus(k, surplus) == IF k = "file" THEN surplus ELSE 0

\* Types of all variables.
TypeOK ==
  /\ CoreTypeOK
  /\ mpc \in (MasterPc \X {"file", "leafdir"})
  /\ cur \in Entries \cup {NULL}
  /\ alloc \in [Files -> AllocState]
  /\ paralloc_count \in -Cardinality(Files)..max_paralloc
  /\ paralloc_wait \in BOOLEAN
  /\ disk \subseteq Files \cup LeafDirs
  /\ reusing \in BOOLEAN
  /\ failed \in BOOLEAN
  /\ creates \in 0..MaxCreates
  /\ max_paralloc \in Limits
  /\ remains \in Remains

\* The fileset as fileset_populate() leaves it.  Storage may hold the files of
\* an earlier run of the program.
Init ==
  /\ fse_free = Files \cup LeafDirs
  /\ fse_exists = Dirs
  /\ fse_busy = {}
  /\ fse_waitng = {}
  /\ fse_open_cnt = [e \in Entries |-> 0]
  /\ fs_tree = [free |-> Files \cup LeafDirs, exist |-> {}, noex |-> {}]
  /\ fs_idle = [k \in Kind |-> Cardinality(OfKind(k))]
  /\ fs_rotor = [r \in Rotor |-> 0]
  /\ idle_cv = [k \in Kind |-> {}]
  /\ thrd_wait_cv = {}
  /\ mpc = <<"start", "file">>
  /\ cur = NULL
  /\ alloc = [e \in Files |-> "none"]
  /\ paralloc_count = 0
  /\ paralloc_wait = FALSE
  /\ disk \in SUBSET (Files \cup LeafDirs)
  /\ reusing = FALSE
  /\ failed = FALSE
  /\ creates = 0
  /\ max_paralloc \in Limits
  /\ remains = [busy |-> {}, astray |-> {}, surplus |-> 0, waited |-> {}, lock |-> FALSE]

\* The master is at point p, working on entries of type k.
At(p, k) == mpc = <<p, k>>

Lowest(S, e) == e \in S /\ \A f \in S : e <= f

-----------------------------------------------------------------------------
(* The start of fileset_createset() and fileset_create(), and the reset of *)
(* the trees by fileset_pickreset().                                       *)

\* The reset of a tree starts from its lowest entry, if it has one.
ToReset(p, k, tree) ==
  /\ mpc' = <<p, k>>
  /\ IF tree = {} THEN cur' = NULL ELSE \E e \in tree : Lowest(tree, e) /\ cur' = e

\* Whether to reuse: the directory of the fileset must be there, which it is if
\* anything is in it, or be trusted to be there.
ReuseDecision ==
  IF Trust THEN {TRUE} ELSE {Reuse} \cup (IF disk = {} THEN {FALSE} ELSE {})

\* Without reuse, whatever is on storage is removed; making the directories anew
\* may fail.
Start ==
  /\ At("start", "file")
  /\ creates < MaxCreates
  /\ creates' = creates + 1
  /\ paralloc_count' = 0
  /\ reusing' \in ReuseDecision
  /\ disk' = IF reusing' THEN disk ELSE {}
  /\ \/ ToReset("reset_noex", "file", PickTree("file", "noex"))
     \/ AllocFails /\ ~reusing' /\ mpc' = <<"error", "file">> /\ UNCHANGED cur
  /\ UNCHANGED <<coreVars, alloc, paralloc_wait, failed, max_paralloc, remains>>

\* One turn of a loop of fileset_pickreset(): mark the entry free, move it to
\* the free tree, and go on to the entry after it, which by then is looked up
\* in the free tree.  No lock is taken, and FSE_BUSY stays as it is.  Removing
\* an entry from a tree it is not in is undefined, and so is any use of a tree
\* that a killed worker was changing.
ResetTurn(p, src) ==
  \E k \in {"file", "leafdir"} :
    /\ At(p, k)
    /\ cur # NULL
    /\ \/ /\ cur \notin fs_tree[src] \/ remains.lock
          /\ mpc' = <<"corrupt", k>>
          /\ UNCHANGED <<coreVars, cur>>
       \/ /\ cur \in fs_tree[src]
          /\ fse_free' = fse_free \cup {cur}
          /\ fse_open_cnt' = [fse_open_cnt EXCEPT ![cur] = 0]
          /\ fileset_move_entry(src, "free", cur)
          /\ LET after == {e \in fs_tree["free"] \cap OfKind(k) : e > cur}
             IN  IF after = {} THEN cur' = NULL
                 ELSE \E e \in after : Lowest(after, e) /\ cur' = e
          /\ UNCHANGED <<mpc, fse_exists, claimVars>>
    /\ UNCHANGED <<alloc, paralloc_count, paralloc_wait, disk, reusing, failed, creates, max_paralloc, remains>>

\* The end of a loop of fileset_pickreset().
ResetDone ==
  \E k \in {"file", "leafdir"} :
    /\ cur = NULL
    /\ \/ At("reset_noex", k) /\ ToReset("reset_exist", k, PickTree(k, "exist"))
       \/ At("reset_exist", k) /\ mpc' = <<"pick", k>> /\ UNCHANGED cur
    /\ UNCHANGED <<coreVars, alloc, paralloc_count, paralloc_wait, disk, reusing, failed, creates, max_paralloc, remains>>

-----------------------------------------------------------------------------
(* The loops that pick every free entry and allocate it, or do not.        *)

\* fileset_pick() can take fs_pick_lock.  The lock is not robust: if a worker has
\* died with it, nobody can, and the master stops at its first pick.
LockFree == ~remains.lock

restOfMaster == <<alloc, paralloc_count, paralloc_wait, disk, reusing, failed, creates, max_paralloc, remains>>

MasterWaitsIdle ==
  \E k \in {"file", "leafdir"} :
    /\ At("pick", k)
    /\ LockFree
    /\ Master \notin idle_cv[k]
    /\ PickWait(Master, k)
    /\ UNCHANGED createVars

\* PICKUNIQUE starts at a random index and moves no rotor.
MasterPicks ==
  \E k \in {"file", "leafdir"}, e \in Entries :
    /\ At("pick", k)
    /\ LockFree
    /\ Master \notin idle_cv[k]
    /\ PickEntry(k, "free", NULL, TRUE, e)
    /\ cur' = e
    /\ mpc' = <<"chosen", k>>
    /\ UNCHANGED restOfMaster

\* The pick returns NULL: after the files come the leaf directories.
MasterPickedAll ==
  \E k \in {"file", "leafdir"} :
    /\ At("pick", k)
    /\ LockFree
    /\ Master \notin idle_cv[k]
    /\ PickNull(k, "free", NULL, TRUE)
    /\ IF k = "file" THEN ToReset("reset_noex", "leafdir", PickTree("leafdir", "noex"))
       ELSE mpc' = <<"finish", "leafdir">> /\ cur' = NULL
    /\ UNCHANGED restOfMaster

\* The dice say not to allocate this one.
Skip ==
  \E k \in {"file", "leafdir"} :
    /\ At("chosen", k)
    /\ Partial
    /\ fileset_unbusy(cur, TRUE, FALSE, 0)
    /\ mpc' = <<"pick", k>>
    /\ cur' = NULL
    /\ UNCHANGED restOfMaster

\* Allocate: in a thread of its own, once there is room, or here.
Allocate ==
  \E k \in {"file", "leafdir"} :
    /\ At("chosen", k)
    /\ mpc' = <<IF k = "file" /\ Paralloc THEN "limit" ELSE "alloc", k>>
    /\ UNCHANGED <<coreVars, cur, restOfMaster>>

\* MAX_PARALLOC_THREADS are at work: wait for one to finish.
LimitWait ==
  /\ At("limit", "file")
  /\ ~paralloc_wait
  /\ paralloc_count >= max_paralloc
  /\ paralloc_wait' = TRUE
  /\ UNCHANGED <<coreVars, mpc, cur, alloc, paralloc_count, disk, reusing, failed, creates, max_paralloc, remains>>

\* An allocation thread has reported an error: give up, the entry in hand busy.
LimitError ==
  /\ At("limit", "file")
  /\ ~paralloc_wait
  /\ paralloc_count < 0
  /\ mpc' = <<"error", "file">>
  /\ UNCHANGED <<coreVars, cur, restOfMaster>>

\* Plausible slip: the negative count that reports an error is counted up again.
FireDespiteError ==
  /\ At("limit", "file")
  /\ ~paralloc_wait
  /\ paralloc_count < max_paralloc
  /\ paralloc_count' = paralloc_count + 1
  /\ alloc' = [alloc EXCEPT ![cur] = "write"]
  /\ mpc' = <<"pick", "file">>
  /\ cur' = NULL
  /\ UNCHANGED <<coreVars, paralloc_wait, disk, reusing, failed, creates, max_paralloc, remains>>

\* There is room: count the thread and start it.
Fire ==
  /\ At("limit", "file")
  /\ ~paralloc_wait
  /\ paralloc_count \in 0..(max_paralloc - 1)
  /\ paralloc_count' = paralloc_count + 1
  /\ alloc' = [alloc EXCEPT ![cur] = "write"]
  /\ mpc' = <<"pick", "file">>
  /\ cur' = NULL
  /\ UNCHANGED <<coreVars, paralloc_wait, disk, reusing, failed, creates, max_paralloc, remains>>

\* pthread_create() fails: the program shuts down with the thread counted.
FireFails ==
  /\ At("limit", "file")
  /\ ~paralloc_wait
  /\ paralloc_count \in 0..(max_paralloc - 1)
  /\ AllocFails
  /\ paralloc_count' = paralloc_count + 1
  /\ mpc' = <<"error", "file">>
  /\ UNCHANGED <<coreVars, cur, alloc, paralloc_wait, disk, reusing, failed, creates, max_paralloc, remains>>

\* A file that is trusted to be there is opened without O_CREAT.
CanAlloc(e) == Trust /\ e \in Files => e \in disk

\* fileset_alloc_file() or fileset_alloc_leafdir() in the master itself.
AllocHere ==
  \E k \in {"file", "leafdir"} :
    /\ At("alloc", k)
    /\ \/ /\ CanAlloc(cur)
          /\ disk' = disk \cup {cur}
          /\ fileset_unbusy(cur, TRUE, TRUE, 0)
          /\ mpc' = <<"pick", k>>
          /\ UNCHANGED failed
       \/ /\ AllocFails \/ ~CanAlloc(cur)
          /\ disk' \in {disk} \cup (IF k = "file" /\ ~Trust THEN {disk \cup {cur}} ELSE {})
          /\ fileset_unbusy(cur, TRUE, FALSE, 0)
          /\ mpc' = <<"error", k>>
          /\ failed' = TRUE
    /\ cur' = NULL
    /\ UNCHANGED <<alloc, paralloc_count, paralloc_wait, reusing, creates, max_paralloc, remains>>

-----------------------------------------------------------------------------
(* fileset_alloc_thread(): allocate, unbusy, count down, signal.           *)

restOfThread == <<mpc, cur, reusing, creates, max_paralloc, remains>>

ThreadWrites(e) ==
  /\ alloc[e] = "write"
  /\ \/ /\ CanAlloc(e)
        /\ alloc' = [alloc EXCEPT ![e] = "unbusy_ok"]
        /\ disk' = disk \cup {e}
        /\ UNCHANGED failed
     \/ /\ AllocFails \/ ~CanAlloc(e)
        /\ alloc' = [alloc EXCEPT ![e] = "unbusy_err"]
        /\ disk' \in {disk} \cup (IF Trust THEN {} ELSE {disk \cup {e}})
        /\ failed' = TRUE
  /\ UNCHANGED <<coreVars, restOfThread, paralloc_count, paralloc_wait>>

ThreadUnbusies(e) ==
  /\ \/ /\ alloc[e] = "unbusy_ok"
        /\ fileset_unbusy(e, TRUE, TRUE, 0)
        /\ alloc' = [alloc EXCEPT ![e] = "count_ok"]
     \/ /\ alloc[e] = "unbusy_err"
        /\ fileset_unbusy(e, TRUE, FALSE, 0)
        /\ alloc' = [alloc EXCEPT ![e] = "count_err"]
  /\ UNCHANGED <<restOfThread, paralloc_count, paralloc_wait, disk, failed>>

\* Plausible slip: only a thread that fails signals the master.
CountsSilently(e) ==
  /\ alloc[e] \in {"count_ok", "count_err"}
  /\ paralloc_count' = IF alloc[e] = "count_err" THEN -1 ELSE paralloc_count - 1
  /\ paralloc_wait' = (paralloc_wait /\ alloc[e] = "count_ok")
  /\ alloc' = [alloc EXCEPT ![e] = "none"]
  /\ UNCHANGED <<coreVars, restOfThread, disk, failed>>

ThreadCounts(e) ==
  /\ alloc[e] \in {"count_ok", "count_err"}
  /\ paralloc_count' = IF alloc[e] = "count_err" THEN -1 ELSE paralloc_count - 1
  /\ paralloc_wait' = FALSE
  /\ alloc' = [alloc EXCEPT ![e] = "none"]
  /\ UNCHANGED <<coreVars, restOfThread, disk, failed>>

-----------------------------------------------------------------------------
(* The end of fileset_createset().                                         *)

FinishWait ==
  /\ At("finish", "leafdir")
  /\ ~paralloc_wait
  /\ paralloc_count > 0
  /\ paralloc_wait' = TRUE
  /\ UNCHANGED <<coreVars, mpc, cur, alloc, paralloc_count, disk, reusing, failed, creates, max_paralloc, remains>>

Finish ==
  /\ At("finish", "leafdir")
  /\ ~paralloc_wait
  /\ paralloc_count <= 0
  /\ mpc' = <<"check", "leafdir">>
  /\ UNCHANGED <<coreVars, cur, restOfMaster>>

\* The count is read once more, after the unlock.
Check ==
  /\ At("check", "leafdir")
  /\ mpc' = <<IF paralloc_count < 0 THEN "error" ELSE "ok", "leafdir">>
  /\ UNCHANGED <<coreVars, cur, restOfMaster>>

-----------------------------------------------------------------------------
(* The run after the call, and "shutdown processes", which clears          *)
(* filecreate_done and so lets the filesets be created again.  By then the *)
(* workers have ended or been killed.  What is left is what the flowops of *)
(* the module Fileset do, cut short anywhere.  Nothing here reads the open *)
(* counts, the rotors or what belongs to fs_thrd_wait_cv, so they stay.    *)

\* The run has created and deleted files and leaf directories, of those that are
\* not free.  A file has FSE_EXISTS only after an open() that made it, unless its
\* flag was wrong before; mkdir(), rmdir() and unlink() may fail unseen; and of an
\* entry left busy a worker may have changed the storage and not the flag.
RunEntries ==
  \E exists \in SUBSET ((Files \cup LeafDirs) \ fse_free) :
    /\ fse_exists' = Dirs \cup exists \cup (fse_exists \cap fse_free)
    /\ fs_tree' = [fs_tree EXCEPT !["exist"] = exists,
                                  !["noex"] = (Files \cup LeafDirs) \ (exists \cup fse_free)]
    /\ disk' \in SUBSET (Files \cup LeafDirs)
    /\ (exists \cap Files) \ disk' \subseteq fse_busy' \cup (fse_exists \ disk)
    /\ UNCHANGED <<fse_free, fse_open_cnt>>

\* Killed workers, and flowops that returned an error, have left entries busy and
\* off the idle counts; a close that was not the last has left a file on the count
\* twice; killed workers are still counted as waiters of a condition variable, each
\* of one.
RunClaims(surplus) ==
  \E busy \in SUBSET Entries :
    /\ fse_busy \subseteq busy
    /\ Cardinality(busy) <= MaxLost
    /\ fse_busy' = busy
    /\ fs_idle' = [k \in Kind |-> Cardinality(OfKind(k) \ busy) + Surplus(k, surplus)]
    /\ idle_cv' \in [Kind -> SUBSET (Threads \ {Master})]
    /\ \A j, k \in Kind : j # k => idle_cv'[j] \cap idle_cv'[k] = {}
    /\ UNCHANGED <<fse_waitng, fs_rotor, thrd_wait_cv>>

Again ==
  /\ At("ok", "leafdir")
  /\ creates < MaxCreates
  /\ mpc' = <<"start", "file">>
  /\ \E surplus \in remains.surplus..MaxSurplus, lock \in BOOLEAN :
       /\ RunClaims(surplus)
       /\ RunEntries
       /\ remains' = [busy |-> fse_busy', astray |-> (fse_exists' \ Dirs) \ disk', surplus |-> surplus,
                      waited |-> {k \in Kind : idle_cv'[k] # {}}, lock |-> lock]
  /\ UNCHANGED <<cur, alloc, paralloc_count, paralloc_wait, reusing, failed, creates, max_paralloc>>

Active == {e \in Files : alloc[e] # "none"}

\* fileset_createset() has returned for good; after an error the program exits.
Returned ==
  \/ mpc[1] \in {"error", "corrupt"}
  \/ mpc[1] = "ok" /\ creates = MaxCreates

\* It never will: the lock is gone with a worker, or, nothing being at work, the
\* master waits for an entry of a type of which the run has left every entry busy,
\* or on a condition variable whose one signal a dead worker may have been given.
Hung ==
  \/ mpc[1] = "pick" /\ remains.lock
  \/ /\ Active = {}
     /\ \E k \in Kind :
          Master \in idle_cv[k] /\ (OfKind(k) \subseteq remains.busy \/ k \in remains.waited)

Master_Next ==
  \/ Start \/ ResetTurn("reset_noex", "noex") \/ ResetTurn("reset_exist", "exist") \/ ResetDone
  \/ MasterWaitsIdle \/ MasterPicks \/ MasterPickedAll \/ Skip \/ Allocate
  \/ LimitWait \/ LimitError \/ Fire \/ FireFails \/ AllocHere
  \/ FinishWait \/ Finish \/ Check \/ Again

Thread_Next(e) == ThreadWrites(e) \/ ThreadUnbusies(e) \/ ThreadCounts(e)

Next ==
  \/ Master_Next
  \/ \E e \in Files : Thread_Next(e)
  \/ (Returned \/ Hung) /\ Active = {} /\ UNCHANGED vars

Spec == Init /\ [][Next]_vars

\* The master and the allocation threads are scheduled.
FairSpec == Spec /\ WF_vars(Master_Next) /\ \A e \in Files : WF_vars(Thread_Next(e))

-----------------------------------------------------------------------------
(* Properties.                                                             *)

\* When fileset_createset() returns OK the fileset is ready for the run, but for
\* what an earlier run has spoilt: no allocation has failed, in whichever thread
\* and whatever the other threads did to the shared count; every allocation
\* thread has finished; no entry is busy or still free that the run did not leave
\* busy; the idle counts are the entries that are not busy, and the surplus the
\* run has left; and FSE_EXISTS, where the run left it right, says what is on
\* storage.
ReadyWhenOK ==
  mpc[1] = "ok" =>
    /\ ~failed
    /\ Active = {}
    /\ fse_busy = remains.busy /\ fse_free \subseteq remains.busy
    /\ \A k \in Kind : fs_idle[k] = Cardinality(NotBusy(k)) + Surplus(k, remains.surplus)
    /\ \A e \in fse_exists \ (Dirs \cup remains.astray) : e \in disk

\* Each call of fileset_createset() returns, although the master waits for idle
\* entries, for room among the allocation threads and for the last of them, and
\* an error overwrites the count it waits on; unless fileset_pickreset(), which
\* asks for the successor of an entry it has moved, has left a tree in pieces, or
\* what the run before has left in the fileset holds the master up.
CreateReturns ==
  At("start", "file") /\ creates < MaxCreates ~> mpc[1] \in {"ok", "error", "corrupt"} \/ Hung

=============================================================================
