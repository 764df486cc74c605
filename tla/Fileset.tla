------------------------------ MODULE Fileset ------------------------------
(***************************************************************************)
(* Worker threads running the file and directory flowops of               *)
(* src/filebench/flowop_library.c on one shared fileset, as driven by the   *)
(* loop of flowop_start() in src/filebench/flowop.c.                        *)
(*                                                                         *)
(* A flowop is cut where another thread can see the difference: at each    *)
(* visit to fs_pick_lock and at each system call.  What a flowop does to   *)
(* the thread's own tables between two cuts belongs to the step.  Which    *)
(* flowop comes next, and on which file descriptor slot, is open: any      *)
(* script is a sequence of these.                                          *)
(***************************************************************************)
EXTENDS FilesetCore

CONSTANTS
  Fds,          \* the fdnumbers flowops name; 0 is the default slot
  Ops,          \* the flowops the threads run
  Faults,       \* the system calls that may fail
  RotateFd,     \* flowops have fo_rotatefd: picks use the thread's own rotor
  ByIndex,      \* flowops have fo_fileindex: picks start at a given index
  RunMode,      \* shm_rmode
  MaxFlowops    \* bound: flowops a thread starts

AllOps == {"openfile", "createfile", "closefile", "deletefile", "statfile",
           "fsync", "readwrite", "makedir", "removedir", "listdir"}

\* System calls whose failure the flowops ignore.
IgnoredFaults == {"unlink", "mkdir", "rmdir"}

AllFaults == {"open", "io", "parent_mkdir", "opendir", "getdirpath"} \cup IgnoredFaults

ASSUME FlowopAssumption ==
  /\ IsFiniteSet(Threads) /\ Fds \subseteq Nat
  /\ Ops \subseteq AllOps
  /\ Faults \subseteq AllFaults
  /\ RotateFd \in BOOLEAN /\ ByIndex \in BOOLEAN
  /\ RunMode \in {"timeout", "q1stdone", "qalldone"}
  /\ MaxFlowops \in Nat

VARIABLES
  pc,         \* where each thread is in its flowop
  op,         \* the flowop it runs
  fdn,        \* the descriptor slot the flowop works on
  ent,        \* the entry the flowop works on
  call,       \* the arguments of the coming fileset_unbusy(), and the return code
  tf_fd,      \* tf_fd[fd]: never opened or closed, open, or open64() gave -1
  tf_fse,     \* tf_fse[fd]
  disk,       \* the files and leaf directories that are really on storage
  f_abort,    \* shm_f_abort
  started     \* flowops each thread has started (bounded by MaxFlowops)

threadVars == <<pc, op, fdn, ent, call>>
tableVars == <<tf_fd, tf_fse>>
vars == <<coreVars, threadVars, tableVars, disk, f_abort, started>>

\* The arguments of fileset_unbusy(), and the flowop's return code after it.
Args(update, exists, incr, ret) ==
  [update |-> update, exists |-> exists, incr |-> incr, ret |-> ret]
NoCall == Args(FALSE, FALSE, 0, "OK")
Calls == [update : BOOLEAN, exists : BOOLEAN, incr : Int, ret : {"OK", "ERROR"}]

FlowTypeOK ==
  /\ pc \in [Threads -> {"loop", "pick", "grab", "held", "unbusy", "exit", "segv"}]
  /\ op \in [Threads -> AllOps]
  /\ fdn \in [Threads -> Nat]
  /\ ent \in [Threads -> Entries \cup {NULL}]
  /\ call \in [Threads -> Calls]
  /\ tf_fd \in [Threads -> [Fds -> {"closed", "open", "failed"}]]
  /\ tf_fse \in [Threads -> [Fds -> Files \cup {NULL}]]
  /\ disk \subseteq Files \cup LeafDirs
  /\ f_abort \in {"ok", "error", "done", "rsrc"}
  /\ started \in [Threads -> 0..MaxFlowops]

\* Types of all variables.
TypeOK == CoreTypeOK /\ FlowTypeOK

\* The fileset as fileset_create() leaves it: no free entry, the preallocated
\* files and leaf directories on storage.
Init ==
  /\ fse_free = {}
  /\ disk \in SUBSET (Files \cup LeafDirs)
  /\ fse_exists = disk \cup Dirs
  /\ fse_busy = {}
  /\ fse_waitng = {}
  /\ fse_open_cnt = [e \in Entries |-> 0]
  /\ fs_tree = [free |-> {}, exist |-> disk, noex |-> (Files \cup LeafDirs) \ disk]
  /\ fs_idle = [k \in Kind |-> Cardinality(OfKind(k))]
  /\ fs_rotor = [r \in Rotor |-> 0]
  /\ idle_cv = [k \in Kind |-> {}]
  /\ thrd_wait_cv = {}
  /\ pc = [t \in Threads |-> "loop"]
  /\ op = [t \in Threads |-> "statfile"]
  /\ fdn = [t \in Threads |-> 0]
  /\ ent = [t \in Threads |-> NULL]
  /\ call = [t \in Threads |-> NoCall]
  /\ tf_fd = [t \in Threads |-> [f \in Fds |-> "closed"]]
  /\ tf_fse = [t \in Threads |-> [f \in Fds |-> NULL]]
  /\ f_abort = "ok"
  /\ started = [t \in Threads |-> 0]

-----------------------------------------------------------------------------
(* flowop_start(): entering and leaving a flowop.                          *)

\* The loop's test of shm_f_abort, and the bound on flowops started.
Begin(t, o, fd) ==
  /\ pc[t] = "loop"
  /\ f_abort = "ok"
  /\ o \in Ops
  /\ started[t] < MaxFlowops
  /\ started' = [started EXCEPT ![t] = @ + 1]
  /\ op' = [op EXCEPT ![t] = o]
  /\ fdn' = [fdn EXCEPT ![t] = fd]

\* What the loop does with a flowop's return code.
Return(t, ret) ==
  /\ pc' = [pc EXCEPT ![t] = IF ret = "OK" THEN "loop" ELSE "exit"]
  /\ f_abort' = IF ret = "ERROR" \/ (ret = "NORSC" /\ RunMode = "timeout") THEN "error"
                ELSE IF ret = "NORSC" /\ RunMode = "q1stdone" THEN "rsrc"
                ELSE f_abort

\* A flowop that returns before it has claimed anything.
ReturnAtOnce(t, ret) ==
  /\ Return(t, ret)
  /\ UNCHANGED <<coreVars, ent, call, tableVars, disk>>

\* A flowop that goes on to claim an entry: any one by fileset_pick(), or the
\* entry e itself.
GoOn(t, where, e) ==
  /\ pc' = [pc EXCEPT ![t] = where]
  /\ ent' = [ent EXCEPT ![t] = e]
  /\ UNCHANGED <<coreVars, call, tf_fd, disk, f_abort>>

\* The loop leaves when the run is being stopped.
Exit(t) ==
  /\ pc[t] = "loop"
  /\ f_abort # "ok"
  /\ pc' = [pc EXCEPT ![t] = "exit"]
  /\ UNCHANGED <<coreVars, op, fdn, ent, call, tableVars, disk, f_abort, started>>

\* The master ends the run, as parser_run() does when its time is up.
RunEnds ==
  /\ f_abort = "ok"
  /\ f_abort' = "done"
  /\ UNCHANGED <<coreVars, threadVars, tableVars, disk, started>>

-----------------------------------------------------------------------------
(* The flowops up to their first visit to fs_pick_lock.                    *)

openfile(t, fd) ==
  /\ Begin(t, "openfile", fd)
  /\ IF tf_fd[t][fd] # "closed" THEN ReturnAtOnce(t, "ERROR")
     ELSE GoOn(t, "pick", NULL) /\ UNCHANGED tf_fse

createfile(t, fd) ==
  /\ Begin(t, "createfile", fd)
  /\ IF tf_fd[t][fd] # "closed" THEN ReturnAtOnce(t, "ERROR")
     ELSE GoOn(t, "pick", NULL) /\ UNCHANGED tf_fse

\* read, write, readwholefile, appendfile...: filesetup() opens the slot if it
\* is not open; the I/O itself touches nothing of the fileset, and may fail.
readwrite(t, fd) ==
  /\ Begin(t, "readwrite", fd)
  /\ IF tf_fd[t][fd] # "closed"
     THEN \E ret \in {"OK"} \cup (IF "io" \in Faults THEN {"ERROR"} ELSE {}) :
            ReturnAtOnce(t, ret)
     ELSE GoOn(t, "pick", NULL) /\ UNCHANGED tf_fse

\* With a descriptor number the entry of that slot is deleted, and the slot
\* forgets it at once; otherwise any existing file is picked.
deletefile(t, fd) ==
  /\ Begin(t, "deletefile", fd)
  /\ IF fd > 0 /\ tf_fse[t][fd] # NULL
     THEN GoOn(t, "grab", tf_fse[t][fd]) /\ tf_fse' = [tf_fse EXCEPT ![t][fd] = NULL]
     ELSE GoOn(t, "pick", NULL) /\ UNCHANGED tf_fse

\* The entry of an open slot is dereferenced without a test for NULL.  The
\* process dies there; procflow_createnwait() then shuts the run down.
closefile(t, fd) ==
  /\ Begin(t, "closefile", fd)
  /\ IF tf_fd[t][fd] = "closed" THEN ReturnAtOnce(t, "ERROR")
     ELSE IF tf_fse[t][fd] = NULL
     THEN /\ pc' = [pc EXCEPT ![t] = "segv"]
          /\ f_abort' = "error"
          /\ UNCHANGED <<coreVars, ent, call, tableVars, disk>>
     ELSE GoOn(t, "grab", tf_fse[t][fd]) /\ UNCHANGED tf_fse

\* fd_num > 0 holds of an open slot only, not of one whose open failed.
statfile(t, fd) ==
  /\ Begin(t, "statfile", fd)
  /\ IF fd > 0 /\ tf_fd[t][fd] = "open"
     THEN ReturnAtOnce(t, IF tf_fse[t][fd] = NULL THEN "ERROR" ELSE "OK")
     ELSE GoOn(t, "pick", NULL) /\ UNCHANGED tf_fse

fsync(t, fd) ==
  /\ Begin(t, "fsync", fd)
  /\ ReturnAtOnce(t, IF tf_fd[t][fd] = "closed" \/ tf_fse[t][fd] = NULL
                     THEN "ERROR" ELSE "OK")

\* makedir, removedir and listdir start with a pick.
dirop(t, o) ==
  /\ o \in {"makedir", "removedir", "listdir"}
  /\ Begin(t, o, 0)
  /\ GoOn(t, "pick", NULL)
  /\ UNCHANGED tf_fse

-----------------------------------------------------------------------------
(* Claiming an entry.                                                      *)

OpKind(o) == IF o \in {"makedir", "removedir"} THEN "leafdir"
             ELSE IF o = "listdir" THEN "dir" ELSE "file"

OpWant(o) == IF o \in {"createfile", "makedir"} THEN "noex" ELSE "exist"

\* flowoplib_openfile_common() alone passes the thread's id to the pick.
OpTid(t) == IF RotateFd /\ op[t] \in {"openfile", "readwrite"} THEN t ELSE NULL

\* flowoplib_pickfile() and flowoplib_pickleafdir() honour fo_fileindex.
OpByIndex(o) == ByIndex /\ o # "listdir"

\* The thread is at the lock of fileset_pick(), not blocked in its wait.
AtPick(t) == pc[t] = "pick" /\ t \notin idle_cv[OpKind(op[t])]

\* Nothing is idle: wait.
WaitIdle(t) ==
  /\ AtPick(t)
  /\ PickWait(t, OpKind(op[t]))
  /\ UNCHANGED <<threadVars, tableVars, disk, f_abort, started>>

\* The pick succeeds; an open or a create records the entry in its slot.
Pick(t, e) ==
  /\ AtPick(t)
  /\ PickEntry(OpKind(op[t]), OpWant(op[t]), OpTid(t), OpByIndex(op[t]), e)
  /\ pc' = [pc EXCEPT ![t] = "held"]
  /\ ent' = [ent EXCEPT ![t] = e]
  /\ tf_fse' = IF op[t] \in {"openfile", "createfile", "readwrite"}
               THEN [tf_fse EXCEPT ![t][fdn[t]] = e] ELSE tf_fse
  /\ UNCHANGED <<op, fdn, call, tf_fd, disk, f_abort, started>>

\* The pick fails: out of resources, or an error for listdir.
PickFails(t) ==
  /\ AtPick(t)
  /\ PickNull(OpKind(op[t]), OpWant(op[t]), OpTid(t), OpByIndex(op[t]))
  /\ Return(t, IF op[t] = "listdir" THEN "ERROR" ELSE "NORSC")
  /\ UNCHANGED <<op, fdn, ent, call, tableVars, disk, started>>

\* The thread is at the lock of closefile or deletefile, not blocked.
AtGrab(t) == pc[t] = "grab" /\ t \notin thrd_wait_cv

\* Plausible slip: the waiter does not set FSE_THRD_WAITNG.
WaitBusySilently(t) ==
  /\ AtGrab(t)
  /\ ent[t] \in fse_busy
  /\ thrd_wait_cv' = thrd_wait_cv \cup {t}
  /\ UNCHANGED <<flagVars, fse_busy, fse_waitng, fs_idle, fs_rotor, idle_cv>>
  /\ UNCHANGED <<threadVars, tableVars, disk, f_abort, started>>

\* The particular file is busy: leave word, and wait.
WaitBusy(t) ==
  /\ AtGrab(t)
  /\ ent[t] \in fse_busy
  /\ fse_waitng' = fse_waitng \cup {ent[t]}
  /\ thrd_wait_cv' = thrd_wait_cv \cup {t}
  /\ UNCHANGED <<flagVars, fse_busy, fs_idle, fs_rotor, idle_cv>>
  /\ UNCHANGED <<threadVars, tableVars, disk, f_abort, started>>

\* Plausible slip: the wait is an if, not a while, so a woken thread takes a
\* file that another thread has claimed in between.
GrabAnyway(t) ==
  /\ AtGrab(t)
  /\ fse_busy' = fse_busy \cup {ent[t]}
  /\ fs_idle' = [fs_idle EXCEPT !["file"] =
                   IF op[t] = "deletefile" \/ fse_open_cnt[ent[t]] = 1 THEN @ - 1 ELSE @]
  /\ pc' = [pc EXCEPT ![t] = "held"]
  /\ UNCHANGED <<flagVars, fse_waitng, fs_rotor, idle_cv, thrd_wait_cv>>
  /\ UNCHANGED <<op, fdn, ent, call, tableVars, disk, f_abort, started>>

\* The particular file is claimed.  deletefile always takes it off the idle
\* count, closefile only at the last close.
Grab(t) ==
  /\ AtGrab(t)
  /\ ent[t] \notin fse_busy
  /\ fse_busy' = fse_busy \cup {ent[t]}
  /\ fs_idle' = [fs_idle EXCEPT !["file"] =
                   IF op[t] = "deletefile" \/ fse_open_cnt[ent[t]] = 1 THEN @ - 1 ELSE @]
  /\ pc' = [pc EXCEPT ![t] = "held"]
  /\ UNCHANGED <<flagVars, fse_waitng, fs_rotor, idle_cv, thrd_wait_cv>>
  /\ UNCHANGED <<op, fdn, ent, call, tableVars, disk, f_abort, started>>

-----------------------------------------------------------------------------
(* The system call on the claimed entry, and what fileset_unbusy() is to   *)
(* be told about it.                                                       *)

\* The thread holds the entry and goes on to fileset_unbusy() with arguments c.
ToUnbusy(t, c) ==
  /\ pc' = [pc EXCEPT ![t] = "unbusy"]
  /\ call' = [call EXCEPT ![t] = c]
  /\ UNCHANGED <<coreVars, op, fdn, ent, f_abort, started>>

\* The flowop gives up holding the entry: an ERROR return with no unbusy.
GiveUp(t) ==
  /\ Return(t, "ERROR")
  /\ UNCHANGED <<coreVars, op, fdn, ent, call, tableVars, disk, started>>

\* What storage may be after a call whose result is not looked at.
Attempt(syscall, new) == {new} \cup (IF syscall \in Faults THEN {disk} ELSE {})

Holding(t, o) == pc[t] = "held" /\ op[t] \in o

\* fileset_openfile() for an existing file.
SysOpen(t) ==
  /\ Holding(t, {"openfile", "readwrite"})
  /\ \/ /\ ent[t] \in disk
        /\ tf_fd' = [tf_fd EXCEPT ![t][fdn[t]] = "open"]
        /\ ToUnbusy(t, Args(FALSE, FALSE, 1, "OK"))
     \/ /\ "open" \in Faults \/ ent[t] \notin disk
        /\ tf_fd' = [tf_fd EXCEPT ![t][fdn[t]] = "failed"]
        /\ ToUnbusy(t, Args(FALSE, FALSE, 0, "ERROR"))
  /\ UNCHANGED <<tf_fse, disk>>

\* fileset_openfile() with O_CREAT.
SysCreate(t) ==
  /\ Holding(t, {"createfile"})
  /\ \/ /\ disk' = disk \cup {ent[t]}
        /\ tf_fd' = [tf_fd EXCEPT ![t][fdn[t]] = "open"]
        /\ ToUnbusy(t, Args(TRUE, TRUE, 1, "OK"))
     \/ /\ "open" \in Faults
        /\ tf_fd' = [tf_fd EXCEPT ![t][fdn[t]] = "failed"]
        /\ ToUnbusy(t, Args(FALSE, FALSE, 0, "ERROR"))
        /\ UNCHANGED disk
  /\ UNCHANGED tf_fse

\* The parent directory is missing and fileset_mkdir() cannot make it.
SysCreateNoParent(t) ==
  /\ Holding(t, {"createfile"})
  /\ "parent_mkdir" \in Faults
  /\ GiveUp(t)

\* Plausible slip: the close does not lower the open count.
SysCloseUncounted(t) ==
  /\ Holding(t, {"closefile"})
  /\ ToUnbusy(t, NoCall)
  /\ UNCHANGED <<tableVars, disk>>

SysClose(t) ==
  /\ Holding(t, {"closefile"})
  /\ ToUnbusy(t, Args(FALSE, FALSE, -1, "OK"))
  /\ UNCHANGED <<tableVars, disk>>

\* A delete is refused while anyone else has the file open: with an open slot
\* of its own the thread takes one of the opens to be its own.
DeleteRefused(t) ==
  IF fdn[t] > 0 /\ tf_fd[t][fdn[t]] = "open"
  THEN fse_open_cnt[ent[t]] > 1
  ELSE fse_open_cnt[ent[t]] > 0

\* Plausible slip: the open count is not looked at.
SysUnlinkOpen(t) ==
  /\ Holding(t, {"deletefile"})
  /\ disk' = disk \ {ent[t]}
  /\ ToUnbusy(t, Args(TRUE, FALSE, -fse_open_cnt[ent[t]], "OK"))
  /\ UNCHANGED tableVars

\* Plausible slip: the deleted file keeps its FSE_EXISTS flag.
SysUnlinkStale(t) ==
  /\ Holding(t, {"deletefile"})
  /\ IF DeleteRefused(t)
     THEN ToUnbusy(t, NoCall) /\ UNCHANGED disk
     ELSE /\ disk' = disk \ {ent[t]}
          /\ ToUnbusy(t, Args(FALSE, FALSE, -fse_open_cnt[ent[t]], "OK"))
  /\ UNCHANGED tableVars

SysUnlink(t) ==
  /\ Holding(t, {"deletefile"})
  /\ IF DeleteRefused(t)
     THEN ToUnbusy(t, NoCall) /\ UNCHANGED disk
     ELSE /\ disk' \in Attempt("unlink", disk \ {ent[t]})
          /\ ToUnbusy(t, Args(TRUE, FALSE, -fse_open_cnt[ent[t]], "OK"))
  /\ UNCHANGED tableVars

\* stat64() of a picked file; its failure is only logged.
SysStat(t) ==
  /\ Holding(t, {"statfile"})
  /\ ToUnbusy(t, NoCall)
  /\ UNCHANGED <<tableVars, disk>>

SysMkdir(t) ==
  /\ Holding(t, {"makedir"})
  /\ disk' \in Attempt("mkdir", disk \cup {ent[t]})
  /\ ToUnbusy(t, Args(TRUE, TRUE, 0, "OK"))
  /\ UNCHANGED tableVars

SysRmdir(t) ==
  /\ Holding(t, {"removedir"})
  /\ disk' \in Attempt("rmdir", disk \ {ent[t]})
  /\ ToUnbusy(t, Args(TRUE, FALSE, 0, "OK"))
  /\ UNCHANGED tableVars

SysListdir(t) ==
  /\ Holding(t, {"listdir"})
  /\ ToUnbusy(t, NoCall)
  /\ UNCHANGED <<tableVars, disk>>

\* flowoplib_getdirpath() runs out of memory, or opendir() fails.
SysDirFails(t) ==
  /\ \/ Holding(t, {"makedir", "removedir", "listdir"}) /\ "getdirpath" \in Faults
     \/ Holding(t, {"listdir"}) /\ "opendir" \in Faults
  /\ GiveUp(t)

\* fileset_unbusy(), and the return of the flowop.  closefile clears the slot's
\* descriptor, and leaves its entry pointer.
Unbusy(t) ==
  /\ pc[t] = "unbusy"
  /\ fileset_unbusy(ent[t], call[t].update, call[t].exists, call[t].incr)
  /\ Return(t, call[t].ret)
  /\ ent' = [ent EXCEPT ![t] = NULL]
  /\ call' = [call EXCEPT ![t] = NoCall]
  /\ tf_fd' = IF op[t] = "closefile" THEN [tf_fd EXCEPT ![t][fdn[t]] = "closed"] ELSE tf_fd
  /\ UNCHANGED <<op, fdn, tf_fse, disk, started>>

-----------------------------------------------------------------------------
(* The specification.                                                      *)

StartFlowop(t) ==
  \/ \E fd \in Fds :
       \/ openfile(t, fd)   \/ createfile(t, fd) \/ readwrite(t, fd)
       \/ deletefile(t, fd) \/ closefile(t, fd)  \/ statfile(t, fd)
       \/ fsync(t, fd)
  \/ \E o \in Ops : dirop(t, o)

Claim(t) ==
  \/ WaitIdle(t) \/ PickFails(t) \/ WaitBusy(t) \/ Grab(t)
  \/ \E e \in Entries : Pick(t, e)

SysCall(t) ==
  \/ SysOpen(t) \/ SysCreate(t) \/ SysCreateNoParent(t) \/ SysClose(t)
  \/ SysUnlink(t) \/ SysStat(t) \/ SysMkdir(t) \/ SysRmdir(t)
  \/ SysListdir(t) \/ SysDirFails(t)

\* One step of a flowop that is under way.
FlowopStep(t) == Claim(t) \/ SysCall(t) \/ Unbusy(t)

\* All threads are gone: the run is over.
Terminated == (\A t \in Threads : pc[t] \in {"exit", "segv"}) /\ UNCHANGED vars

Next ==
  \/ \E t \in Threads : StartFlowop(t) \/ FlowopStep(t) \/ Exit(t)
  \/ RunEnds
  \/ Terminated

Spec == Init /\ [][Next]_vars

\* Threads are scheduled: a flowop under way, or a loop test, does not wait
\* for ever to be run.
Fairness ==
  /\ \A t \in Threads : WF_vars(FlowopStep(t)) /\ WF_vars(Exit(t))
  /\ WF_vars(RunEnds)

FairSpec == Spec /\ Fairness
-----------------------------------------------------------------------------
(* Properties.                                                             *)

\* Thread t has entry e claimed: between the pick (or the grab) and the
\* unbusy, or for good if the flowop gave up without one.
Holds(t, e) == ent[t] = e /\ pc[t] # "grab"

\* FSE_BUSY is a lock on the entry: it is set exactly while some thread has the
\* entry claimed, and no two threads ever have the same one claimed, whichever
\* of fileset_pick(), closefile and deletefile they claimed it through.
BusyIsExclusive ==
  /\ \A e \in fse_busy : \E t \in Threads : Holds(t, e)
  /\ \A t \in Threads, e \in Entries : Holds(t, e) => e \in fse_busy
  /\ \A t, u \in Threads, e \in Entries : Holds(t, e) /\ Holds(u, e) => t = u

\* The claims as the abstract lock table sees them.
Claims == {c \in Threads \X Entries : Holds(c[1], c[2])}

Lock == INSTANCE EntryLock WITH claims <- Claims

\* The flowops implement the abstract lock table EntryLock: a thread claims an
\* entry only when it has none and nobody else has that one, keeps it through
\* its system call, and only the claimant gives it back.
ClaimsAreALock == Lock!Spec

\* No thread sleeps through the release of the file it waits for in closefile
\* or deletefile: while it is blocked the file is busy and marked
\* FSE_THRD_WAITNG, so that the holder's fileset_unbusy() will broadcast.  The
\* condition variable is shared by the waiters for all files of the fileset.
BusyWaiterWillBeWoken ==
  \A t \in thrd_wait_cv : ent[t] \in fse_busy \cap fse_waitng

\* Whenever an entry is not busy, FSE_EXISTS (and so the tree from which
\* createfile, deletefile, makedir and removedir pick) says truly whether the
\* file or leaf directory is on storage, as long as no system call of the
\* IgnoredFaults fails.
FlagsMatchDisk ==
  \A e \in (Files \cup LeafDirs) \ fse_busy : e \in fse_exists <=> e \in disk

\* The descriptor slots through which an entry is open.
OpenSlots(e) ==
  {s \in Threads \X Fds : tf_fd[s[1]][s[2]] = "open" /\ tf_fse[s[1]][s[2]] = e}

\* With descriptor slot 0 only, fse_open_cnt of a file that is not busy is the
\* number of slots, over all threads, through which it is open.
OpenCountExact ==
  \A e \in Files \ fse_busy : fse_open_cnt[e] = Cardinality(OpenSlots(e))

\* A file is not unlinked while a thread other than the deleting one has it
\* open: the comment in flowoplib_deletefile(), "don't delete if anyone (other
\* than me) has file open".
NoUnlinkWhileOpenElsewhere ==
  [][\A t \in Threads :
       pc[t] = "held" /\ op[t] = "deletefile" /\ ent[t] \in disk \ disk' =>
         \A s \in OpenSlots(ent[t]) : s[1] = t]_vars

\* Directories and leaf directories are claimed by fileset_pick() alone, so their
\* idle counts are what fileset.h says, the "number of dirs NOT busy", whatever
\* the errors on which flowops leave entries busy.  (closefile breaks this for
\* files: it takes a file off the count only at its last close.)
DirCountsExact ==
  \A k \in {"dir", "leafdir"} : fs_idle[k] = Cardinality(NotBusy(k))

\* fileset_unbusy() signals "any threads that are waiting for a NOT BUSY
\* filesetentry": a thread blocked in fileset_pick() is released in the end, the
\* holders of the entries all returning them.
IdleWaiterReleased ==
  \A t \in Threads, k \in Kind : t \in idle_cv[k] ~> t \notin idle_cv[k]

=============================================================================
