------------------------------ MODULE Procflow ------------------------------
(***************************************************************************)
(* The life of a run: src/filebench/procflow.c, threadflow.c, the frame of *)
(* flowop_start() in flowop.c, the run commands of parser_gram.y and        *)
(* filebench_shutdown() of misc.c.                                         *)
(*                                                                         *)
(* The master process has two threads: main, which executes the script,    *)
(* and one createnwait thread per run, which forks the worker processes    *)
(* and reaps them.  A worker process p = <<r, i>>, instance i of run r,    *)
(* has one worker thread here.  Sleeps take any time; a step is a visit to *)
(* shm_procflow_lock or shm_threadflow_lock, or an access to a shared      *)
(* flag.  The two locks are variables because they are held across sleeps  *)
(* and waits, and for ever by an owner that dies: both are plain mutexes,  *)
(* IPC_MUTEX_NORMAL, which nobody can take over.                           *)
(***************************************************************************)
EXTENDS Integers, FiniteSets

CONSTANTS
  Instances,    \* worker processes of a run
  MaxRuns,      \* bound: run commands in the script
  RunMode,      \* shm_rmode
  Returns,      \* the codes other than OK that flowops return
  Faults,       \* what may go wrong, see below
  NULL          \* nobody

\* "fork", "exec": fork() or execlp() fails; "thread": a worker cannot define its
\* thread, or pthread_create() fails; "flowop": it cannot create its run-time
\* flowops; "die": a worker dies; "slow": a worker takes longer to start than the
\* master waits.
AllFaults == {"fork", "exec", "thread", "flowop", "die", "slow"}

ASSUME ProcflowAssumption ==
  /\ Instances \in Nat \ {0}
  /\ MaxRuns \in Nat \ {0}
  /\ RunMode \in {"timeout", "q1stdone", "qalldone"}
  /\ Returns \subseteq {"ERROR", "NORSC", "DONE"}
  /\ Faults \subseteq AllFaults

Runs == 1..MaxRuns
Procs == Runs \X (1..Instances)

\* Those who call procflow_shutdown(): main, the createnwait thread of run r
\* (named <<r, 0>>) and the worker processes.
Main == <<0, 0>>
Reaper(r) == <<r, 0>>
Actors == {Main} \cup {Reaper(r) : r \in Runs} \cup Procs

ASSUME NobodyAssumption == NULL \notin Actors

VARIABLES
  f_abort,         \* shm_f_abort
  procs_running,   \* shm_procs_running
  procflow_lock,   \* the owner of shm_procflow_lock
  threadflow_lock, \* the worker process that has shm_threadflow_lock
  run_lock,        \* the master holds shm_run_lock as a reader
  listed,          \* worker procflows on shm_proclist
  pf_running,      \* worker procflows with pf_running set
  pst,             \* each worker process
  tst,             \* its thread
  reaped,          \* worker processes that have been waited for
  mpc,             \* main
  rpc,             \* the createnwait thread of each run
  cnw_wait,        \* cnw_wait
  signalled,       \* main has been signalled on shm_procflow_procs_cv
  run,             \* run commands so far
  seen,            \* procflow_allstarted(): the procflows still to be looked at
  running_procs,   \* its count
  sd,              \* where each actor is in filebench_shutdown(), procflow_shutdown()
  todo             \* the lock owner's procflow_shutdown(): procflows to be deleted

sharedVars == <<f_abort, procs_running, procflow_lock, listed, pf_running>>
workerVars == <<pst, tst, reaped, threadflow_lock>>
mainVars == <<mpc, run_lock, cnw_wait, signalled, run, seen, running_procs>>
shutVars == <<sd, todo>>
vars == <<sharedVars, workerVars, mainVars, rpc, shutVars>>

\* Types of all variables.
TypeOK ==
  /\ f_abort \in {"ok", "error", "done", "rsrc", "fini"}
  /\ procs_running \in Int
  /\ procflow_lock \in Actors \cup {NULL}
  /\ threadflow_lock \in Procs \cup {NULL}
  /\ run_lock \in BOOLEAN
  /\ listed \subseteq Procs
  /\ pf_running \subseteq Procs
  /\ pst \in [Procs -> {"none", "forked", "found", "started", "creating", "nothread", "created",
                        "running", "failed", "counted", "exit0", "exit1", "died"}]
  /\ tst \in [Procs -> {"none", "barrier", "loop", "flowop", "exited"}]
  /\ reaped \subseteq Procs
  /\ mpc \in {"idle", "init", "cvwait", "release", "alllock", "allstarted", "allsleep",
              "allthreads", "nothreads", "check", "pause", "shutdown", "quit", "exit"}
  /\ rpc \in [Runs -> {"none", "create", "wait", "reaped_ok", "reaped_bad", "shutdown", "gone"}]
  /\ cnw_wait \in {"wait", "done", "error"}
  /\ signalled \in BOOLEAN
  /\ run \in 0..MaxRuns
  /\ seen \subseteq Procs
  /\ running_procs \in Nat
  /\ sd \in [Actors -> {"off", "entry", "check", "lock", "loop", "zero", "done"}]
  /\ todo \subseteq Procs

\* The script has defined its processes; ipc_init() took the run lock.
Init ==
  /\ f_abort = "ok"
  /\ procs_running = 0
  /\ procflow_lock = NULL
  /\ threadflow_lock = NULL
  /\ run_lock = TRUE
  /\ listed = {}
  /\ pf_running = {}
  /\ pst = [p \in Procs |-> "none"]
  /\ tst = [p \in Procs |-> "none"]
  /\ reaped = {}
  /\ mpc = "idle"
  /\ rpc = [r \in Runs |-> "none"]
  /\ cnw_wait = "wait"
  /\ signalled = FALSE
  /\ run = 0
  /\ seen = {}
  /\ running_procs = 0
  /\ sd = [a \in Actors |-> "off"]
  /\ todo = {}

Dead(p) == pst[p] \in {"exit0", "exit1", "died"}
Alive(p) == pst[p] # "none" /\ ~Dead(p)

\* ipc_mutex_lock() of shm_procflow_lock would not block.
LockFree == procflow_lock = NULL

\* The procflow of S that comes first on shm_proclist: the last one defined.
First(S, p) ==
  /\ p \in S
  /\ \A q \in S : q[1] < p[1] \/ (q[1] = p[1] /\ q[2] <= p[2])

-----------------------------------------------------------------------------
(* main: parser_run() and what it calls.                                   *)

\* A run command, up to pthread_create() in procflow_init().  The procflows of
\* an earlier run have been deleted.
M_Run ==
  /\ mpc = "idle"
  /\ run < MaxRuns
  /\ listed = {}
  /\ run' = run + 1
  /\ f_abort' = "ok"
  /\ rpc' = [rpc EXCEPT ![run + 1] = "create"]
  /\ cnw_wait' = "wait"
  /\ mpc' = "init"
  /\ UNCHANGED <<procs_running, procflow_lock, listed, pf_running, workerVars,
                 run_lock, signalled, seen, running_procs, shutVars>>

\* pthread_cond_wait(), whether or not the processes have been created already.
M_InitWait ==
  /\ mpc = "init"
  /\ LockFree
  /\ mpc' = "cvwait"
  /\ signalled' = FALSE
  /\ procflow_lock' = NULL
  /\ UNCHANGED <<f_abort, procs_running, listed, pf_running, workerVars, run_lock,
                 cnw_wait, run, seen, running_procs, rpc, shutVars>>

\* The wait returns; if not all processes could be created, filebench_shutdown(1).
M_InitDone ==
  /\ mpc = "cvwait"
  /\ signalled
  /\ LockFree
  /\ procflow_lock' = NULL
  /\ IF cnw_wait = "error"
     THEN mpc' = "quit" /\ sd' = [sd EXCEPT ![Main] = "entry"]
     ELSE mpc' = "release" /\ UNCHANGED sd
  /\ UNCHANGED <<f_abort, procs_running, listed, pf_running, workerVars, run_lock, cnw_wait,
                 signalled, run, seen, running_procs, rpc, todo>>

\* Release the barrier.
M_Release ==
  /\ mpc = "release"
  /\ run_lock' = FALSE
  /\ mpc' = "alllock"
  /\ UNCHANGED <<sharedVars, workerVars, cnw_wait, signalled, run, seen, running_procs, rpc, shutVars>>

\* procflow_allstarted() begins.
M_AllLock ==
  /\ mpc = "alllock"
  /\ LockFree
  /\ procflow_lock' = Main
  /\ seen' = listed
  /\ running_procs' = 0
  /\ mpc' = "allstarted"
  /\ UNCHANGED <<f_abort, procs_running, listed, pf_running, workerVars, run_lock,
                 cnw_wait, signalled, run, rpc, shutVars>>

\* The list of threads that threadflow_allstarted() is given is read before
\* shm_threadflow_lock is taken: the thread of the process may not be on it yet.
ThreadsOf(p) == IF tst[p] = "none" THEN "nothreads" ELSE "allthreads"

\* Plausible slip: the return on an error keeps the lock.
M_AllStartedKeepsLock ==
  /\ mpc = "allstarted"
  /\ \E p \in seen :
       /\ First(seen, p)
       /\ IF p \in pf_running
          THEN mpc' = ThreadsOf(p) /\ UNCHANGED procflow_lock
          ELSE /\ mpc' = IF f_abort = "error" THEN "check" ELSE "allsleep"
               /\ procflow_lock' = IF f_abort = "error" THEN Main ELSE NULL
  /\ UNCHANGED <<f_abort, procs_running, listed, pf_running, workerVars, run_lock, cnw_wait,
                 signalled, run, seen, running_procs, rpc, shutVars>>

\* The next process runs: go on to its threads.  It does not: drop the lock, and
\* return if there has been an error, or sleep.
M_AllStarted ==
  /\ mpc = "allstarted"
  /\ \E p \in seen :
       /\ First(seen, p)
       /\ IF p \in pf_running
          THEN mpc' = ThreadsOf(p) /\ UNCHANGED procflow_lock
          ELSE /\ mpc' = IF f_abort = "error" THEN "check" ELSE "allsleep"
               /\ procflow_lock' = NULL
  /\ UNCHANGED <<f_abort, procs_running, listed, pf_running, workerVars, run_lock, cnw_wait,
                 signalled, run, seen, running_procs, rpc, shutVars>>

\* After the sleep the process is looked at again.
M_AllSleep ==
  /\ mpc = "allsleep"
  /\ LockFree
  /\ procflow_lock' = Main
  /\ mpc' = "allstarted"
  /\ UNCHANGED <<f_abort, procs_running, listed, pf_running, workerVars, run_lock, cnw_wait,
                 signalled, run, seen, running_procs, rpc, shutVars>>

\* The bounded waits for p run out: p will never run, perhaps because it waits
\* for shm_procflow_lock to shut the run down, or is slow to.
Expires(p) ==
  \/ Dead(p) \/ pst[p] = "none"
  \/ sd[p] # "off"
  \/ "slow" \in Faults

\* The process is given up, and counted all the same.
M_AllExpires ==
  /\ mpc = "allsleep"
  /\ LockFree
  /\ \E p \in seen : First(seen, p) /\ Expires(p) /\ mpc' = ThreadsOf(p)
  /\ procflow_lock' = Main
  /\ UNCHANGED <<f_abort, procs_running, listed, pf_running, workerVars, run_lock, cnw_wait,
                 signalled, run, seen, running_procs, rpc, shutVars>>

\* threadflow_allstarted(), with shm_procflow_lock held: take shm_threadflow_lock,
\* which a worker may keep, and wait for the thread of the process, if it is on
\* the list, giving that lock up for each second of the wait.
M_AllThreads ==
  /\ mpc \in {"allthreads", "nothreads"}
  /\ threadflow_lock = NULL
  /\ \E p \in seen :
       /\ First(seen, p)
       /\ mpc = "nothreads" \/ tst[p] # "barrier" \/ f_abort # "ok" \/ Expires(p)
       /\ seen' = seen \ {p}
  /\ running_procs' = running_procs + 1
  /\ mpc' = "allstarted"
  /\ UNCHANGED <<sharedVars, workerVars, run_lock, cnw_wait, signalled, run,
                 rpc, shutVars>>

\* Plausible slip: an off-by-one in the count.
M_SetCountLow ==
  /\ mpc = "allstarted"
  /\ seen = {}
  /\ procs_running' = running_procs - 1
  /\ procflow_lock' = NULL
  /\ mpc' = "check"
  /\ UNCHANGED <<f_abort, listed, pf_running, workerVars, run_lock, cnw_wait,
                 signalled, run, seen, running_procs, rpc, shutVars>>

\* All have been looked at: the count goes up for everyone to start.
M_SetCount ==
  /\ mpc = "allstarted"
  /\ seen = {}
  /\ procs_running' = running_procs
  /\ procflow_lock' = NULL
  /\ mpc' = "check"
  /\ UNCHANGED <<f_abort, listed, pf_running, workerVars, run_lock, cnw_wait,
                 signalled, run, seen, running_procs, rpc, shutVars>>

\* "check for startup errors": the run command returns without a shutdown.
M_Check ==
  /\ mpc = "check"
  /\ mpc' = IF f_abort # "ok" THEN "idle" ELSE "pause"
  /\ UNCHANGED <<sharedVars, workerVars, run_lock, cnw_wait, signalled, run, seen,
                 running_procs, rpc, shutVars>>

\* parser_pause() ends, parser_statssnap() prints the results, and
\* parser_proc_shutdown() begins.
M_PauseEnds ==
  /\ mpc = "pause"
  /\ f_abort # "ok" \/ RunMode = "timeout"
  /\ mpc' = "shutdown"
  /\ sd' = [sd EXCEPT ![Main] = "check"]
  /\ UNCHANGED <<sharedVars, workerVars, run_lock, cnw_wait, signalled, run, seen,
                 running_procs, rpc, todo>>

\* The script ends or quits: parser_filebench_shutdown().
M_Quit ==
  /\ mpc = "idle"
  /\ mpc' = "quit"
  /\ sd' = [sd EXCEPT ![Main] = IF f_abort = "error" THEN "entry" ELSE "check"]
  /\ UNCHANGED <<sharedVars, workerVars, run_lock, cnw_wait, signalled, run, seen,
                 running_procs, rpc, todo>>

\* procflow_shutdown() has returned to main: go on with the script, or exit().
M_ShutDone ==
  /\ mpc # "exit"
  /\ sd[Main] = "done"
  /\ sd' = [sd EXCEPT ![Main] = "off"]
  /\ mpc' = IF mpc = "quit" THEN "exit" ELSE "idle"
  /\ UNCHANGED <<sharedVars, workerVars, run_lock, cnw_wait, signalled, run, seen,
                 running_procs, rpc, todo>>

-----------------------------------------------------------------------------
(* procflow_createnwait(): the createnwait thread of run r.                *)

\* procflow_create_all_procs(), under the lock: the first n processes are forked;
\* if a fork fails its procflow has been defined all the same.
R_Create(r) ==
  /\ mpc # "exit"
  /\ rpc[r] = "create"
  /\ LockFree
  /\ procflow_lock' = NULL
  /\ \E n \in 0..Instances :
       /\ n < Instances => "fork" \in Faults
       /\ pst' = [p \in Procs |-> IF p[1] = r /\ p[2] <= n THEN "forked" ELSE pst[p]]
       /\ listed' = listed \cup {p \in Procs : p[1] = r /\ p[2] <= n + 1}
       /\ pf_running' = {p \in pf_running : p[1] # r}
       /\ cnw_wait' = IF n = Instances THEN "done" ELSE "error"
  /\ signalled' = (mpc = "cvwait")
  /\ rpc' = [rpc EXCEPT ![r] = "wait"]
  /\ UNCHANGED <<f_abort, procs_running, tst, reaped, threadflow_lock, mpc, run_lock, run, seen,
                 running_procs, shutVars>>

\* waitid(): a child has exited, or there is none left.
R_Reap(r) ==
  /\ mpc # "exit"
  /\ rpc[r] = "wait"
  /\ \/ \E p \in Procs \ reaped :
          /\ Dead(p)
          /\ reaped' = reaped \cup {p}
          /\ rpc' = [rpc EXCEPT ![r] = IF pst[p] = "exit0" THEN "reaped_ok" ELSE "reaped_bad"]
     \/ /\ \A p \in Procs \ reaped : pst[p] = "none"
        /\ rpc' = [rpc EXCEPT ![r] = "gone"]
        /\ UNCHANGED reaped
  /\ UNCHANGED <<sharedVars, pst, tst, threadflow_lock, mainVars, shutVars>>

\* Leave if the run is being stopped, stop it if nothing runs any more, and shut
\* down with an error if the child did not exit normally.
R_Check(r) ==
  /\ mpc # "exit"
  /\ rpc[r] \in {"reaped_ok", "reaped_bad"}
  /\ LockFree
  /\ procflow_lock' = NULL
  /\ \/ /\ f_abort # "ok" \/ procs_running = 0
        /\ f_abort' = IF f_abort = "ok" THEN "rsrc" ELSE f_abort
        /\ rpc' = [rpc EXCEPT ![r] = "gone"]
        /\ UNCHANGED sd
     \/ /\ f_abort = "ok" /\ procs_running # 0
        /\ IF rpc[r] = "reaped_ok"
           THEN rpc' = [rpc EXCEPT ![r] = "wait"] /\ UNCHANGED sd
           ELSE /\ rpc' = [rpc EXCEPT ![r] = "shutdown"]
                /\ sd' = [sd EXCEPT ![Reaper(r)] = "entry"]
        /\ UNCHANGED f_abort
  /\ UNCHANGED <<procs_running, listed, pf_running, workerVars, mainVars, todo>>

\* filebench_shutdown() ends in exit(1) of the whole master process.
R_ShutDone(r) ==
  /\ mpc # "exit"
  /\ sd[Reaper(r)] = "done"
  /\ sd' = [sd EXCEPT ![Reaper(r)] = "off"]
  /\ mpc' = "exit"
  /\ UNCHANGED <<sharedVars, workerVars, run_lock, cnw_wait, signalled, run, seen,
                 running_procs, rpc, todo>>

-----------------------------------------------------------------------------
(* A worker process: procflow_exec(), threadflow_init(), flowop_start().   *)

restOfWorker == <<reaped, mainVars, rpc, shutVars>>

\* All but the process's own place.
restOfThreads == <<sharedVars, tst, restOfWorker>>

\* procflow_find(): a worker whose procflow is gone already exits with an error.
W_Find(p) ==
  /\ pst[p] = "forked"
  /\ sd[p] = "off"
  /\ LockFree
  /\ procflow_lock' = NULL
  /\ pst' = [pst EXCEPT ![p] = IF p \in listed THEN "found" ELSE "exit1"]
  /\ UNCHANGED <<f_abort, procs_running, listed, pf_running, tst, threadflow_lock, restOfWorker>>

W_Start(p) ==
  /\ pst[p] = "found"
  /\ pst' = [pst EXCEPT ![p] = "started"]
  /\ pf_running' = pf_running \cup {p}
  /\ UNCHANGED <<f_abort, procs_running, procflow_lock, listed, tst, threadflow_lock, restOfWorker>>

\* threadflow_init() takes shm_threadflow_lock.
W_Lock(p) ==
  /\ pst[p] = "started"
  /\ threadflow_lock = NULL
  /\ threadflow_lock' = p
  /\ pst' = [pst EXCEPT ![p] = "creating"]
  /\ UNCHANGED restOfThreads

\* It defines and creates the thread.
W_Threads(p) ==
  /\ pst[p] = "creating"
  /\ sd[p] = "off"
  /\ pst' = [pst EXCEPT ![p] = "created"]
  /\ tst' = [tst EXCEPT ![p] = "barrier"]
  /\ UNCHANGED <<sharedVars, threadflow_lock, restOfWorker>>

\* No memory is left for the thread: it returns with the lock held.
W_CannotDefine(p) ==
  /\ pst[p] = "creating"
  /\ sd[p] = "off"
  /\ "thread" \in Faults
  /\ pst' = [pst EXCEPT ![p] = "failed"]
  /\ UNCHANGED <<threadflow_lock, restOfThreads>>

\* It gives the lock up, with or without a thread.
W_Unlock(p) ==
  /\ pst[p] \in {"created", "nothread"}
  /\ threadflow_lock' = NULL
  /\ pst' = [pst EXCEPT ![p] = IF @ = "created" THEN "running" ELSE "failed"]
  /\ UNCHANGED restOfThreads

\* execlp() fails, or pthread_create(), with shm_threadflow_lock held, or, in the
\* thread, the creation of its flowops: filebench_shutdown(1), in the worker
\* process.
W_CannotStart(p) ==
  /\ Alive(p)
  /\ sd[p] = "off"
  /\ \/ pst[p] = "forked" /\ "exec" \in Faults
     \/ pst[p] = "creating" /\ "thread" \in Faults
     \/ tst[p] = "barrier" /\ ~run_lock /\ "flowop" \in Faults
  /\ sd' = [sd EXCEPT ![p] = "entry"]
  /\ UNCHANGED <<sharedVars, workerVars, mainVars, rpc, todo>>

\* The thread passes the barrier and creates its flowops.
T_Barrier(p) ==
  /\ Alive(p)
  /\ tst[p] = "barrier"
  /\ sd[p] = "off"
  /\ ~run_lock
  /\ tst' = [tst EXCEPT ![p] = "loop"]
  /\ UNCHANGED <<sharedVars, pst, threadflow_lock, restOfWorker>>

\* The tests at the head of the loop: leave, or run a flowop.
T_Loop(p) ==
  /\ Alive(p)
  /\ tst[p] = "loop"
  /\ \/ f_abort # "ok" /\ tst' = [tst EXCEPT ![p] = "exited"]
     \/ f_abort = "ok" /\ procs_running # 0 /\ tst' = [tst EXCEPT ![p] = "flowop"]
  /\ UNCHANGED <<sharedVars, pst, threadflow_lock, restOfWorker>>

\* What a return code makes of shm_f_abort, whatever it is by then.
AbortFor(ret) ==
  IF ret = "ERROR" \/ (ret = "NORSC" /\ RunMode = "timeout") THEN "error"
  ELSE IF ret = "DONE" THEN "done"
  ELSE IF ret = "NORSC" /\ RunMode = "q1stdone" THEN "rsrc"
  ELSE f_abort

T_Return(p) ==
  /\ Alive(p)
  /\ tst[p] = "flowop"
  /\ \/ tst' = [tst EXCEPT ![p] = "loop"] /\ UNCHANGED f_abort
     \/ \E ret \in Returns :
          /\ tst' = [tst EXCEPT ![p] = "exited"]
          /\ f_abort' = AbortFor(ret)
  /\ UNCHANGED <<procs_running, procflow_lock, listed, pf_running, pst, threadflow_lock,
                 restOfWorker>>

\* threadflow_init() has joined its thread, or there is none; procflow_exec()
\* counts the process down.
W_Count(p) ==
  /\ pst[p] = "failed" \/ (pst[p] = "running" /\ tst[p] = "exited")
  /\ procs_running' = procs_running - 1
  /\ pst' = [pst EXCEPT ![p] = "counted"]
  /\ UNCHANGED <<f_abort, procflow_lock, listed, pf_running, tst, threadflow_lock, restOfWorker>>

\* It clears pf_running, and main() exits, with an error if no thread was created.
W_Exit(p) ==
  /\ pst[p] = "counted"
  /\ pf_running' = pf_running \ {p}
  /\ pst' = [pst EXCEPT ![p] = IF tst[p] = "exited" THEN "exit0" ELSE "exit1"]
  /\ UNCHANGED <<f_abort, procs_running, procflow_lock, listed, tst, threadflow_lock,
                 restOfWorker>>

\* filebench_shutdown() ends in exit(1) of the worker.
W_ShutDone(p) ==
  /\ Alive(p)
  /\ sd[p] = "done"
  /\ pst' = [pst EXCEPT ![p] = "exit1"]
  /\ tst' = [tst EXCEPT ![p] = "exited"]
  /\ sd' = [sd EXCEPT ![p] = "off"]
  /\ UNCHANGED <<sharedVars, reaped, threadflow_lock, mainVars, rpc, todo>>

\* The process is killed, or crashes, perhaps while it has shm_procflow_lock, in
\* procflow_find() or at a test of shm_f_abort, to which it may have written.
W_Dies(p) ==
  /\ "die" \in Faults
  /\ Alive(p)
  /\ pst' = [pst EXCEPT ![p] = "died"]
  /\ tst' = [tst EXCEPT ![p] = "exited"]
  /\ sd' = [sd EXCEPT ![p] = "off"]
  /\ \/ UNCHANGED <<f_abort, procflow_lock>>
     \/ /\ LockFree
        /\ procflow_lock' = p
        /\ \/ (pst[p] = "forked" \/ sd[p] \in {"entry", "lock"}) /\ UNCHANGED f_abort
           \/ sd[p] = "entry" /\ f_abort # "fini" /\ f_abort' = "error"
  /\ UNCHANGED <<procs_running, listed, pf_running, reaped, threadflow_lock, mainVars, rpc, todo>>

-----------------------------------------------------------------------------
(* filebench_shutdown(1), from its "entry", and procflow_shutdown(), from   *)
(* its "check", by any actor.                                              *)

CanAct(a) == IF a \in Procs THEN Alive(a) ELSE mpc # "exit"

restOfShutdown == <<run_lock, cnw_wait, signalled, run, seen, running_procs>>

\* A shutdown has been completed already: filebench_shutdown() returns to its
\* caller (main is at the end of the script then); otherwise the run has ended in an error.
S_Entry(a) ==
  /\ CanAct(a)
  /\ sd[a] = "entry"
  /\ LockFree
  /\ procflow_lock' = NULL
  /\ IF f_abort # "fini"
     THEN /\ f_abort' = "error"
          /\ sd' = [sd EXCEPT ![a] = "check"]
          /\ UNCHANGED <<mpc, rpc, pst, tst>>
     ELSE /\ sd' = [sd EXCEPT ![a] = "off"]
          /\ mpc' = IF a = Main THEN "exit" ELSE mpc
          /\ rpc' = [r \in Runs |-> IF a = Reaper(r) THEN "wait" ELSE rpc[r]]
          /\ pst' = [p \in Procs |->
                       IF p # a THEN pst[p]
                       ELSE CASE pst[p] = "forked" -> "exit1"
                              [] pst[p] = "creating" -> "nothread"
                              [] OTHER -> pst[p]]
          /\ tst' = IF a \in Procs /\ pst[a] \in {"created", "running"}
                    THEN [tst EXCEPT ![a] = "exited"] ELSE tst
          /\ UNCHANGED f_abort
  /\ UNCHANGED <<procs_running, listed, pf_running, reaped, threadflow_lock, restOfShutdown, todo>>

\* No processes running: nothing to do.
S_Check(a) ==
  /\ CanAct(a)
  /\ sd[a] = "check"
  /\ sd' = [sd EXCEPT ![a] = IF procs_running <= 0 THEN "done" ELSE "lock"]
  /\ UNCHANGED <<sharedVars, workerVars, mainVars, rpc, todo>>

S_Lock(a) ==
  /\ CanAct(a)
  /\ sd[a] = "lock"
  /\ LockFree
  /\ IF f_abort = "fini"
     THEN /\ sd' = [sd EXCEPT ![a] = "done"]
          /\ procflow_lock' = NULL
          /\ UNCHANGED <<f_abort, todo>>
     ELSE /\ sd' = [sd EXCEPT ![a] = "loop"]
          /\ procflow_lock' = a
          /\ f_abort' = IF f_abort = "ok" THEN "done" ELSE f_abort
          /\ todo' = listed
  /\ UNCHANGED <<procs_running, listed, pf_running, workerVars, mainVars, rpc>>

\* Plausible slip: a process that still runs is deleted without being killed.
S_DeleteOnly(a, p) ==
  /\ CanAct(a)
  /\ sd[a] = "loop"
  /\ First(todo, p)
  /\ todo' = todo \ {p}
  /\ listed' = listed \ {p}
  /\ pf_running' = pf_running \ {p}
  /\ UNCHANGED <<f_abort, procs_running, procflow_lock, workerVars, mainVars, rpc, sd>>

\* The next process: given a moment to stop, signalled if it still runs, which
\* kills it, waited for, and deleted.  A worker that comes to its own procflow
\* kills itself, the lock held.
S_Delete(a, p) ==
  /\ CanAct(a)
  /\ sd[a] = "loop"
  /\ First(todo, p)
  /\ IF p \in pf_running /\ Alive(p)
     THEN /\ pst' = [pst EXCEPT ![p] = "died"]
          /\ tst' = [tst EXCEPT ![p] = "exited"]
          /\ sd' = [sd EXCEPT ![p] = "off"]
     ELSE UNCHANGED <<pst, tst, sd>>
  /\ IF p \in pf_running /\ p = a THEN UNCHANGED <<todo, listed, pf_running, reaped>>
     ELSE /\ todo' = todo \ {p}
          /\ listed' = listed \ {p}
          /\ pf_running' = pf_running \ {p}
          /\ reaped' = IF p \in pf_running /\ a \notin Procs THEN reaped \cup {p} ELSE reaped
  /\ UNCHANGED <<f_abort, procs_running, procflow_lock, threadflow_lock, mainVars, rpc>>

S_Fini(a) ==
  /\ CanAct(a)
  /\ sd[a] = "loop"
  /\ todo = {}
  /\ f_abort' = "fini"
  /\ procflow_lock' = NULL
  /\ sd' = [sd EXCEPT ![a] = "zero"]
  /\ UNCHANGED <<procs_running, listed, pf_running, workerVars, mainVars, rpc, todo>>

S_Zero(a) ==
  /\ CanAct(a)
  /\ sd[a] = "zero"
  /\ procs_running' = 0
  /\ sd' = [sd EXCEPT ![a] = "done"]
  /\ UNCHANGED <<f_abort, procflow_lock, listed, pf_running, workerVars, mainVars, rpc, todo>>

-----------------------------------------------------------------------------
(* The specification.                                                      *)

Shutdown(a) ==
  \/ S_Entry(a) \/ S_Check(a) \/ S_Lock(a) \/ S_Fini(a) \/ S_Zero(a)
  \/ \E p \in Procs : S_Delete(a, p)

\* main, within a run command or an exit.
MainRuns ==
  \/ M_InitWait \/ M_InitDone \/ M_Release \/ M_AllLock \/ M_AllStarted
  \/ M_AllSleep \/ M_AllExpires \/ M_AllThreads \/ M_SetCount \/ M_Check \/ M_PauseEnds
  \/ M_ShutDone \/ Shutdown(Main)

ReaperRuns(r) ==
  R_Create(r) \/ R_Reap(r) \/ R_Check(r) \/ R_ShutDone(r) \/ Shutdown(Reaper(r))

WorkerRuns(p) ==
  \/ W_Find(p) \/ W_Start(p) \/ W_Lock(p) \/ W_Threads(p) \/ W_CannotDefine(p) \/ W_Unlock(p)
  \/ W_CannotStart(p) \/ T_Barrier(p) \/ T_Loop(p) \/ T_Return(p)
  \/ W_Count(p) \/ W_Exit(p) \/ W_ShutDone(p) \/ Shutdown(p)

Terminated == mpc = "exit" /\ (\A p \in Procs : ~Alive(p)) /\ UNCHANGED vars

Next ==
  \/ M_Run \/ M_Quit \/ MainRuns
  \/ \E r \in Runs : ReaperRuns(r)
  \/ \E p \in Procs : WorkerRuns(p) \/ W_Dies(p)
  \/ Terminated

Spec == Init /\ [][Next]_vars

\* Every thread of every process is scheduled, sleeps and bounded waits end, and
\* the script comes to its end.  The fairness is strong because those who hold
\* shm_procflow_lock for long give it up for seconds, so that nobody blocked on
\* it is passed over for ever.
FairSpec ==
  /\ Spec
  /\ SF_vars(MainRuns) /\ SF_vars(M_AllExpires) /\ WF_vars(M_Quit)
  /\ \A r \in Runs : SF_vars(ReaperRuns(r))
  /\ \A p \in Procs : SF_vars(WorkerRuns(p))

-----------------------------------------------------------------------------
(* Properties.                                                             *)

\* Once procflow_shutdown() has completed, no thread is left that could run
\* flowops: a procflow with pf_running clear has joined its threads, and the
\* others have been killed, whoever did the shutdown and whoever died in it.
QuietAfterShutdown ==
  f_abort = "fini" => \A p \in Procs : Alive(p) => tst[p] \in {"none", "exited"}

\* Workers that have not yet been counted down.
Uncounted == {p \in Procs : Alive(p) /\ pst[p] # "counted"}

\* While a run is on, shm_procs_running is at least the number of processes still
\* to be counted down: nobody takes the run for finished, or skips the shutdown,
\* with a process still at work.
CountCoversLiving ==
  mpc = "pause" /\ f_abort = "ok" => procs_running >= Cardinality(Uncounted)

\* shm_procflow_lock or shm_threadflow_lock will never be given up: its owner is
\* dead, which includes a worker that has killed itself in procflow_shutdown(), and
\* one that exited after threadflow_define_common() had failed.
OwnerGone ==
  \/ procflow_lock \in Procs /\ Dead(procflow_lock)
  \/ procflow_lock \in Actors \ Procs /\ mpc = "exit"
  \/ threadflow_lock \in Procs /\ Dead(threadflow_lock)

\* Main, in threadflow_allstarted(), and a worker whose pthread_create() failed have
\* one of the two locks each and wait for the other.
Deadlocked ==
  /\ mpc \in {"allthreads", "nothreads"} /\ procflow_lock = Main
  /\ \E p \in Procs : threadflow_lock = p /\ sd[p] = "entry" /\ Alive(p)

\* A run command that got past procflow_init() ends in the exit of the master,
\* and with no worker process left, whatever fails and with two threads and a
\* worker shutting down at once, unless one of the two locks is lost: nothing else
\* leaves anyone waiting for ever.
EverythingEnds ==
  mpc = "release" ~> (mpc = "exit" /\ \A p \in Procs : ~Alive(p)) \/ OwnerGone \/ Deadlocked
=============================================================================
