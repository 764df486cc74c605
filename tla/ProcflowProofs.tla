--------------------------- MODULE ProcflowProofs ---------------------------
(***************************************************************************)
(* Proofs about Procflow, for any number of worker processes of one run    *)
(* command, with any faults.                                               *)
(*                                                                         *)
(* That a completed shutdown leaves nobody who could run flowops rests on  *)
(* a chain of facts about who may still come: procflow_shutdown() gets     *)
(* past its test of shm_procs_running only when procflow_allstarted() has  *)
(* seen every process start or give up (Settling), and the processes that  *)
(* it does not find running when it deletes them never will run (Leaving). *)
(* That shm_procs_running covers the living rests on procflow_allstarted() *)
(* having counted all that were listed (Counting).                         *)
(***************************************************************************)
EXTENDS Procflow, FiniteSetTheorems, TLAPS

\* Places of procflow_shutdown() past its test of shm_procs_running.
Past == {"lock", "loop", "zero"}

NobodyPast == \A a \in Actors : sd[a] \notin Past

\* The processes have not been created yet.
Uncreated == rpc[1] \in {"none", "create"}

\* The order of main and the createnwait thread at the start of the run.
Beginning ==
  /\ run = 0 <=> rpc[1] = "none"
  /\ run = 0 => mpc \in {"idle", "quit", "exit"}
  /\ mpc \in {"release", "alllock", "allstarted", "allsleep", "allthreads", "nothreads", "check", "pause"} =>
       ~Uncreated
  /\ mpc = "cvwait" /\ signalled => ~Uncreated
  /\ Uncreated =>
       /\ \A p \in Procs : pst[p] = "none"
       /\ procs_running <= 0 /\ f_abort # "fini" /\ NobodyPast

\* A process's place in its life, its thread's, and pf_running.
Living ==
  \A p \in Procs :
    /\ pst[p] \in {"started", "creating", "nothread", "created", "running", "failed", "counted"} =>
         p \in pf_running
    /\ p \in pf_running => pst[p] \notin {"none", "forked", "found"}
    /\ pst[p] \in {"none", "forked", "found", "started", "creating"} => tst[p] = "none"
    /\ pst[p] = "found" => sd[p] = "off"

\* Who holds shm_procflow_lock across steps, and what that keeps from changing.
Locking ==
  /\ mpc \in {"allstarted", "allthreads", "nothreads"} => procflow_lock = Main
  /\ sd[Main] # "off" => mpc \in {"shutdown", "quit", "exit"}
  /\ \A a \in Actors :
       sd[a] = "loop" /\ CanAct(a) => procflow_lock = a /\ listed \subseteq todo
  /\ f_abort = "ok" => \A a \in Actors : sd[a] \notin {"loop", "zero"}

\* The process has started, or never will.
Settled(p) == pst[p] # "found" /\ (pst[p] = "forked" => sd[p] # "off")

\* All processes are settled once procflow_allstarted() has been through, and so
\* before any shutdown gets past its test of shm_procs_running.
Settling ==
  /\ mpc \in {"allstarted", "allsleep", "allthreads", "nothreads"} => \A p \in Procs \ seen : Settled(p)
  /\ mpc \in {"allthreads", "nothreads"} => \A p \in seen : First(seen, p) => Settled(p)
  /\ procs_running > 0 \/ ~NobodyPast => \A p \in Procs : Settled(p)

\* The process is dead, or in the shutdown that its failed execlp() began.
Leaves(p) == Alive(p) => pst[p] = "forked" /\ sd[p] # "off"

\* A process whose procflow has been deleted is on its way out.
Leaving ==
  /\ \A p \in Procs \ listed : Leaves(p)
  /\ f_abort = "fini" => listed = {}

\* The count of procflow_allstarted(), and shm_procs_running after it.
Counting ==
  f_abort = "ok" =>
    /\ Uncounted \subseteq listed
    /\ mpc \in {"allstarted", "allsleep", "allthreads", "nothreads"} =>
         seen \subseteq listed /\ running_procs = Cardinality(listed \ seen)
    /\ mpc \in {"check", "pause"} => procs_running >= Cardinality(Uncounted)

\* The inductive invariant: what holds however slow the workers are, and what
\* holds if none is slower to start than the master waits.
IInv == TypeOK /\ Beginning /\ Locking /\ Counting

QuietInv == Living /\ Settling /\ Leaving

-----------------------------------------------------------------------------
(* The actors of one run.                                                  *)

\* There is one run, and its actors are main, the createnwait thread and the
\* worker processes.
LEMMA OneRun ==
  ASSUME MaxRuns = 1
  PROVE  /\ Runs = {1} /\ Main \in Actors /\ Reaper(1) \in Actors /\ Procs \subseteq Actors
         /\ Main \notin Procs /\ Reaper(1) \notin Procs /\ Main # Reaper(1)
         /\ \A a \in Actors : a = Main \/ a = Reaper(1) \/ a \in Procs
         /\ NULL \notin Actors
<1>1. Runs = {1}
  BY DEF Runs
<1>2. Main \notin Procs /\ Reaper(1) \notin Procs /\ Main # Reaper(1)
  BY <1>1, ProcflowAssumption DEF Procs, Main, Reaper
<1>3. Actors = {Main, Reaper(1)} \cup Procs
  BY <1>1 DEF Actors
<1> QED
  BY <1>1, <1>2, <1>3, NobodyAssumption

-----------------------------------------------------------------------------
(* Types.                                                                  *)

\* The actors of any number of runs.
LEMMA ActorFacts ==
  Main \in Actors /\ (\A r \in Runs : Reaper(r) \in Actors) /\ Procs \subseteq Actors
BY DEF Actors

\* The initial state has the types.
LEMMA InitTypes ==
  ASSUME Init
  PROVE  TypeOK
<1>1. /\ f_abort = "ok" /\ procs_running = 0 /\ procflow_lock = NULL /\ threadflow_lock = NULL
      /\ run_lock = TRUE
      /\ listed = {} /\ pf_running = {} /\ reaped = {} /\ mpc = "idle" /\ cnw_wait = "wait"
      /\ signalled = FALSE /\ run = 0 /\ seen = {} /\ running_procs = 0 /\ todo = {}
  BY DEF Init
<1>2. /\ pst \in [Procs -> {"none"}] /\ tst \in [Procs -> {"none"}]
      /\ rpc \in [Runs -> {"none"}] /\ sd \in [Actors -> {"off"}]
  BY DEF Init
<1>3. run_lock \in BOOLEAN /\ signalled \in BOOLEAN
  BY <1>1, Zenon
<1>4. /\ pst \in [Procs -> {"none", "forked", "found", "started", "creating", "nothread", "created",
                           "running", "failed", "counted", "exit0", "exit1", "died"}]
      /\ tst \in [Procs -> {"none", "barrier", "loop", "flowop", "exited"}]
  BY <1>2
<1>5. rpc \in [Runs -> {"none", "create", "wait", "reaped_ok", "reaped_bad", "shutdown", "gone"}]
  BY <1>2
<1>6. sd \in [Actors -> {"off", "entry", "check", "lock", "loop", "zero", "done"}]
  BY <1>2
<1> QED
  BY <1>1, <1>3, <1>4, <1>5, <1>6, ProcflowAssumption, SMT DEF TypeOK

\* Steps of main keep the types.
LEMMA MainTypes ==
  ASSUME TypeOK, M_Run \/ M_Quit \/ MainRuns, ~Shutdown(Main)
  PROVE  TypeOK'
<1> USE ActorFacts DEF TypeOK
<1>1. CASE M_Run
  BY <1>1, ProcflowAssumption DEF M_Run, workerVars, shutVars, Runs
<1>2. CASE M_InitWait \/ M_InitDone \/ M_Release
  BY <1>2 DEF M_InitWait, M_InitDone, M_Release, sharedVars, workerVars, shutVars
<1>3. CASE M_AllLock \/ M_AllStarted \/ M_AllSleep \/ M_AllExpires
  BY <1>3 DEF M_AllLock, M_AllStarted, M_AllSleep, M_AllExpires, ThreadsOf, workerVars, shutVars
<1>4. CASE M_AllThreads \/ M_SetCount \/ M_Check
  BY <1>4 DEF M_AllThreads, M_SetCount, M_Check, sharedVars, workerVars, shutVars
<1>5. CASE M_PauseEnds \/ M_Quit \/ M_ShutDone
  BY <1>5 DEF M_PauseEnds, M_Quit, M_ShutDone, sharedVars, workerVars
<1> QED
  BY <1>1, <1>2, <1>3, <1>4, <1>5 DEF MainRuns

\* Steps of the createnwait thread keep the types.
LEMMA ReaperTypes ==
  ASSUME TypeOK, NEW r \in Runs, ReaperRuns(r), ~Shutdown(Reaper(r))
  PROVE  TypeOK'
<1> USE ActorFacts DEF TypeOK
<1>1. CASE R_Create(r)
  BY <1>1 DEF R_Create, shutVars
<1>2. CASE R_Reap(r)
  BY <1>2 DEF R_Reap, sharedVars, mainVars, shutVars
<1>3. CASE R_Check(r) \/ R_ShutDone(r)
  BY <1>3 DEF R_Check, R_ShutDone, sharedVars, workerVars, mainVars
<1> QED
  BY <1>1, <1>2, <1>3 DEF ReaperRuns

\* Steps of a worker keep the types.
LEMMA WorkerTypes ==
  ASSUME TypeOK, NEW p \in Procs, WorkerRuns(p) \/ W_Dies(p), ~Shutdown(p)
  PROVE  TypeOK'
<1> USE ActorFacts DEF TypeOK
<1>1. CASE W_Find(p) \/ W_Start(p) \/ W_Lock(p) \/ W_Threads(p) \/ W_CannotDefine(p)
           \/ W_Unlock(p) \/ W_CannotStart(p)
  BY <1>1 DEF W_Find, W_Start, W_Lock, W_Threads, W_CannotDefine,
      W_Unlock, restOfThreads, W_CannotStart, sharedVars, workerVars, mainVars, shutVars,
    restOfWorker
<1>2. CASE T_Barrier(p) \/ T_Loop(p) \/ T_Return(p)
  BY <1>2 DEF T_Barrier, T_Loop, T_Return, AbortFor, sharedVars, mainVars, shutVars, restOfWorker
<1>3. CASE W_Count(p) \/ W_Exit(p) \/ W_ShutDone(p) \/ W_Dies(p)
  BY <1>3 DEF W_Count, W_Exit, W_ShutDone, W_Dies, sharedVars, mainVars, shutVars, restOfWorker
<1> QED
  BY <1>1, <1>2, <1>3 DEF WorkerRuns

\* Steps of a shutdown keep the types.
LEMMA ShutdownTypes ==
  ASSUME TypeOK, NEW a \in Actors, Shutdown(a)
  PROVE  TypeOK'
<1> USE ActorFacts DEF TypeOK
<1>1. CASE S_Entry(a)
  BY <1>1 DEF S_Entry, restOfShutdown
<1>2. CASE S_Check(a) \/ S_Lock(a)
  BY <1>2 DEF S_Check, S_Lock, sharedVars, workerVars, mainVars
<1>3. CASE S_Fini(a) \/ S_Zero(a)
  BY <1>3 DEF S_Fini, S_Zero, workerVars, mainVars
<1>4. CASE \E p \in Procs : S_Delete(a, p)
  BY <1>4 DEF S_Delete, mainVars
<1> QED
  BY <1>1, <1>2, <1>3, <1>4 DEF Shutdown

\* Every step keeps the types.
LEMMA NextTypes ==
  ASSUME TypeOK, [Next]_vars
  PROVE  TypeOK'
<1>1. CASE UNCHANGED vars
  BY <1>1 DEF TypeOK, vars, sharedVars, workerVars, mainVars, shutVars
<1>2. CASE \E a \in Actors : Shutdown(a)
  BY <1>2, ShutdownTypes
<1>3. CASE Next /\ ~\E a \in Actors : Shutdown(a)
  <2>1. /\ ~Shutdown(Main) /\ (\A r \in Runs : ~Shutdown(Reaper(r)))
        /\ \A p \in Procs : ~Shutdown(p)
    BY <1>3, ActorFacts
  <2>2. \/ M_Run \/ M_Quit \/ MainRuns
        \/ \E r \in Runs : ReaperRuns(r)
        \/ \E p \in Procs : WorkerRuns(p) \/ W_Dies(p)
        \/ UNCHANGED vars
    BY <1>3 DEF Next, Terminated
  <2> QED BY <2>1, <2>2, <1>1, MainTypes, ReaperTypes, WorkerTypes
<1> QED
  BY <1>1, <1>2, <1>3

-----------------------------------------------------------------------------
(* The beginning of the run.                                               *)

\* A step of main keeps Beginning.
LEMMA MainBeginning ==
  ASSUME MaxRuns = 1, TypeOK, Beginning, Locking, M_Run \/ M_Quit \/ MainRuns, ~Shutdown(Main)
  PROVE  Beginning'
<1> USE OneRun DEF TypeOK, Beginning, Uncreated, NobodyPast
<1>1. CASE M_Run
  BY <1>1 DEF M_Run, workerVars, shutVars
<1>2. CASE M_InitWait \/ M_InitDone \/ M_Release
  BY <1>2 DEF M_InitWait, M_InitDone, M_Release, sharedVars, workerVars, shutVars, Past
<1>3. CASE M_AllLock \/ M_AllStarted \/ M_AllSleep \/ M_AllExpires
  BY <1>3 DEF M_AllLock, M_AllStarted, M_AllSleep, M_AllExpires, ThreadsOf, workerVars, shutVars
<1>4. CASE M_AllThreads \/ M_SetCount \/ M_Check
  BY <1>4 DEF M_AllThreads, M_SetCount, M_Check, sharedVars, workerVars, shutVars
<1>5. CASE M_PauseEnds \/ M_Quit \/ M_ShutDone
  BY <1>5 DEF M_PauseEnds, M_Quit, M_ShutDone, sharedVars, workerVars, Past, Locking
<1> QED
  BY <1>1, <1>2, <1>3, <1>4, <1>5 DEF MainRuns

\* So does a step of the createnwait thread.
LEMMA ReaperBeginning ==
  ASSUME MaxRuns = 1, TypeOK, Beginning, ReaperRuns(1), ~Shutdown(Reaper(1))
  PROVE  Beginning'
<1> USE OneRun DEF TypeOK, Beginning, Uncreated, NobodyPast
<1>1. CASE R_Create(1)
  BY <1>1 DEF R_Create, shutVars
<1>2. CASE R_Reap(1)
  BY <1>2 DEF R_Reap, sharedVars, mainVars, shutVars
<1>3. CASE R_Check(1) \/ R_ShutDone(1)
  BY <1>3 DEF R_Check, R_ShutDone, sharedVars, workerVars, mainVars, Past
<1> QED
  BY <1>1, <1>2, <1>3 DEF ReaperRuns

\* So does a step of a worker: there is none before the processes are created.
LEMMA WorkerBeginning ==
  ASSUME MaxRuns = 1, TypeOK, Beginning, NEW p \in Procs, WorkerRuns(p) \/ W_Dies(p), ~Shutdown(p)
  PROVE  Beginning'
<1>1. pst[p] # "none" /\ UNCHANGED <<mainVars, rpc>>
  BY DEF WorkerRuns, W_Find, W_Start, W_Lock, W_Threads, W_CannotDefine,
      W_Unlock, restOfThreads, W_CannotStart, T_Barrier, T_Loop, T_Return, W_Count,
    W_Exit, W_ShutDone, W_Dies, Alive, restOfWorker
<1> QED
  BY <1>1 DEF Beginning, Uncreated, mainVars

\* So does a step of a shutdown: it gets no further than its test of
\* shm_procs_running before the processes are created.
LEMMA ShutdownBeginning ==
  ASSUME MaxRuns = 1, TypeOK, Beginning, Locking, NEW a \in Actors, Shutdown(a)
  PROVE  Beginning'
<1> USE OneRun DEF TypeOK, Beginning, Uncreated, NobodyPast
<1>1. CASE S_Entry(a)
  BY <1>1 DEF S_Entry, restOfShutdown, Past
<1>2. CASE S_Check(a)
  BY <1>2 DEF S_Check, sharedVars, workerVars, mainVars, Past
<1>3. CASE S_Lock(a)
  BY <1>3 DEF S_Lock, workerVars, mainVars, Past
<1>4. CASE S_Fini(a) \/ S_Zero(a)
  BY <1>4 DEF S_Fini, S_Zero, workerVars, mainVars, Past
<1>5. CASE \E p \in Procs : S_Delete(a, p)
  BY <1>5 DEF S_Delete, mainVars, Past
<1> QED
  BY <1>1, <1>2, <1>3, <1>4, <1>5 DEF Shutdown

-----------------------------------------------------------------------------
(* The lock.                                                               *)

\* If shm_procflow_lock can be taken, no shutdown is under way that could go on,
\* and main is not in procflow_allstarted() with the lock held.
LEMMA FreeLock ==
  ASSUME MaxRuns = 1, TypeOK, Locking, LockFree
  PROVE  /\ \A a \in Actors : ~(sd[a] = "loop" /\ CanAct(a))
         /\ mpc \notin {"allstarted", "allthreads", "nothreads"}
<1>1. procflow_lock \notin Actors \/ ~CanAct(procflow_lock)
  BY OneRun DEF LockFree, CanAct, Alive
<1>2. \A a \in Actors : ~(sd[a] = "loop" /\ CanAct(a))
  BY <1>1 DEF Locking
<1>3. Main \in Actors /\ (mpc # "exit" => CanAct(Main))
  BY OneRun DEF CanAct
<1> QED
  BY <1>1, <1>2, <1>3 DEF Locking

\* A step of main keeps Locking.
LEMMA MainLocking ==
  ASSUME MaxRuns = 1, TypeOK, Beginning, Locking, M_Run \/ M_Quit \/ MainRuns, ~Shutdown(Main)
  PROVE  Locking'
<1> USE OneRun DEF TypeOK, Locking, CanAct, Alive, Dead
<1>0. LockFree =>
        /\ \A a \in Actors : ~(sd[a] = "loop" /\ CanAct(a))
        /\ mpc \notin {"allstarted", "allthreads", "nothreads"}
  BY FreeLock
<1>1. CASE M_Run
  BY <1>1 DEF M_Run, workerVars, shutVars, Beginning, NobodyPast, Uncreated, Past
<1>2. CASE M_InitWait \/ M_InitDone \/ M_Release
  BY <1>0, <1>2 DEF M_InitWait, M_InitDone, M_Release, sharedVars, workerVars, shutVars
<1>3. CASE M_AllLock \/ M_AllSleep \/ M_AllExpires
  BY <1>0, <1>3 DEF M_AllLock, M_AllSleep, M_AllExpires, workerVars, shutVars
<1>4. CASE M_AllStarted \/ M_SetCount
  <2>1. /\ mpc = "allstarted" /\ mpc' \in {"allthreads", "nothreads", "check", "allsleep"}
        /\ procflow_lock' = Main \/ mpc' \notin {"allthreads", "nothreads"}
        /\ UNCHANGED <<f_abort, listed, workerVars, shutVars>>
    BY <1>4 DEF M_AllStarted, M_SetCount, ThreadsOf
  <2>2. sd[Main] = "off" /\ \A a \in Actors : ~(sd[a] = "loop" /\ CanAct(a))
    BY <2>1
  <2> QED BY <2>1, <2>2 DEF workerVars, shutVars
<1>5. CASE M_AllThreads \/ M_Check
  BY <1>5 DEF M_AllThreads, M_Check, sharedVars, workerVars, shutVars
<1>6. CASE M_PauseEnds \/ M_Quit \/ M_ShutDone
  BY <1>6 DEF M_PauseEnds, M_Quit, M_ShutDone, sharedVars, workerVars
<1> QED
  BY <1>1, <1>2, <1>3, <1>4, <1>5, <1>6 DEF MainRuns

\* So does a step of the createnwait thread.
LEMMA ReaperLocking ==
  ASSUME MaxRuns = 1, TypeOK, Beginning, Locking, ReaperRuns(1), ~Shutdown(Reaper(1))
  PROVE  Locking'
<1> USE OneRun DEF TypeOK, Locking, CanAct, Alive, Dead
<1>0. LockFree =>
        /\ \A a \in Actors : ~(sd[a] = "loop" /\ CanAct(a))
        /\ mpc \notin {"allstarted", "allthreads", "nothreads"}
  BY FreeLock
<1>1. CASE R_Create(1)
  <2>1. NobodyPast /\ mpc \notin {"allstarted", "allthreads", "nothreads"}
    BY <1>0, <1>1 DEF R_Create, Beginning, Uncreated
  <2> QED BY <1>1, <2>1 DEF R_Create, shutVars, NobodyPast, Past
<1>2. CASE R_Reap(1)
  BY <1>2 DEF R_Reap, sharedVars, mainVars, shutVars
<1>3. CASE R_Check(1) \/ R_ShutDone(1)
  BY <1>0, <1>3 DEF R_Check, R_ShutDone, sharedVars, workerVars, mainVars
<1> QED
  BY <1>1, <1>2, <1>3 DEF ReaperRuns

\* So does a step of a worker.
LEMMA WorkerLocking ==
  ASSUME MaxRuns = 1, TypeOK, Locking, NEW p \in Procs, WorkerRuns(p) \/ W_Dies(p), ~Shutdown(p)
  PROVE  Locking'
<1> USE OneRun DEF TypeOK, Locking, CanAct, Alive, Dead
<1>1. CASE W_Find(p)
  <2>1. /\ \A a \in Actors : ~(sd[a] = "loop" /\ CanAct(a))
        /\ mpc \notin {"allstarted", "allthreads", "nothreads"}
    BY <1>1, FreeLock DEF W_Find
  <2> QED BY <1>1, <2>1 DEF W_Find, mainVars, shutVars, restOfWorker
<1>2. CASE W_Start(p) \/ W_Lock(p) \/ W_Threads(p) \/ W_CannotDefine(p) \/ W_Unlock(p)
           \/ W_CannotStart(p)
  BY <1>2 DEF W_Start, W_Lock, W_Threads, W_CannotDefine,
      W_Unlock, restOfThreads, W_CannotStart, sharedVars, workerVars, mainVars, shutVars,
    restOfWorker
<1>3. CASE T_Barrier(p) \/ T_Loop(p) \/ T_Return(p)
  BY <1>3 DEF T_Barrier, T_Loop, T_Return, AbortFor, sharedVars, mainVars, shutVars, restOfWorker
<1>4. CASE W_Count(p) \/ W_Exit(p) \/ W_ShutDone(p)
  BY <1>4 DEF W_Count, W_Exit, W_ShutDone, sharedVars, mainVars, shutVars, restOfWorker
<1>5. CASE W_Dies(p)
  <2>1. UNCHANGED procflow_lock \/ LockFree
    BY <1>5 DEF W_Dies
  <2>2. UNCHANGED <<mpc, listed, todo>> /\ f_abort' \in {f_abort, "error"}
        /\ sd' = [sd EXCEPT ![p] = "off"] /\ pst' = [pst EXCEPT ![p] = "died"]
    BY <1>5 DEF W_Dies, mainVars
  <2>3. CASE UNCHANGED procflow_lock
    BY <2>2, <2>3
  <2>4. CASE LockFree
    <3>1. /\ \A a \in Actors : ~(sd[a] = "loop" /\ CanAct(a))
          /\ mpc \notin {"allstarted", "allthreads", "nothreads"}
      BY <2>4, FreeLock
    <3> QED BY <2>2, <3>1
  <2> QED BY <2>1, <2>3, <2>4
<1> QED
  BY <1>1, <1>2, <1>3, <1>4, <1>5 DEF WorkerRuns

\* So does a step of a shutdown.
LEMMA ShutdownLocking ==
  ASSUME MaxRuns = 1, TypeOK, Locking, NEW a \in Actors, Shutdown(a)
  PROVE  Locking'
<1> USE OneRun DEF TypeOK, Locking, CanAct, Alive, Dead
<1>0. LockFree =>
        /\ \A b \in Actors : ~(sd[b] = "loop" /\ CanAct(b))
        /\ mpc \notin {"allstarted", "allthreads", "nothreads"}
  BY FreeLock
<1>1. CASE S_Entry(a)
  BY <1>0, <1>1 DEF S_Entry, restOfShutdown
<1>2. CASE S_Check(a)
  BY <1>2 DEF S_Check, sharedVars, workerVars, mainVars
<1>3. CASE S_Lock(a)
  BY <1>0, <1>3 DEF S_Lock, workerVars, mainVars
<1>4. CASE S_Fini(a)
  BY <1>4 DEF S_Fini, workerVars, mainVars
<1>5. CASE S_Zero(a)
  BY <1>5 DEF S_Zero, workerVars, mainVars
<1>6. CASE \E p \in Procs : S_Delete(a, p)
  BY <1>6 DEF S_Delete, mainVars
<1> QED
  BY <1>1, <1>2, <1>3, <1>4, <1>5, <1>6 DEF Shutdown

-----------------------------------------------------------------------------
(* The count.                                                              *)

\* The processes are finitely many.
LEMMA ProcsFinite ==
  /\ IsFiniteSet(Procs)
  /\ \A S \in SUBSET Procs : IsFiniteSet(S) /\ Cardinality(S) \in Nat
  /\ \A S \in SUBSET Procs : \A T \in SUBSET S : Cardinality(T) <= Cardinality(S)
<1>1. IsFiniteSet(Runs) /\ IsFiniteSet(1..Instances)
  BY ProcflowAssumption, FS_Interval DEF Runs
<1>2. IsFiniteSet(Procs)
  BY <1>1, FS_Product DEF Procs
<1>3. ASSUME NEW S \in SUBSET Procs
      PROVE  IsFiniteSet(S) /\ Cardinality(S) \in Nat
  BY <1>2, <1>3, FS_Subset, FS_CardinalityType
<1>4. ASSUME NEW S \in SUBSET Procs, NEW T \in SUBSET S
      PROVE  Cardinality(T) <= Cardinality(S)
  BY <1>3, FS_Subset
<1> QED
  BY <1>2, <1>3, <1>4

\* A step that neither deletes a procflow nor starts a process keeps the count, if
\* the number of those still to be counted down does not exceed what is kept.
LEMMA QuietCounting ==
  ASSUME TypeOK, Counting, UNCHANGED <<procs_running, listed, seen, running_procs>>,
         f_abort' = "ok" => f_abort = "ok", Uncounted' \subseteq Uncounted,
         mpc' \in {"allstarted", "allsleep", "allthreads", "nothreads"} =>
           mpc \in {"allstarted", "allsleep", "allthreads", "nothreads"},
         mpc' \in {"check", "pause"} /\ f_abort' = "ok" => mpc \in {"check", "pause"}
  PROVE  Counting'
<1> SUFFICES ASSUME f_abort' = "ok"
             PROVE  /\ Uncounted' \subseteq listed'
                    /\ mpc' \in {"allstarted", "allsleep", "allthreads", "nothreads"} =>
                         seen' \subseteq listed' /\ running_procs' = Cardinality(listed' \ seen')
                    /\ mpc' \in {"check", "pause"} => procs_running' >= Cardinality(Uncounted')
  BY DEF Counting
<1>1. f_abort = "ok" /\ Uncounted' \subseteq listed'
  BY DEF Counting
<1>2. mpc' \in {"allstarted", "allsleep", "allthreads", "nothreads"} =>
        seen' \subseteq listed' /\ running_procs' = Cardinality(listed' \ seen')
  BY <1>1 DEF Counting
<1>3. Uncounted \in SUBSET Procs /\ Uncounted' \in SUBSET Uncounted
  BY DEF Uncounted
<1>4. /\ Cardinality(Uncounted') <= Cardinality(Uncounted)
      /\ Cardinality(Uncounted) \in Nat /\ Cardinality(Uncounted') \in Nat
  BY <1>3, ProcsFinite
<1>5. mpc' \in {"check", "pause"} => procs_running >= Cardinality(Uncounted) /\ procs_running' = procs_running
  BY <1>1 DEF Counting
<1>6. procs_running \in Int
  BY DEF TypeOK
<1> QED
  BY <1>1, <1>2, <1>4, <1>5, <1>6

\* A step of main keeps the count.
LEMMA MainCounting ==
  ASSUME MaxRuns = 1, TypeOK, Beginning, Counting, M_Run \/ M_Quit \/ MainRuns, ~Shutdown(Main)
  PROVE  Counting'
<1>1. CASE M_Run
  <2>1. Uncounted' = {} /\ mpc' = "init"
    BY <1>1 DEF M_Run, workerVars, Beginning, Uncreated, Uncounted, Alive, TypeOK
  <2> QED BY <2>1 DEF Counting
<1>2. CASE M_InitWait \/ M_InitDone \/ M_Release \/ M_Check \/ M_PauseEnds \/ M_Quit \/ M_ShutDone
  <2>1. UNCHANGED <<workerVars, f_abort, procs_running, listed, seen, running_procs>>
    BY <1>2 DEF M_InitWait, M_InitDone, M_Release, M_Check, M_PauseEnds, M_Quit, M_ShutDone,
      sharedVars
  <2>2. mpc' \notin {"allstarted", "allsleep", "allthreads", "nothreads", "check"} /\ (mpc' = "pause" => mpc = "check")
    BY <1>2 DEF M_InitWait, M_InitDone, M_Release, M_Check, M_PauseEnds, M_Quit, M_ShutDone
  <2>3. Uncounted' = Uncounted
    BY <2>1 DEF Uncounted, Alive, Dead, workerVars
  <2> QED BY <2>1, <2>2, <2>3, QuietCounting
<1>3. CASE M_AllStarted \/ M_AllSleep \/ M_AllExpires
  <2>1. UNCHANGED <<workerVars, f_abort, procs_running, listed, seen, running_procs>>
    BY <1>3 DEF M_AllStarted, M_AllSleep, M_AllExpires
  <2>2. /\ mpc \in {"allstarted", "allsleep", "allthreads", "nothreads"}
        /\ mpc' \in {"allstarted", "allsleep", "allthreads", "nothreads"} \/ (mpc' = "check" /\ f_abort = "error")
    BY <1>3 DEF M_AllStarted, M_AllSleep, M_AllExpires, ThreadsOf
  <2>3. Uncounted' = Uncounted
    BY <2>1 DEF Uncounted, Alive, Dead, workerVars
  <2> QED BY <2>1, <2>2, <2>3, QuietCounting
<1>4. CASE M_AllLock
  <2>1. /\ UNCHANGED <<workerVars, f_abort, listed>> /\ mpc' = "allstarted"
        /\ seen' = listed /\ running_procs' = 0
    BY <1>4 DEF M_AllLock
  <2>2. Uncounted' = Uncounted /\ Cardinality(listed' \ seen') = 0
    BY <2>1, FS_EmptySet DEF Uncounted, Alive, Dead, workerVars
  <2> QED BY <2>1, <2>2 DEF Counting
<1>5. CASE M_AllThreads
  <2>1. PICK p \in seen : seen' = seen \ {p}
    BY <1>5 DEF M_AllThreads
  <2>2. /\ UNCHANGED <<workerVars, f_abort, listed>>
        /\ mpc \in {"allthreads", "nothreads"} /\ mpc' = "allstarted" /\ running_procs' = running_procs + 1
    BY <1>5 DEF M_AllThreads, sharedVars
  <2>3. Uncounted' = Uncounted
    BY <2>2 DEF Uncounted, Alive, Dead, workerVars
  <2>4. ASSUME f_abort = "ok"
        PROVE  /\ seen' \subseteq listed'
               /\ running_procs' = Cardinality(listed' \ seen')
    <3>1. seen \subseteq listed /\ running_procs = Cardinality(listed \ seen)
      BY <2>2, <2>4 DEF Counting
    <3>2. listed' \ seen' = (listed \ seen) \cup {p} /\ p \notin listed \ seen
      BY <2>1, <2>2, <3>1
    <3>3. IsFiniteSet(listed \ seen)
      BY ProcsFinite DEF TypeOK
    <3>4. Cardinality((listed \ seen) \cup {p}) = Cardinality(listed \ seen) + 1
      BY <3>2, <3>3, FS_AddElement
    <3> QED BY <2>1, <2>2, <3>1, <3>2, <3>4
  <2> QED BY <2>2, <2>3, <2>4 DEF Counting
<1>6. CASE M_SetCount
  <2>1. /\ UNCHANGED <<workerVars, f_abort, listed>> /\ seen = {}
        /\ mpc = "allstarted" /\ mpc' = "check" /\ procs_running' = running_procs
    BY <1>6 DEF M_SetCount
  <2>2. Uncounted' = Uncounted
    BY <2>1 DEF Uncounted, Alive, Dead, workerVars
  <2>3. ASSUME f_abort = "ok"
        PROVE  procs_running' >= Cardinality(Uncounted)
    <3>1. Uncounted \subseteq listed /\ running_procs = Cardinality(listed)
      BY <2>1, <2>3 DEF Counting
    <3>2. Cardinality(Uncounted) <= Cardinality(listed)
      BY <3>1, ProcsFinite DEF TypeOK
    <3>3. Cardinality(Uncounted) \in Nat /\ Cardinality(listed) \in Nat
      BY ProcsFinite DEF TypeOK, Uncounted
    <3> QED BY <2>1, <3>1, <3>2, <3>3
  <2> QED BY <2>1, <2>2, <2>3 DEF Counting
<1> QED
  BY <1>1, <1>2, <1>3, <1>4, <1>5, <1>6 DEF MainRuns

\* So does a step of the createnwait thread.
LEMMA ReaperCounting ==
  ASSUME MaxRuns = 1, TypeOK, Beginning, Counting, ReaperRuns(1), ~Shutdown(Reaper(1))
  PROVE  Counting'
<1>1. CASE R_Create(1)
  <2>1. /\ mpc \notin {"allstarted", "allsleep", "allthreads", "nothreads", "check", "pause"} /\ mpc' = mpc
        /\ \A p \in Procs : pst[p] = "none"
    BY <1>1 DEF R_Create, Beginning, Uncreated
  <2>2. PICK n \in 0..Instances :
          /\ pst' = [p \in Procs |-> IF p[1] = 1 /\ p[2] <= n THEN "forked" ELSE pst[p]]
          /\ listed' = listed \cup {p \in Procs : p[1] = 1 /\ p[2] <= n + 1}
    BY <1>1 DEF R_Create
  <2>3. ASSUME NEW p \in Procs, Alive(p)'
        PROVE  p \in listed'
    <3>1. p[1] = 1 /\ p[2] <= n
      BY <2>1, <2>2, <2>3 DEF Alive
    <3>2. p[2] \in Int
      BY DEF Procs
    <3> QED BY <2>2, <3>1, <3>2
  <2>4. Uncounted' \subseteq listed'
    BY <2>3 DEF Uncounted
  <2> QED BY <2>1, <2>4 DEF Counting
<1>2. CASE R_Reap(1) \/ R_Check(1) \/ R_ShutDone(1)
  <2>1. UNCHANGED <<pst, procs_running, listed, seen, running_procs>>
    BY <1>2 DEF R_Reap, R_Check, R_ShutDone, sharedVars, workerVars, mainVars
  <2>2. mpc' \in {mpc, "exit"} /\ (f_abort' = "ok" => f_abort = "ok")
    BY <1>2 DEF R_Reap, R_Check, R_ShutDone, sharedVars, mainVars
  <2>3. Uncounted' = Uncounted
    BY <2>1 DEF Uncounted, Alive, Dead
  <2> QED BY <2>1, <2>2, <2>3, QuietCounting
<1> QED
  BY <1>1, <1>2 DEF ReaperRuns

\* So does a step of a worker: who leaves through procflow_exec() counts itself down.
LEMMA WorkerCounting ==
  ASSUME MaxRuns = 1, TypeOK, Counting, NEW p \in Procs, WorkerRuns(p) \/ W_Dies(p), ~Shutdown(p)
  PROVE  Counting'
<1>1. CASE W_Count(p)
  <2>1. /\ UNCHANGED <<f_abort, listed, mainVars>> /\ procs_running' = procs_running - 1
        /\ pst[p] \in {"running", "failed"} /\ pst'[p] = "counted"
        /\ \A q \in Procs \ {p} : pst'[q] = pst[q]
    BY <1>1 DEF W_Count, restOfWorker, TypeOK
  <2>2. p \in Uncounted /\ Uncounted' = Uncounted \ {p}
    BY <2>1 DEF Uncounted, Alive, Dead
  <2>3. Cardinality(Uncounted \ {p}) = Cardinality(Uncounted) - 1
    BY <2>2, ProcsFinite, FS_RemoveElement DEF Uncounted
  <2>4. Cardinality(Uncounted) \in Nat /\ procs_running \in Int
    BY ProcsFinite DEF Uncounted, TypeOK
  <2>5. f_abort = "ok" /\ mpc \in {"check", "pause"} => procs_running' >= Cardinality(Uncounted')
    BY <2>1, <2>2, <2>3, <2>4 DEF Counting
  <2> QED BY <2>1, <2>2, <2>5 DEF Counting, mainVars
<1>2. CASE ~W_Count(p)
  <2>1. UNCHANGED <<procs_running, listed, mainVars>> /\ (f_abort' = "ok" => f_abort = "ok")
    BY <1>2 DEF WorkerRuns, W_Find, W_Start, W_Lock, W_Threads, W_CannotDefine,
      W_Unlock, restOfThreads, W_CannotStart, T_Barrier, T_Loop, T_Return,
      W_Exit, W_ShutDone, W_Dies, AbortFor, sharedVars, restOfWorker
  <2>2. (\A q \in Procs \ {p} : pst'[q] = pst[q]) /\ Alive(p)
        /\ (pst[p] = "counted" => pst'[p] \in {"counted", "exit0", "exit1", "died"})
    BY <1>2 DEF WorkerRuns, W_Find, W_Start, W_Lock, W_Threads, W_CannotDefine,
      W_Unlock, restOfThreads, W_CannotStart, T_Barrier, T_Loop, T_Return,
      W_Exit, W_ShutDone, W_Dies, sharedVars, workerVars, restOfWorker, TypeOK, Alive, Dead
  <2>3. Uncounted' \subseteq Uncounted
    BY <2>2 DEF Uncounted, Alive, Dead
  <2> QED BY <2>1, <2>3, QuietCounting DEF mainVars
<1> QED
  BY <1>1, <1>2

\* So does a step of a shutdown: it changes the list, and the count, only with
\* shm_f_abort set.
LEMMA ShutdownCounting ==
  ASSUME MaxRuns = 1, TypeOK, Locking, Counting, NEW a \in Actors, Shutdown(a)
  PROVE  Counting'
<1>1. CASE S_Entry(a) \/ S_Check(a) \/ S_Lock(a)
  <2>1. UNCHANGED <<procs_running, listed, seen, running_procs>> /\ mpc' \in {mpc, "exit"}
        /\ (f_abort' = "ok" => f_abort = "ok")
    BY <1>1 DEF S_Entry, S_Check, S_Lock, restOfShutdown, sharedVars, mainVars
  <2>2. \A q \in Procs : Alive(q)' /\ pst'[q] # "counted" => Alive(q) /\ pst[q] # "counted"
    BY <1>1 DEF S_Entry, S_Check, S_Lock, sharedVars, workerVars, Alive, Dead, TypeOK
  <2>3. Uncounted' \subseteq Uncounted
    BY <2>2 DEF Uncounted
  <2> QED BY <2>1, <2>3, QuietCounting
<1>2. CASE S_Fini(a) \/ S_Zero(a) \/ \E p \in Procs : S_Delete(a, p)
  <2>1. sd[a] \in {"loop", "zero"} /\ f_abort' \in {f_abort, "fini"}
    BY <1>2 DEF S_Fini, S_Zero, S_Delete
  <2>2. f_abort # "ok"
    BY <2>1 DEF Locking
  <2> QED BY <2>1, <2>2 DEF Counting
<1> QED
  BY <1>1, <1>2 DEF Shutdown

-----------------------------------------------------------------------------
(* The invariant of the count.                                             *)

\* Whose step it is.
LEMMA Steps ==
  ASSUME MaxRuns = 1, [Next]_vars
  PROVE  \/ \E a \in Actors : Shutdown(a)
         \/ (M_Run \/ M_Quit \/ MainRuns) /\ ~Shutdown(Main)
         \/ ReaperRuns(1) /\ ~Shutdown(Reaper(1))
         \/ \E p \in Procs : (WorkerRuns(p) \/ W_Dies(p)) /\ ~Shutdown(p)
         \/ UNCHANGED vars
<1>1. \/ M_Run \/ M_Quit \/ MainRuns \/ ReaperRuns(1)
      \/ \E p \in Procs : WorkerRuns(p) \/ W_Dies(p)
      \/ UNCHANGED vars
  BY OneRun DEF Next, Terminated
<1> QED
  BY <1>1, OneRun

\* The initial state satisfies the invariant.
LEMMA InitIInv ==
  ASSUME MaxRuns = 1, Init
  PROVE  IInv
<1>1. TypeOK
  BY InitTypes
<1>2. Beginning
  BY OneRun DEF Init, Beginning, Uncreated, NobodyPast, Past
<1>3. Locking
  BY OneRun DEF Init, Locking
<1>4. Counting
  BY DEF Init, Counting, Uncounted, Alive
<1> QED
  BY <1>1, <1>2, <1>3, <1>4 DEF IInv

\* Every step keeps it.
LEMMA NextIInv ==
  ASSUME MaxRuns = 1, IInv, [Next]_vars
  PROVE  IInv'
<1>0. TypeOK /\ Beginning /\ Locking /\ Counting
  BY DEF IInv
<1>1. TypeOK'
  BY <1>0, NextTypes
<1>2. Beginning'
  <2>1. CASE UNCHANGED vars
    BY <1>0, <2>1 DEF Beginning, Uncreated, NobodyPast, vars, sharedVars, workerVars, mainVars, shutVars
  <2> QED
    BY <1>0, <2>1, Steps, MainBeginning, ReaperBeginning, WorkerBeginning, ShutdownBeginning
<1>3. Locking'
  <2>1. CASE UNCHANGED vars
    BY <1>0, <2>1 DEF Locking, CanAct, Alive, Dead, vars, sharedVars, workerVars, mainVars, shutVars
  <2> QED
    BY <1>0, <2>1, Steps, MainLocking, ReaperLocking, WorkerLocking, ShutdownLocking
<1>4. Counting'
  <2>1. CASE UNCHANGED vars
    BY <1>0, <2>1 DEF Counting, Uncounted, Alive, Dead, vars, sharedVars, workerVars, mainVars
  <2> QED
    BY <1>0, <2>1, Steps, MainCounting, ReaperCounting, WorkerCounting, ShutdownCounting
<1> QED
  BY <1>1, <1>2, <1>3, <1>4 DEF IInv

\* The invariant holds in every state of every run.
THEOREM Invariant ==
  ASSUME MaxRuns = 1
  PROVE  Spec => []IInv
<1>1. Init => IInv
  BY InitIInv
<1>2. IInv /\ [Next]_vars => IInv'
  BY NextIInv
<1> QED
  BY <1>1, <1>2, PTL DEF Spec

\* All variables keep their types, for any number of runs.
THEOREM TypeCorrect == Spec => []TypeOK
<1>1. Init => TypeOK
  BY InitTypes
<1>2. TypeOK /\ [Next]_vars => TypeOK'
  BY NextTypes
<1> QED
  BY <1>1, <1>2, PTL DEF Spec

\* While the run of a script with one run command is on, shm_procs_running covers
\* the processes still to be counted down, whatever fails and however slow the
\* workers are to start.
THEOREM CountCovers ==
  ASSUME MaxRuns = 1
  PROVE  Spec => []CountCoversLiving
<1>1. IInv => CountCoversLiving
  BY DEF IInv, Counting, CountCoversLiving
<1> QED
  BY <1>1, Invariant, PTL

-----------------------------------------------------------------------------
(* What the workers have been through.                                     *)

\* Main and the createnwait thread, once it has created the processes, leave the
\* workers as they are.
LEMMA MasterLeavesWorkers ==
  ASSUME MaxRuns = 1, TypeOK,
         \/ (M_Run \/ M_Quit \/ MainRuns) /\ ~Shutdown(Main)
         \/ ReaperRuns(1) /\ ~Shutdown(Reaper(1)) /\ ~R_Create(1)
  PROVE  UNCHANGED <<pst, tst, pf_running>> /\ \A p \in Procs : sd'[p] = sd[p]
<1>1. CASE (M_Run \/ M_Quit \/ MainRuns) /\ ~Shutdown(Main)
  BY <1>1, OneRun DEF MainRuns, M_Run, M_InitWait, M_InitDone, M_Release, M_AllLock, M_AllStarted,
    M_AllSleep, M_AllExpires, M_AllThreads, M_SetCount, M_Check, M_PauseEnds, M_Quit, M_ShutDone,
    sharedVars, workerVars, shutVars, TypeOK
<1>2. CASE ReaperRuns(1) /\ ~Shutdown(Reaper(1)) /\ ~R_Create(1)
  BY <1>2, OneRun DEF ReaperRuns, R_Reap, R_Check, R_ShutDone, sharedVars, workerVars, shutVars, TypeOK
<1> QED
  BY <1>1, <1>2

\* A process that has settled, or that leaves, stays so.
LEMMA Persistence ==
  ASSUME MaxRuns = 1, TypeOK, Living, [Next]_vars, ~R_Create(1), NEW q \in Procs
  PROVE  (Settled(q) => Settled(q)') /\ (Leaves(q) => Leaves(q)')
<1> USE DEF Settled, Leaves, Alive, Dead
<1>1. CASE UNCHANGED <<pst, tst>> /\ sd'[q] = sd[q]
  BY <1>1
<1>2. ASSUME NEW p \in Procs, WorkerRuns(p) \/ W_Dies(p), ~Shutdown(p)
      PROVE  (Settled(q) => Settled(q)') /\ (Leaves(q) => Leaves(q)')
  <2>1. CASE q # p
    BY <1>2, <2>1, OneRun DEF WorkerRuns, W_Find, W_Start, W_Lock, W_Threads, W_CannotDefine,
      W_Unlock, restOfThreads, W_CannotStart, T_Barrier,
      T_Loop, T_Return, W_Count, W_Exit, W_ShutDone, W_Dies, sharedVars, workerVars, shutVars,
      restOfWorker, TypeOK
  <2>2. CASE q = p
    <3> USE <2>2, OneRun DEF TypeOK, Living
    <3>1. CASE W_Find(p) \/ W_Start(p) \/ W_Lock(p) \/ W_Threads(p) \/ W_CannotDefine(p)
           \/ W_Unlock(p) \/ W_CannotStart(p)
      BY <3>1 DEF W_Find, W_Start, W_Lock, W_Threads, W_CannotDefine,
      W_Unlock, restOfThreads, W_CannotStart, sharedVars, workerVars, shutVars,
        restOfWorker
    <3>2. CASE T_Barrier(p) \/ T_Loop(p) \/ T_Return(p)
      BY <3>2 DEF T_Barrier, T_Loop, T_Return, sharedVars, shutVars, restOfWorker
    <3>3. CASE W_Count(p) \/ W_Exit(p) \/ W_ShutDone(p) \/ W_Dies(p)
      BY <3>3 DEF W_Count, W_Exit, W_ShutDone, W_Dies, sharedVars, shutVars, restOfWorker
    <3> QED BY <1>2, <3>1, <3>2, <3>3 DEF WorkerRuns
  <2> QED BY <2>1, <2>2
<1>3. ASSUME NEW a \in Actors, Shutdown(a)
      PROVE  (Settled(q) => Settled(q)') /\ (Leaves(q) => Leaves(q)')
  <2> USE <1>3, OneRun DEF TypeOK
  <2>1. CASE S_Entry(a)
    BY <2>1 DEF S_Entry, CanAct, Living
  <2>2. CASE S_Check(a) \/ S_Lock(a) \/ S_Fini(a) \/ S_Zero(a)
    BY <2>2 DEF S_Check, S_Lock, S_Fini, S_Zero, workerVars
  <2>3. CASE \E p \in Procs : S_Delete(a, p)
    BY <2>3 DEF S_Delete
  <2> QED BY <2>1, <2>2, <2>3 DEF Shutdown
<1>4. CASE UNCHANGED vars
  BY <1>1, <1>4 DEF vars, workerVars, shutVars
<1> QED
  BY <1>1, <1>2, <1>3, <1>4, Steps, MasterLeavesWorkers

\* Every step keeps Living.
LEMMA NextLiving ==
  ASSUME MaxRuns = 1, TypeOK, Beginning, Living, [Next]_vars
  PROVE  Living'
<1>1. CASE UNCHANGED <<pst, tst, pf_running>> /\ \A p \in Procs : sd'[p] = sd[p]
  BY <1>1 DEF Living
<1>2. CASE R_Create(1)
  <2>1. \A q \in Procs : pst[q] = "none"
    BY <1>2 DEF R_Create, Beginning, Uncreated
  <2>2. \A q \in Procs : pst'[q] \in {"none", "forked"}
    BY <1>2, <2>1 DEF R_Create
  <2>3. tst' = tst /\ pf_running' \subseteq pf_running
    BY <1>2 DEF R_Create
  <2> QED BY <2>1, <2>2, <2>3 DEF Living
<1>3. ASSUME NEW p \in Procs, WorkerRuns(p) \/ W_Dies(p), ~Shutdown(p)
      PROVE  Living'
  <2> USE OneRun DEF TypeOK, Living
  <2>1. CASE W_Find(p) \/ W_Start(p) \/ W_Lock(p) \/ W_Threads(p) \/ W_CannotDefine(p)
           \/ W_Unlock(p) \/ W_CannotStart(p)
    BY <2>1 DEF W_Find, W_Start, W_Lock, W_Threads, W_CannotDefine,
      W_Unlock, restOfThreads, W_CannotStart, sharedVars, workerVars, shutVars,
      restOfWorker
  <2>2. CASE T_Barrier(p) \/ T_Loop(p) \/ T_Return(p)
    BY <2>2 DEF T_Barrier, T_Loop, T_Return, Alive, Dead, sharedVars, shutVars, restOfWorker
  <2>3. CASE W_Count(p) \/ W_Exit(p) \/ W_ShutDone(p) \/ W_Dies(p)
    BY <2>3 DEF W_Count, W_Exit, W_ShutDone, W_Dies, Alive, Dead, sharedVars, shutVars, restOfWorker
  <2> QED BY <1>3, <2>1, <2>2, <2>3 DEF WorkerRuns
<1>4. ASSUME NEW a \in Actors, Shutdown(a)
      PROVE  Living'
  <2> USE <1>4, OneRun DEF TypeOK, Living
  <2>1. CASE S_Entry(a)
    BY <2>1 DEF S_Entry, CanAct, Alive, Dead
  <2>2. CASE S_Check(a) \/ S_Lock(a) \/ S_Fini(a) \/ S_Zero(a)
    BY <2>2 DEF S_Check, S_Lock, S_Fini, S_Zero, sharedVars, workerVars
  <2>3. CASE \E p \in Procs : S_Delete(a, p)
    BY <2>3 DEF S_Delete, Alive, Dead
  <2> QED BY <2>1, <2>2, <2>3 DEF Shutdown
<1>5. CASE UNCHANGED vars
  BY <1>1, <1>5 DEF vars, sharedVars, workerVars, shutVars
<1> QED
  BY <1>1, <1>2, <1>3, <1>4, <1>5, Steps, MasterLeavesWorkers

-----------------------------------------------------------------------------
(* Who may still come.                                                     *)

\* There is one first procflow of a set.
LEMMA FirstUnique ==
  ASSUME NEW S \in SUBSET Procs, NEW p, NEW q, First(S, p), First(S, q)
  PROVE  p = q
<1>1. p \in Procs /\ q \in Procs
  BY DEF First
<1>2. /\ p = <<p[1], p[2]>> /\ q = <<q[1], q[2]>>
      /\ p[1] \in Int /\ p[2] \in Int /\ q[1] \in Int /\ q[2] \in Int
  BY <1>1 DEF Procs, Runs
<1>3. p[1] = q[1] /\ p[2] = q[2]
  BY <1>2 DEF First
<1> QED
  BY <1>2, <1>3

\* A step that does not get on in procflow_allstarted(), and takes nobody past the
\* test of shm_procs_running but by passing it, keeps Settling.
LEMMA QuietSettling ==
  ASSUME TypeOK, Settling, \A q \in Procs : Settled(q) => Settled(q)',
         mpc' \in {"allstarted", "allsleep", "allthreads", "nothreads"} => mpc' = mpc /\ seen' = seen,
         procs_running' > 0 => procs_running > 0,
         \A a \in Actors : sd'[a] \in Past => sd[a] \in Past \/ procs_running > 0
  PROVE  Settling'
<1> HIDE DEF Settled
<1>1. mpc' \in {"allstarted", "allsleep", "allthreads", "nothreads"} => \A p \in Procs \ seen' : Settled(p)'
  BY DEF Settling
<1>2. mpc' \in {"allthreads", "nothreads"} => \A p \in seen' : First(seen', p) => Settled(p)'
  BY DEF Settling, TypeOK
<1>3. procs_running' > 0 \/ ~NobodyPast' => \A p \in Procs : Settled(p)'
  BY DEF Settling, NobodyPast
<1> QED
  BY <1>1, <1>2, <1>3 DEF Settling

\* A step of main keeps Settling: procflow_allstarted() goes on when the process
\* has started, or never will.
LEMMA MainSettling ==
  ASSUME MaxRuns = 1, "slow" \notin Faults, TypeOK, Beginning, Living, Locking, Settling, Leaving,
         M_Run \/ M_Quit \/ MainRuns, ~Shutdown(Main), \A q \in Procs : Settled(q) => Settled(q)'
  PROVE  Settling'
<1>1. CASE M_Run \/ M_InitWait \/ M_InitDone \/ M_Release \/ M_Check \/ M_PauseEnds \/ M_Quit \/ M_ShutDone
  <2>1. procs_running' = procs_running /\ mpc' \notin {"allstarted", "allsleep", "allthreads", "nothreads"}
    BY <1>1 DEF M_Run, M_InitWait, M_InitDone, M_Release, M_Check, M_PauseEnds, M_Quit, M_ShutDone,
      sharedVars
  <2>2. \A a \in Actors : sd'[a] \in Past => sd[a] \in Past
    BY <1>1 DEF M_Run, M_InitWait, M_InitDone, M_Release, M_Check, M_PauseEnds, M_Quit, M_ShutDone,
      shutVars, Past, TypeOK
  <2> QED BY <2>1, <2>2, QuietSettling
<1>2. CASE M_AllLock \/ M_AllStarted \/ M_AllSleep \/ M_AllExpires \/ M_AllThreads
  <2>1. UNCHANGED <<procs_running, sd, pst>>
    BY <1>2 DEF M_AllLock, M_AllStarted, M_AllSleep, M_AllExpires, M_AllThreads, sharedVars,
      shutVars, workerVars
  <2>2. procs_running' > 0 \/ ~NobodyPast' => \A p \in Procs : Settled(p)'
    <3> HIDE DEF Settled
    <3> QED BY <2>1 DEF Settling, NobodyPast
  <2>3. mpc' \in {"allstarted", "allsleep", "allthreads", "nothreads"} => \A p \in Procs \ seen' : Settled(p)'
    <3>1. CASE M_AllLock
      <4>1. \A p \in Procs \ listed : Settled(p)
        BY DEF Leaving, Leaves, Settled, Alive, Dead
      <4>2. seen' = listed
        BY <3>1 DEF M_AllLock
      <4> HIDE DEF Settled
      <4> QED BY <4>1, <4>2
    <3>2. CASE M_AllStarted \/ M_AllSleep \/ M_AllExpires
      <4>1. seen' = seen /\ mpc \in {"allstarted", "allsleep", "allthreads", "nothreads"}
        BY <3>2 DEF M_AllStarted, M_AllSleep, M_AllExpires
      <4> HIDE DEF Settled
      <4> QED BY <4>1 DEF Settling
    <3>3. CASE M_AllThreads
      <4>1. PICK p \in seen : First(seen, p) /\ seen' = seen \ {p}
        BY <3>3 DEF M_AllThreads
      <4>2. mpc \in {"allthreads", "nothreads"}
        BY <3>3 DEF M_AllThreads
      <4> HIDE DEF Settled
      <4>3. Settled(p) /\ \A q \in Procs \ seen : Settled(q)
        BY <4>1, <4>2 DEF Settling
      <4> QED BY <4>1, <4>3
    <3> QED BY <1>2, <3>1, <3>2, <3>3
  <2>4. mpc' \in {"allthreads", "nothreads"} => \A p \in seen' : First(seen', p) => Settled(p)'
    <3> SUFFICES ASSUME mpc' \in {"allthreads", "nothreads"}, NEW p \in seen', First(seen', p)
                 PROVE  Settled(p)
      BY <2>1 DEF Settled
    <3>1. CASE M_AllStarted
      <4>1. PICK q \in seen : First(seen, q) /\ q \in pf_running
        BY <3>1 DEF M_AllStarted
      <4>2. q = p /\ p \in Procs
        BY <3>1, <4>1, FirstUnique DEF M_AllStarted, TypeOK
      <4> QED BY <4>1, <4>2 DEF Living, Settled
    <3>2. CASE M_AllExpires
      <4>1. PICK q \in seen : First(seen, q) /\ Expires(q)
        BY <3>2 DEF M_AllExpires
      <4>2. q = p /\ p \in Procs
        BY <3>2, <4>1, FirstUnique DEF M_AllExpires, TypeOK
      <4> QED BY <4>1, <4>2 DEF Expires, Dead, Settled, Living
    <3> QED BY <1>2, <3>1, <3>2 DEF M_AllLock, M_AllSleep, M_AllThreads
  <2> QED BY <2>2, <2>3, <2>4 DEF Settling
<1>3. CASE M_SetCount
  <2>1. mpc = "allstarted" /\ seen = {} /\ mpc' = "check"
    BY <1>3 DEF M_SetCount
  <2> HIDE DEF Settled
  <2>2. \A q \in Procs : Settled(q)'
    BY <2>1 DEF Settling
  <2> QED BY <2>1, <2>2 DEF Settling
<1> QED
  BY <1>1, <1>2, <1>3 DEF MainRuns

\* So does a step of anyone else.
LEMMA OthersSettling ==
  ASSUME MaxRuns = 1, TypeOK, Beginning, Settling, \A q \in Procs : Settled(q) => Settled(q)',
         \/ \E a \in Actors : Shutdown(a)
         \/ ReaperRuns(1) /\ ~R_Create(1)
         \/ \E p \in Procs : WorkerRuns(p) \/ W_Dies(p)
  PROVE  Settling'
<1>1. ASSUME NEW a \in Actors, Shutdown(a)
      PROVE  Settling'
  <2>1. /\ mpc' \in {mpc, "exit"} /\ seen' = seen /\ procs_running' \in {procs_running, 0}
        /\ \A b \in Actors : sd'[b] \in Past => sd[b] \in Past \/ procs_running > 0
    BY <1>1 DEF Shutdown, S_Entry, S_Check, S_Lock, S_Fini, S_Zero, S_Delete, restOfShutdown,
      sharedVars, mainVars, TypeOK, Past
  <2> QED BY <2>1, QuietSettling
<1>2. ASSUME ReaperRuns(1), ~R_Create(1), ~Shutdown(Reaper(1))
      PROVE  Settling'
  <2>1. /\ mpc' \in {mpc, "exit"} /\ seen' = seen /\ procs_running' = procs_running
        /\ \A b \in Actors : sd'[b] \in Past => sd[b] \in Past
    BY <1>2 DEF ReaperRuns, R_Reap, R_Check, R_ShutDone, sharedVars, mainVars, shutVars, TypeOK, Past
  <2> QED BY <2>1, QuietSettling
<1>3. ASSUME NEW p \in Procs, WorkerRuns(p) \/ W_Dies(p), ~Shutdown(p)
      PROVE  Settling'
  <2>1. UNCHANGED mainVars /\ procs_running' \in {procs_running, procs_running - 1}
    BY <1>3 DEF WorkerRuns, W_Find, W_Start, W_Lock, W_Threads, W_CannotDefine,
      W_Unlock, restOfThreads, W_CannotStart, T_Barrier, T_Loop, T_Return,
      W_Count, W_Exit, W_ShutDone, W_Dies, sharedVars, restOfWorker
  <2>2. \A b \in Actors : sd'[b] \in Past => sd[b] \in Past
    BY <1>3 DEF WorkerRuns, W_Find, W_Start, W_Lock, W_Threads, W_CannotDefine,
      W_Unlock, restOfThreads, W_CannotStart, T_Barrier, T_Loop, T_Return,
      W_Count, W_Exit, W_ShutDone, W_Dies, shutVars, restOfWorker, TypeOK, Past
  <2>3. procs_running' > 0 => procs_running > 0
    BY <2>1 DEF TypeOK
  <2> QED BY <2>1, <2>2, <2>3, QuietSettling DEF mainVars
<1> QED
  BY <1>1, <1>2, <1>3, OneRun

\* So does the creation of the processes: nobody has got anywhere by then.
LEMMA CreateSettling ==
  ASSUME MaxRuns = 1, TypeOK, Beginning, R_Create(1)
  PROVE  Settling'
<1>1. Uncreated /\ UNCHANGED <<mpc, procs_running, sd>>
  BY DEF R_Create, Uncreated, shutVars
<1>2. /\ mpc \notin {"allstarted", "allsleep", "allthreads", "nothreads"}
      /\ procs_running <= 0 /\ NobodyPast
  BY <1>1 DEF Beginning
<1>3. mpc' \notin {"allstarted", "allsleep", "allthreads", "nothreads"} /\ ~(procs_running' > 0) /\ NobodyPast'
  BY <1>1, <1>2 DEF TypeOK, NobodyPast
<1> QED
  BY <1>3 DEF Settling

\* A step that deletes no procflow and completes no shutdown keeps Leaving.
LEMMA QuietLeaving ==
  ASSUME Leaving, \A q \in Procs : Leaves(q) => Leaves(q)',
         listed' = listed, f_abort' = "fini" => f_abort = "fini"
  PROVE  Leaving'
<1> HIDE DEF Leaves
<1> QED
  BY DEF Leaving

\* The creation of the processes keeps Leaving: all that are forked are listed.
LEMMA CreateLeaving ==
  ASSUME MaxRuns = 1, TypeOK, Beginning, R_Create(1)
  PROVE  Leaving'
<1>1. Uncreated
  BY DEF R_Create, Uncreated
<1>2. f_abort' # "fini" /\ \A q \in Procs : pst[q] = "none"
  BY <1>1 DEF Beginning, R_Create
<1>3. PICK n \in 0..Instances :
        /\ pst' = [p \in Procs |-> IF p[1] = 1 /\ p[2] <= n THEN "forked" ELSE pst[p]]
        /\ listed' = listed \cup {p \in Procs : p[1] = 1 /\ p[2] <= n + 1}
  BY DEF R_Create
<1>4. ASSUME NEW q \in Procs \ listed'
      PROVE  pst'[q] = "none"
  <2>1. q[2] \in 1..Instances /\ n \in Int /\ Instances \in Int
    BY <1>4, ProcflowAssumption DEF Procs
  <2>2. ~(q[1] = 1 /\ q[2] <= n + 1)
    BY <1>3, <1>4
  <2>3. ~(q[1] = 1 /\ q[2] <= n)
    BY <2>1, <2>2
  <2> QED BY <1>2, <1>3, <2>3
<1> QED
  BY <1>2, <1>4 DEF Leaving, Leaves, Alive

\* So does a step of a shutdown: what it deletes was settled when the shutdown got
\* past its test of shm_procs_running, and is killed if it runs; what is deleted by
\* its end is all there was, since the lock has been held.
LEMMA ShutdownLeaving ==
  ASSUME MaxRuns = 1, TypeOK, Living, Locking, Settling, Leaving,
         \A q \in Procs : Leaves(q) => Leaves(q)', NEW a \in Actors, Shutdown(a)
  PROVE  Leaving'
<1>1. CASE S_Entry(a) \/ S_Check(a) \/ S_Lock(a) \/ S_Zero(a)
  <2>1. listed' = listed /\ (f_abort' = "fini" => f_abort = "fini")
    BY <1>1 DEF S_Entry, S_Check, S_Lock, S_Zero, sharedVars
  <2> QED BY <2>1, QuietLeaving
<1>2. CASE S_Fini(a)
  <2>1. listed' = {} /\ listed = {}
    BY <1>2 DEF S_Fini, Locking
  <2> HIDE DEF Leaves
  <2> QED BY <2>1 DEF Leaving
<1>3. ASSUME NEW p \in Procs, S_Delete(a, p)
      PROVE  Leaving'
  <2>1. Settled(p)
    <3>1. ~NobodyPast
      BY <1>3 DEF S_Delete, NobodyPast, Past
    <3> HIDE DEF Settled
    <3> QED BY <3>1 DEF Settling
  <2>2. ASSUME p \notin listed'
        PROVE  Leaves(p)'
    <3>1. CASE p \in listed
      <4>1. ~(p \in pf_running /\ p = a)
        BY <1>3, <2>2, <3>1 DEF S_Delete
      <4>2. CASE p \in pf_running
        BY <1>3, <4>2 DEF S_Delete, Leaves, Alive, Dead, TypeOK
      <4>3. CASE p \notin pf_running
        <5>1. UNCHANGED <<pst, sd, tst>>
          BY <1>3, <4>3 DEF S_Delete
        <5>2. Leaves(p)
          BY <2>1, <4>3 DEF Leaves, Settled, Living, Alive, Dead, TypeOK
        <5> QED BY <5>1, <5>2 DEF Leaves, Alive, Dead
      <4> QED BY <4>2, <4>3
    <3>2. CASE p \notin listed
      <4> HIDE DEF Leaves
      <4> QED BY <3>2 DEF Leaving
    <3> QED BY <3>1, <3>2
  <2>3. listed \ {p} \subseteq listed' /\ listed' \subseteq listed /\ f_abort' = f_abort
    BY <1>3 DEF S_Delete
  <2> HIDE DEF Leaves
  <2>4. ASSUME NEW q \in Procs \ listed'
        PROVE  Leaves(q)'
    <3>1. CASE q = p
      BY <2>2, <2>4, <3>1
    <3>2. CASE q # p
      BY <2>3, <2>4, <3>2 DEF Leaving
    <3> QED BY <3>1, <3>2
  <2> QED BY <2>3, <2>4 DEF Leaving
<1> QED
  BY <1>1, <1>2, <1>3 DEF Shutdown

\* So does any other step.
LEMMA OthersLeaving ==
  ASSUME MaxRuns = 1, TypeOK, Leaving, \A q \in Procs : Leaves(q) => Leaves(q)',
         \/ (M_Run \/ M_Quit \/ MainRuns) /\ ~Shutdown(Main)
         \/ ReaperRuns(1) /\ ~R_Create(1) /\ ~Shutdown(Reaper(1))
         \/ \E p \in Procs : (WorkerRuns(p) \/ W_Dies(p)) /\ ~Shutdown(p)
  PROVE  Leaving'
<1>1. listed' = listed /\ (f_abort' = "fini" => f_abort = "fini")
  <2>1. CASE (M_Run \/ M_Quit \/ MainRuns) /\ ~Shutdown(Main)
    BY <2>1 DEF MainRuns, M_Run, M_InitWait, M_InitDone, M_Release, M_AllLock, M_AllStarted,
      M_AllSleep, M_AllExpires, M_AllThreads, M_SetCount, M_Check, M_PauseEnds, M_Quit, M_ShutDone,
      sharedVars
  <2>2. CASE ReaperRuns(1) /\ ~R_Create(1) /\ ~Shutdown(Reaper(1))
    BY <2>2 DEF ReaperRuns, R_Reap, R_Check, R_ShutDone, sharedVars
  <2>3. CASE \E p \in Procs : (WorkerRuns(p) \/ W_Dies(p)) /\ ~Shutdown(p)
    BY <2>3 DEF WorkerRuns, W_Find, W_Start, W_Lock, W_Threads, W_CannotDefine,
      W_Unlock, restOfThreads, W_CannotStart, T_Barrier, T_Loop, T_Return,
      AbortFor, W_Count, W_Exit, W_ShutDone, W_Dies, sharedVars
  <2> QED BY <2>1, <2>2, <2>3
<1> QED
  BY <1>1, QuietLeaving

\* Nothing has happened in the initial state.
LEMMA InitQuiet ==
  ASSUME MaxRuns = 1, Init
  PROVE  QuietInv
<1>1. /\ mpc = "idle" /\ procs_running = 0 /\ listed = {} /\ pf_running = {} /\ f_abort = "ok"
      /\ \A p \in Procs : pst[p] = "none" /\ tst[p] = "none"
      /\ \A a \in Actors : sd[a] = "off"
  BY DEF Init
<1>2. Living
  BY <1>1 DEF Living
<1>3. NobodyPast
  BY <1>1 DEF NobodyPast, Past
<1>4. Settling
  BY <1>1, <1>3 DEF Settling
<1>5. Leaving
  BY <1>1 DEF Leaving, Leaves, Alive
<1> QED
  BY <1>2, <1>4, <1>5 DEF QuietInv

\* Every step keeps the second part of the invariant, given the first.
LEMMA NextQuiet ==
  ASSUME MaxRuns = 1, "slow" \notin Faults, IInv, QuietInv, [Next]_vars
  PROVE  QuietInv'
<1>0. TypeOK /\ Beginning /\ Locking /\ Living /\ Settling /\ Leaving
  BY DEF IInv, QuietInv
<1>1. Living'
  BY <1>0, NextLiving
<1>2. CASE R_Create(1)
  BY <1>0, <1>1, <1>2, CreateSettling, CreateLeaving DEF QuietInv
<1>3. CASE ~R_Create(1)
  <2>1. \A q \in Procs : (Settled(q) => Settled(q)') /\ (Leaves(q) => Leaves(q)')
    BY <1>0, <1>3, Persistence
  <2> HIDE DEF Settled, Leaves
  <2>2. CASE UNCHANGED vars
    <3>1. UNCHANGED <<mpc, seen, procs_running, sd, listed, f_abort>>
      BY <2>2 DEF vars, sharedVars, mainVars, shutVars
    <3>2. Settling'
      BY <1>0, <2>1, <3>1, QuietSettling
    <3>3. Leaving'
      BY <1>0, <2>1, <3>1, QuietLeaving
    <3> QED BY <1>1, <3>2, <3>3 DEF QuietInv
  <2>3. CASE \E a \in Actors : Shutdown(a)
    BY <1>0, <1>1, <2>1, <2>3, OthersSettling, ShutdownLeaving DEF QuietInv
  <2>4. CASE (M_Run \/ M_Quit \/ MainRuns) /\ ~Shutdown(Main)
    BY <1>0, <1>1, <2>1, <2>4, MainSettling, OthersLeaving DEF QuietInv
  <2>5. CASE \/ ReaperRuns(1) /\ ~Shutdown(Reaper(1))
             \/ \E p \in Procs : (WorkerRuns(p) \/ W_Dies(p)) /\ ~Shutdown(p)
    BY <1>0, <1>1, <1>3, <2>1, <2>5, OthersSettling, OthersLeaving DEF QuietInv
  <2> QED BY <2>2, <2>3, <2>4, <2>5, Steps, OneRun
<1> QED
  BY <1>2, <1>3

\* Once a shutdown is complete, no thread is left that could run flowops, in a script
\* with one run command whose workers start in the time that the master gives them,
\* whatever else fails and whoever does the shutdown.
THEOREM Quiet ==
  ASSUME MaxRuns = 1, "slow" \notin Faults
  PROVE  Spec => []QuietAfterShutdown
<1>1. Init => IInv /\ QuietInv
  BY InitIInv, InitQuiet
<1>2. IInv /\ QuietInv /\ [Next]_vars => IInv' /\ QuietInv'
  BY NextIInv, NextQuiet
<1>3. IInv /\ QuietInv => QuietAfterShutdown
  <2> SUFFICES ASSUME IInv, QuietInv, f_abort = "fini", NEW p \in Procs, Alive(p)
               PROVE  tst[p] \in {"none", "exited"}
    BY DEF QuietAfterShutdown
  <2>1. Leaves(p) /\ Living
    BY DEF QuietInv, Leaving
  <2> QED BY <2>1 DEF Leaves, Living
<1> QED
  BY <1>1, <1>2, <1>3, PTL DEF Spec
=============================================================================
