-------------------------------- MODULE Ism --------------------------------
(***************************************************************************)
(* Interprocess shared memory for threads with the "useism" attribute:     *)
(* ipc_ismcreate(), ipc_ismattach(), ipc_ismmalloc() and ipc_ismdelete() of *)
(* src/filebench/ipc.c, with the calls that drive them in threadflow.c,     *)
(* flowop.c and parser_gram.y.                                             *)
(*                                                                         *)
(* Thread t = <<r, i>> is the one thread of process i of run r.  A region  *)
(* is named by the run that created it, and an address is a region with an *)
(* offset.                                                                 *)
(***************************************************************************)
EXTENDS Integers, FiniteSets

CONSTANTS
  Instances,    \* processes of a run
  MaxRuns,      \* bound: run commands in the script
  MemSize,      \* tf_memsize of the thread of each process
  Faults        \* the system calls that may fail: "shmget", "shmat"

ASSUME IsmAssumption ==
  /\ Instances \in Nat \ {0}
  /\ MaxRuns \in Nat \ {0}
  /\ MemSize \in [1..Instances -> Nat]
  /\ Faults \subseteq {"shmget", "shmat"}

Runs == 1..MaxRuns
Threads == Runs \X (1..Instances)
Size(t) == MemSize[t[2]]

None == 0        \* shm_id is -1, or shm_addr has not been set
Bad == -1        \* what shmat() returned when it failed
Nothing == [region |-> None, base |-> None]
Start(a) == [base |-> a, off |-> 0]

VARIABLES
  shm_required,    \* shm_required
  shm_id,          \* shm_id
  shm_addr,        \* shm_addr: the address at which the master has that region
  shm_ptr,         \* shm_ptr, an offset from such an address
  ism_lock,        \* shm_ism_lock is locked, by whomever
  region,          \* the size of each region, once shmget() has made it
  tst,             \* each thread; "lost": it died holding shm_ism_lock
  map,             \* the region its process has attached, and at which address
  tf_mem,          \* tf_mem of each thread
  next,            \* what it is about to store in shm_ptr
  mpc,             \* the master
  seen,            \* procflow_allstarted(): processes it has finished with
  run,             \* run commands so far
  early            \* history: in this run a thread took shm_ism_lock before
                   \* ipc_ismcreate() had released it

regionVars == <<shm_id, shm_addr, region>>
ismVars == <<regionVars, shm_ptr, ism_lock>>
threadVars == <<tst, map, tf_mem, next>>
masterVars == <<mpc, seen, run>>
vars == <<shm_required, ismVars, threadVars, masterVars, early>>

\* In ipc_ismmalloc(), between lock and unlock.
Section == {"locked", "attached", "read", "reread", "written"}

Pointers == [base : {Bad} \cup 0..MaxRuns, off : Nat]

\* Types of all variables.
TypeOK ==
  /\ shm_required \in Nat
  /\ shm_id \in 0..MaxRuns
  /\ shm_addr \in {Bad} \cup 0..MaxRuns
  /\ shm_ptr \in Pointers
  /\ ism_lock \in BOOLEAN
  /\ region \in [Runs -> Nat]
  /\ tst \in [Threads -> Section \cup {"none", "forked", "started", "created", "running",
                                     "has", "crashed", "gone", "lost"}]
  /\ map \in [Threads -> [region : 0..MaxRuns, base : {Bad} \cup 0..MaxRuns]]
  /\ tf_mem \in [Threads -> Pointers]
  /\ next \in [Threads -> Pointers]
  /\ mpc \in {"idle", "allstarted", "create", "attach", "point", "unlock", "pause",
              "delete", "exit"}
  /\ seen \subseteq Threads
  /\ run \in 0..MaxRuns
  /\ early \in BOOLEAN

\* ipc_init() took shm_ism_lock.
Init ==
  /\ shm_required = 0
  /\ shm_id = None
  /\ shm_addr = None
  /\ shm_ptr = Start(None)
  /\ ism_lock = TRUE
  /\ region = [r \in Runs |-> 0]
  /\ tst = [t \in Threads |-> "none"]
  /\ map = [t \in Threads |-> Nothing]
  /\ tf_mem = [t \in Threads |-> Start(None)]
  /\ next = [t \in Threads |-> Start(None)]
  /\ mpc = "idle"
  /\ seen = {}
  /\ run = 0
  /\ early = FALSE

-----------------------------------------------------------------------------
(* The threads.                                                            *)

\* procflow_exec() sets pf_running.
ProcessStarts(t) ==
  /\ tst[t] = "forked"
  /\ tst' = [tst EXCEPT ![t] = "started"]
  /\ UNCHANGED <<shm_required, ismVars, map, tf_mem, next, masterVars, early>>

\* threadflow_createthread() adds to what is required.
CreateThread(t) ==
  /\ tst[t] = "started"
  /\ shm_required' = shm_required + Size(t)
  /\ tst' = [tst EXCEPT ![t] = "created"]
  /\ UNCHANGED <<ismVars, map, tf_mem, next, masterVars, early>>

\* flowop_start() has created its flowops and sets tf_running.
ThreadStarts(t) ==
  /\ tst[t] = "created"
  /\ tst' = [tst EXCEPT ![t] = "running"]
  /\ UNCHANGED <<shm_required, ismVars, map, tf_mem, next, masterVars, early>>

\* Plausible slip: the lock is not waited for.
IsmLockIgnored(t) ==
  /\ tst[t] = "running"
  /\ ism_lock' = TRUE
  /\ tst' = [tst EXCEPT ![t] = "locked"]
  /\ early' = (early \/ mpc # "pause")
  /\ UNCHANGED <<shm_required, regionVars, shm_ptr, map, tf_mem, next, masterVars>>

\* ipc_ismmalloc() waits for the lock, which is a barrier in the first run only.
IsmLock(t) ==
  /\ tst[t] = "running"
  /\ ~ism_lock
  /\ ism_lock' = TRUE
  /\ tst' = [tst EXCEPT ![t] = "locked"]
  /\ early' = (early \/ mpc # "pause")
  /\ UNCHANGED <<shm_required, regionVars, shm_ptr, map, tf_mem, next, masterVars>>

\* ipc_ismattach(): shmat() of shm_id at shm_addr, whatever they are by now; what it
\* returns is compared with NULL only, and not looked at by the caller.
IsmAttach(t) ==
  /\ tst[t] = "locked"
  /\ tst' = [tst EXCEPT ![t] = "attached"]
  /\ \/ /\ shm_id # None /\ shm_addr # Bad
        /\ map' = [map EXCEPT ![t] = [region |-> shm_id, base |-> shm_addr]]
     \/ /\ shm_id = None \/ shm_addr = Bad \/ "shmat" \in Faults
        /\ UNCHANGED map
  /\ UNCHANGED <<shm_required, ismVars, tf_mem, next, masterVars, early>>

\* allocstr = shm_ptr.
IsmTake(t) ==
  /\ tst[t] = "attached"
  /\ tst' = [tst EXCEPT ![t] = "read"]
  /\ tf_mem' = [tf_mem EXCEPT ![t] = shm_ptr]
  /\ UNCHANGED <<shm_required, ismVars, map, next, masterVars, early>>

\* Plausible slip: sizes are rounded up here and not where they are added up.
IsmAdvanceRounds(t) ==
  /\ tst[t] = "read"
  /\ tst' = [tst EXCEPT ![t] = "reread"]
  /\ \E p \in {tf_mem[t], shm_ptr} :
       next' = [next EXCEPT ![t] = [p EXCEPT !.off = @ + Size(t) + (Size(t) % 2)]]
  /\ UNCHANGED <<shm_required, ismVars, map, tf_mem, masterVars, early>>

\* shm_ptr += size; the compiler may read shm_ptr again for it or not.
IsmAdvance(t) ==
  /\ tst[t] = "read"
  /\ tst' = [tst EXCEPT ![t] = "reread"]
  /\ \E p \in {tf_mem[t], shm_ptr} :
       next' = [next EXCEPT ![t] = [p EXCEPT !.off = @ + Size(t)]]
  /\ UNCHANGED <<shm_required, ismVars, map, tf_mem, masterVars, early>>

IsmStore(t) ==
  /\ tst[t] = "reread"
  /\ tst' = [tst EXCEPT ![t] = "written"]
  /\ shm_ptr' = next[t]
  /\ UNCHANGED <<shm_required, regionVars, ism_lock, map, tf_mem, next, masterVars, early>>

\* The lock is released, and flowop_start() clears the memory: it faults if the
\* process has nothing attached there.
IsmUnlock(t) ==
  /\ tst[t] = "written"
  /\ ism_lock' = FALSE
  /\ tst' = [tst EXCEPT ![t] = IF map[t].region # None /\ map[t].base = tf_mem[t].base
                               THEN "has" ELSE "crashed"]
  /\ UNCHANGED <<shm_required, regionVars, shm_ptr, map, tf_mem, next, masterVars, early>>

IsmMalloc(t) ==
  \/ IsmLock(t) \/ IsmAttach(t) \/ IsmTake(t)
  \/ IsmAdvance(t) \/ IsmStore(t) \/ IsmUnlock(t)

-----------------------------------------------------------------------------
(* The master.                                                             *)

\* parser_proc_create(): the processes are created and the barrier is released.
StartRun ==
  /\ mpc = "idle"
  /\ run < MaxRuns
  /\ run' = run + 1
  /\ tst' = [t \in Threads |-> IF t[1] = run + 1 THEN "forked" ELSE tst[t]]
  /\ mpc' = "allstarted"
  /\ seen' = {}
  /\ early' = FALSE
  /\ UNCHANGED <<shm_required, ismVars, map, tf_mem, next>>

ThisRun == {t \in Threads : t[1] = run}

\* procflow_allstarted() finishes with a process that runs: its thread runs too,
\* or is not on the list of threads yet.
AllStartedOne(t) ==
  /\ mpc = "allstarted"
  /\ t \in ThisRun \ seen
  /\ tst[t] \notin {"forked", "created"}
  /\ seen' = seen \cup {t}
  /\ UNCHANGED <<shm_required, ismVars, threadVars, mpc, run, early>>

AllStarted ==
  /\ mpc = "allstarted"
  /\ ThisRun \subseteq seen
  /\ mpc' = "create"
  /\ UNCHANGED <<shm_required, ismVars, threadVars, seen, run, early>>

\* Nothing is required, or there is a region already.
IsmNotNeeded ==
  /\ mpc = "create"
  /\ shm_required = 0 \/ shm_id # None
  /\ mpc' = "pause"
  /\ UNCHANGED <<shm_required, ismVars, threadVars, seen, run, early>>

\* ipc_ismcreate() takes no lock: shmget() stores shm_id, or fails and the run goes
\* on with shm_ism_lock as it is.
IsmCreateGet ==
  /\ mpc = "create"
  /\ shm_required # 0 /\ shm_id = None
  /\ \/ /\ shm_id' = run
        /\ region' = [region EXCEPT ![run] = shm_required]
        /\ mpc' = "attach"
     \/ /\ "shmget" \in Faults
        /\ mpc' = "pause"
        /\ UNCHANGED <<shm_id, region>>
  /\ UNCHANGED <<shm_required, shm_addr, shm_ptr, ism_lock, threadVars, seen, run, early>>

\* shmat() stores shm_addr, also if it fails.
IsmCreateAttach ==
  /\ mpc = "attach"
  /\ \/ shm_addr' = run /\ mpc' = "point"
     \/ "shmat" \in Faults /\ shm_addr' = Bad /\ mpc' = "pause"
  /\ UNCHANGED <<shm_required, shm_id, region, shm_ptr, ism_lock, threadVars, seen, run, early>>

IsmCreatePoint ==
  /\ mpc = "point"
  /\ shm_ptr' = Start(shm_addr)
  /\ mpc' = "unlock"
  /\ UNCHANGED <<shm_required, regionVars, ism_lock, threadVars, seen, run, early>>

\* "Locked until allocated": whoever has the lock loses it.
IsmCreateUnlock ==
  /\ mpc = "unlock"
  /\ ism_lock' = FALSE
  /\ mpc' = "pause"
  /\ UNCHANGED <<shm_required, regionVars, shm_ptr, threadVars, seen, run, early>>

\* The run ends: procflow_shutdown() leaves no thread behind, wherever it was, nor
\* what its process had attached, but never deletes the threadflows of a process, so shm_required is not reduced.
EndRun ==
  /\ mpc = "pause"
  /\ tst' = [t \in Threads |->
              IF t \notin ThisRun THEN tst[t]
              ELSE IF tst[t] \in Section /\ ism_lock THEN "lost" ELSE "gone"]
  /\ map' = [t \in Threads |-> Nothing]
  /\ tf_mem' = [t \in Threads |-> Start(None)]
  /\ next' = [t \in Threads |-> Start(None)]
  /\ mpc' = IF shm_required # 0 THEN "delete" ELSE "idle"
  /\ UNCHANGED <<shm_required, ismVars, seen, run, early>>

\* Plausible slip: no early return when there is no region.
IsmDeleteAlwaysLocks ==
  /\ mpc = "delete"
  /\ ~ism_lock
  /\ shm_ptr' = Start(shm_addr)
  /\ shm_id' = None
  /\ mpc' = "idle"
  /\ UNCHANGED <<shm_required, shm_addr, region, ism_lock, threadVars, seen, run, early>>

\* ipc_ismdelete().  The master waits for a lock that it holds itself, if shmat()
\* failed, or that a dead thread holds.
IsmDelete ==
  /\ mpc = "delete"
  /\ \/ shm_id = None /\ UNCHANGED ismVars
     \/ /\ shm_id # None
        /\ ~ism_lock
        /\ shm_ptr' = Start(shm_addr)
        /\ shm_id' = None
        /\ UNCHANGED <<shm_addr, region, ism_lock>>
  /\ mpc' = "idle"
  /\ UNCHANGED <<shm_required, threadVars, seen, run, early>>

Quit ==
  /\ mpc = "idle"
  /\ mpc' = "exit"
  /\ UNCHANGED <<shm_required, ismVars, threadVars, seen, run, early>>

-----------------------------------------------------------------------------
ThreadRuns(t) == ProcessStarts(t) \/ CreateThread(t) \/ ThreadStarts(t) \/ IsmMalloc(t)

IsmCreate == IsmCreateGet \/ IsmCreateAttach \/ IsmCreatePoint \/ IsmCreateUnlock

Creating ==
  \/ \E t \in Threads : AllStartedOne(t)
  \/ AllStarted \/ IsmNotNeeded \/ IsmCreate

Next ==
  \/ \E t \in Threads : ThreadRuns(t)
  \/ StartRun \/ Creating \/ EndRun \/ IsmDelete \/ Quit
  \/ mpc = "exit" /\ UNCHANGED vars

Spec == Init /\ [][Next]_vars

\* The master and the threads are scheduled; the pause of a run ends.
FairSpec ==
  /\ Spec
  /\ WF_vars(Creating) /\ WF_vars(EndRun) /\ WF_vars(IsmDelete)
  /\ \A t \in Threads : WF_vars(ThreadRuns(t))

-----------------------------------------------------------------------------
(* Properties.                                                             *)

\* Both have the same region attached, at whichever addresses, and share bytes of it.
Overlap(t, u) ==
  /\ map[t].region = map[u].region
  /\ tf_mem[t].off < tf_mem[u].off + Size(u)
  /\ tf_mem[u].off < tf_mem[t].off + Size(t)

\* No two threads, of whichever processes, share memory, unless one of the run came
\* through shm_ism_lock before ipc_ismcreate() had released it.
ChunksDisjoint ==
  ~early => \A t, u \in Threads :
              t # u /\ tst[t] = "has" /\ tst[u] = "has" => ~Overlap(t, u)

\* ipc_ismmalloc() does not check for the end of the region: it is not run over,
\* unless a thread was created after ipc_ismcreate() had read shm_required.  Threads
\* that came through the lock early may share memory, but stay inside the region.
FitsUnlessLate ==
  \A t \in Threads :
    tst[t] = "has" =>
      \/ tf_mem[t].off + Size(t) <= region[map[t].region]
      \/ shm_required > region[map[t].region]

\* A run command returns to the script even if the region could not be made and
\* its threads are blocked; but if shmat() fails ipc_ismdelete() waits for the
\* lock that its own thread has held since ipc_init(), and if a thread was killed in
\* ipc_ismmalloc() for one that nobody holds any more.
RunReturns ==
  mpc = "allstarted" ~>
    \/ mpc = "idle"
    \/ shm_addr = Bad
    \/ \E t \in Threads : tst[t] = "lost"
=============================================================================
