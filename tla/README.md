# TLA+ models of filebench

Filebench runs synthetic file system workloads. A script defines *filesets*,
*processes*, *threads* and the *flowops* a thread executes in a loop; the
master process preallocates the files, forks the worker processes, lets them
run for some time, stops them and prints statistics. All processes share one
memory-mapped region, `filebench_shm`, in which every lock, list, counter and
condition variable of the program lives. What is hard to get right, and hardly
tested by running workloads, is the protocol between the processes and threads
in that region, and that is what these modules are about.

The modules model the code of `src/filebench` as it is, errors included.
`PROJECT.json` maps each definition to the lines it models.

## 1. Inventory

| Component | State | Operations | Talks to | Hard behaviour |
|---|---|---|---|---|
| Fileset entry claims (`fileset.c`) | flags of each entry (`FSE_FREE`, `FSE_EXISTS`, `FSE_BUSY`, `FSE_THRD_WAITNG`), three trees, idle counts, rotors, four condition variables, one mutex | `fileset_pick`, `fileset_unbusy` | all file flowops | claims span system calls; signals to one of many waiters |
| File and directory flowops (`flowop_library.c`) | per thread `tf_fd`, `tf_fse`; `fse_open_cnt` | open, create, close, delete, stat, fsync, read and write, makedir, removedir, listdir | the claims, the file system | waiting for a particular entry; error paths that keep the claim; deleting open files |
| Fileset creation (`fileset.c`) | `shm_fsparalloc_count`, its condition variable | `fileset_createset`, `fileset_create`, `fileset_pickreset`, allocation threads | claims, master | an error overwrites the count others decrement |
| Run life cycle (`procflow.c`, `threadflow.c`, `flowop_start`, `parser_run`, `filebench_shutdown`) | `shm_f_abort`, `shm_procs_running`, `shm_proclist`, `pf_running`, `shm_procflow_lock`, `shm_run_lock`, `cnw_wait` | create, start, supervise, stop | everything | processes die with locks; three kinds of actors shut down at once; timeouts at start |
| ISM memory (`ipc.c`) | `shm_id`, `shm_addr`, `shm_ptr`, `shm_required`, `shm_ism_lock` | create, attach, malloc, delete | run life cycle | the size is added up by processes that start late; a lock used as a barrier |
| Semaphore flowops | two System V semaphores for each semblock | semblock, sempost | `flowop_find` | two-step against atomic operations, timeouts, `SEMVMX` |
| Event generator and limiters (`eventgen.c`, `flowop_library.c`) | `shm_eventgen_q`, `fo_tputlast`, `fo_tputbucket`, `controlstats` | generate, reset, eventlimit, iopslimit, opslimit, bwlimit | statistics | unlocked reset; one signal for many waiters; counters cleared underneath |
| Block and wakeup flowops, target lists | `fo_cv`, `fo_targetnext`, `fo_resultnext` | block, wakeup, hog | `flowop_find` | a wait without a predicate, links shared by all lookups |
| Flowop lists, composite flowops (`flowop.c`) | `shm_flowoplist`, `tf_thrd_fops`, `fo_comp_fops` | create run-time copies, find by name, destroy | object pool, run life cycle | teardown without a lock while others look up or tear down |
| Object pool (`ipc.c`) | bitmaps of each object type, string and path arenas, semaphore ids | `ipc_malloc`, `ipc_free`, ... | all definitions | exhaustion; what is left allocated from run to run |
| Statistics (`stats.c`, `flowop_endop`) | `fo_stats`, `controlstats`, `globalstats`, `shm_bequiet` | count, clear, snapshot, finishoncount, finishonbytes | flowops, run life cycle | counters written, zeroed and added up without locks |
| Variables and attributes (`vars.c`, `parser_gram.y`) | `shm_var_list`, `shm_var_loc_list`, attributes bound to variables | set, expressions, random, bind, local variables of composites | parser, flowops | values read long after they were bound; a union whose type may change |
| AVL trees (`fb_avl.c`) | links, child indices and balances of each node | insert, remove, update, find, walk, destroy | filesets | double rotations; removal of nodes with two children |
| Random distributions, plug-in, logging, lexer | sequential | | | pure computation and I/O |

What makes each correct, in a sentence: a claim is exclusive and its release
wakes whoever waits for it; flags, trees, counts and storage agree whenever an
entry is not claimed; `fileset_createset()` says OK only of a complete fileset;
a run that is stopped leaves nothing running, and stopping ends; memory
chunks do not overlap; semaphores and events are conserved and nobody waits for
something that is there; the global list of flowops holds what is allocated, a
lookup finds all of a name and a blocked thread is woken; a report is what was
counted, and a run with a limit stops at it; an attribute reads what the script
says; a tree is an ordered set.

## 2. Plan

Written, most important first:

1. `FilesetCore`, `Fileset` on top of it, `EntryLock` as the abstract
   specification, `FilesetProofs`. Filesets are what every workload uses.
2. `FilesetCreate`, on the same `FilesetCore`.
3. `Procflow`: the run life cycle.
4. `Ism`, `Semflow` with `SemflowProofs`, `Limiter`: the services of a run.
5. `Avl`, which justifies the trees-as-sets of `FilesetCore`.
6. `Flowops`: object pool, global list, lookups, composites, block and wakeup.
7. `Stats`: counters, clear and snapshot, the flowops that end a run.
8. `Vars`: variables, attributes, the local variables of composites.

9. Proofs of every safety property that the prover can reach: `LimiterProofs`,
   `IsmProofs`, `StatsProofs`, `ProcflowProofs`, `FilesetCreateProofs`, the
   properties of the default slot in `FilesetProofs`, and all four invariants of
   Flowops in `FlowopsProofs`.

Next:

10. The table of `fb_random.c`, the list of asynchronous I/Os of `fb_localfs.c`,
   `fileset_populate()`.

## 3. The modules

**FilesetCore** is one fileset: the four flags as sets of entries, the trees as
sets (an AVL tree ordered by `fse_index` is a set of numbers), idle counts,
rotors, and the threads blocked on each condition variable. Its operators are
`fileset_pick()` cut into its wait (`PickWait`), its success (`PickEntry`) and
its failure (`PickNull`), and `fileset_unbusy()` whole, since it is one critical
section. A rotor pick starts at the first entry not below the rotor and goes on
cyclically to one that is not busy (`fileset_find_entry`, `MetNoLater`); with
`PICKUNIQUE` the starting point is any entry.

**Fileset** has the worker threads. A flowop is cut where others can see the
difference: its start, each visit to `fs_pick_lock`, and its system call. `pc`
runs through `pick` or `grab` (closefile and deletefile wait for the entry of
their slot), `held`, `unbusy`. Every flowop and every slot may come next, so all
scripts are covered. `Faults` are the system calls that may fail. `disk` is what
is on storage. A process that dereferences NULL in closefile is stopped there
(`segv`); only the thread is, while in the program its whole process dies.

**EntryLock** is the abstract specification: claims of entries by threads, at
most one for each of either. `ClaimsAreALock` says that Fileset implements it,
with the pairs `Holds(t, e)` for the claims.

**FilesetCreate** has the master and one allocation thread for each file. The
walk of `fileset_pickreset()` is one step for each entry, because it asks
for the successor of an entry that is in another tree by then. A tree broken in
this way ends in the state `corrupt`, after which the model says nothing. `Again` is
the run between two calls, in one step: entries created and deleted (`RunEntries`; a
failed mkdir, or a worker killed between the system call and the unbusy, leaves the
flag wrong), entries left busy by killed workers and by error paths, a surplus on the
count of idle files (`flowop_library.c:1912`), dead waiters on the condition
variables (`RunClaims`), and `fs_pick_lock`, which is not robust, in the hand of a dead
worker. `fileset_pickreset()` repairs none of these. `remains` records them, and the
properties except them by name. Open counts, rotors and `fs_thrd_wait_cv` are left as they
were: the master reads none of them but the rotor, which `PICKUNIQUE` replaces by any index.

**Procflow** has main, the createnwait thread of each run, and worker processes
with one thread each. `shm_procflow_lock` and `shm_threadflow_lock` are variables: they
are held across waits and their owner may die, and since both are plain mutexes
(`IPC_MUTEX_NORMAL`, `ipc.c:359-364`) nobody takes them over. The master holds the first
while it takes the second (`M_AllThreads`); a worker that cannot create its thread holds
the second and calls `filebench_shutdown()`, which takes the first; one that
cannot define its thread returns with the second (`W_CannotDefine`). `sd[a]` is where
actor `a` is in `filebench_shutdown()` and `procflow_shutdown()`, so that all of them
may be in it at once. With a process its threads end, so a dead worker's places are reset.
`shm_procs_running_lock` is held for one access each time and is not a variable; that a
worker dies within one is left out.

**Ism** has the master and the threads of two runs; an address is that at which the
master has a region, with an offset. Every store of `ipc_ismcreate()`, which takes no
lock, and every access of `ipc_ismmalloc()` to shared memory is a step, and a process
maps whatever `shm_id` and `shm_addr` say when it looks. `shm_ism_lock` keeps the
threads out until the region is there in the first run only: `ipc_ismdelete()` leaves
it open. `early` records that a thread came through it before `ipc_ismcreate()` had
released it. **Semflow** has semblocks and semposts. **Limiter** has threads that
work and call their limiters, the generator, and the two resets of
`parser_run()`; how `eventgen_reset()` falls into another's update of the queue
is a choice of `Reset`, and the queue is a number modulo `Wrap`. History
variables record what has been posted, taken, dropped, done and never charged.

**Avl** is `fb_avl.c` with its links, child indices and balances: a state is
the memory of one tree, an action one operation, since callers hold
`fs_pick_lock`. Keys are only compared, so after each operation the nodes are
renumbered 2, 4, 6, ... in key order, with an odd number for each gap: the
states are the shapes of trees, and `OperationsExact` compares each operation
with what it means on the set of keys.

**Flowops** has the pool of flowop slots with the cyclic search of
`ipc_malloc()`, the global list, and worker threads that create their flowops
under `shm_flowop_lock`, wait at `flowop_find_barrier()`, find targets by name,
block and wake each other, and delete their composites' inner flowops when the
run ends. A thread takes the find lock when it comes to run (`TakeFindLock`), which may be
after another has passed the barrier: the variable `late` records whose flowops
such a lookup cannot have seen. It takes the lock of the list (`CreateLock`), defines one flowop in each
step (`Define`, which is `flowop_define_common()`, or `DefineFails`), and goes on
to the next inner or top-level flowop or to its loop (`GoOn`): the
unlocked deletions of others may fall between any two of them. The links of
private lists, `fo_exec_next`, are kept next to the lists because one is read
from a flowop that has been freed. Each access of a shared link is
a step of its own: the walk of a lookup, the copying of the target list, which
holds no lock, and `flowop_delete()` called from `flowop_composite_destruct()`.
The history variable `raced` records what the missing lock has done so far:
`"list"`, that an unlocked deletion has met another update of the list;
`"link"`, that the link of a freed flowop was another thread's by then.

**Stats** cuts the counting of an operation into its read and its write, the
walks of `stats_clear()` and `stats_snap()` into one step for each flowop, and
has a finishoncount or finishonbytes after each thread's I/O flowop. History
variables record what each flowop has counted since it was cleared (`since`), and
what the snapshots must and may report (`low`, `high`).

**Vars** has every script of a bounded number of commands: set, with values,
variables and expressions, random variables, attributes that refer to
variables, and two composites, one inside the other, defined and invoked with
arguments and defaults. Next to the program's data, `meaning` keeps what the
script has said, and `ValueOf` evaluates it: the reference that attributes are
compared with. The parser assigns the first operand of an expression as soon as it has
read it (`parser_gram.y:816`), and keeps of several operators only the last
(824, 848); both are in `SetExpr`, and `meaning` says the same. An integer followed by two
operators kills the program and is no action. An argument finds the local variable of an
earlier invocation that is still pending before a global variable of its name
(`ArgValue`). `MCVars` has the names and expressions of the run; two of the names are
alike, so that they are a symmetry set. A C union is its value with the member that was stored last;
reading another member gives `UNKNOWN`, a wild pointer `CRASH`.

**Sums** has the sum of a function over a finite set, as a number of pairs and so
without recursion; Stats adds up counters with it, the invariant of Ism memory.
The proofs of both begin with what happens to a sum when its set or its function changes.

**FilesetProofs**, **FilesetCreateProofs**, **ProcflowProofs**, **IsmProofs**,
**SemflowProofs**, **LimiterProofs**, **StatsProofs** and **FlowopsProofs** each hold
the invariants and theorems of one module (section 5).

The type invariants (`TypeOK`) are stated in the modules, that of Stats in
`StatsProofs`. They are proved of all but Avl and Vars, and no run lists them; what the
proofs need of the types of Flowops is in `PoolOK`, `Shape` and `PrivateOK`.

Definitions called a "plausible slip", or introduced by what an operation "would be"
if it went wrong, are variants of the one that follows them
and are used by no specification: they show what each property catches
(`mutants` in PROJECT.json).

## 4. The runs

| Run | Distinct states | What it shows |
|---|---|---|
| `fileset_slot0` | 559 274 | Two threads, two files, the default slot, five flowops, failing opens: claims are exclusive and implement `EntryLock`; idle counts never fall below the entries that are not busy; no waiter for a particular file sleeps through its release; trees match flags, flags match storage; open counts are exact and no file is unlinked while another thread has it open. |
| `fileset_all` | 880 518 | All ten flowops, directories, a numbered slot with rotation, indexed picks, and five kinds of failing calls, some of which leave entries claimed for ever: the idle counts of directories, which only picks claim, are exact. |
| `create` | 585 992 | Two files, by one allocation thread or two at a time, and a leaf directory by the master, twice, with failures, and a run in between that leaves up to two entries busy, a surplus of one, wrong flags, a dead waiter or a dead owner of the lock: createset returns unless one of these holds the master up, and says OK only if nothing has failed and the fileset is complete but for what the run has left. |
| `procflow` | 136 274 | Two workers, with failures of fork, exec, thread and flowop creation, and deaths at any point: nothing runs after a shutdown, the count covers the living, everybody ends unless one of two locks is lost for good or they are taken in opposite orders. |
| `ism` | 72 629 | Two runs, two processes with different sizes, failing `shmget` and `shmat`: chunks are disjoint unless a thread came early and fit their region unless one came late; run commands return unless the lock stays locked. |
| `semflow` | 19 814 | Two semblocks, a blocking and a free sempost, timeouts, `SEMVMX` of 5: conservation, bounded backlog, no stall, everyone returns. |
| `limiter` | 210 959 | Two threads with limiters of all kinds on one queue, with both resets at any time: events are conserved and pay for the work that is charged; no limiter sleeps through the events it needs. |
| `avl` | 1 774 | Every tree of up to fourteen nodes that additions, insertions, removals and key updates can build: operations and lookups agree with the set of keys, links and balances stay right, destroying a tree visits each node once. |
| `flowops` | 194 994 | Two threads of two processes and two runs on a pool that runs out: the global list is what is allocated unless unlocked deletions met; target lists are complete up to the flowops of threads that came late; no slot is given away that a thread still has; allocation fails only with at most one slot free; a blocked thread is woken unless it was late. |
| `vars` | 1 154 485 | Every script of four commands over three variables, up to exchanging two of them: attributes read what the script says, arguments of composites reach their inner flowops, with several invocations pending. |
| `stats` | 1 076 803 | Two threads, three clears or snapshots at any moment: a report lies between what had been counted when the snapshot began and when it ended; while it runs no thread begins another flowop (of the one that each has: a composite in the code goes on to its next inner flowop, `flowop.c:1061`); the limit of a finish flowop is overrun by one I/O flowop for each thread at most (in the run only finishonbytes is without a target; the theorem has every kind); the run ends. |

One run shows that the code does not do what its comments say:
`fileset_lost_signal` (`IdleWaiterReleased`): `fileset_unbusy()` signals one
waiter, when the idle count becomes 1 (`fileset.c:938`). Two releases before
that waiter runs wake one of two, and the other sleeps although an entry is
idle. Four threads on two files. Section 6 has the other disagreements.

### Bounds, and why they are enough

* Two threads suffice for exclusion and for lost updates of flags and counts,
  four for two waiters and two
  releases. Two files are the least for which a pick, a rotor and a wrong slot
  can go astray, and for the walk of a reset to leave an entry behind.
* `MaxFlowops` 3 or 4 allows open, close, delete and one flowop more on one slot.
* Two worker processes: one that fails while the other is at any point. One run;
  a second run is discussed under limits.
* `MaxCreates` 2: the reset matters from the second call on. `Limits` {1, 2} for
  two files: with 1 the master waits for room among the threads, with 2 it runs
  out of idle files first. `MaxLost` 2: every file may be left busy, or one and the
  leaf directory. `MaxSurplus` 1: with it the master picks when every file is busy. One
  worker to die as a waiter, of either type.
* Semflow: `HighWater` 1 with `PostValue` 2 and `BlockValue` 1 is the tightest
  instance `NoStall` allows; `SEMVMX` 5 makes both refusals happen. The bound
  `MaxExtra` closes the posts of the free sempost, `MaxMissed` the timeouts.
* Limiter: `Rate` 1 gives a depth of five events, `Counts` {3} makes the queue
  pass it, `MB` 3 with work in twos makes bandwidth events cover less and more
  than the work. `Wrap` is large enough for a wrapped queue to be told apart.
* Avl: fourteen nodes make trees of height five; a removal that rotates twice on
  its way up needs twelve. `MaxShift` 3 leaves a key in its place or moves it past a neighbour.
* Flowops: fourteen slots hold the flowops of one run and of part of a second,
  since a run leaves its top-level flowops allocated; so the pool fills up in the
  middle of a composite. Two threads with one name in common, in both lists.
* Vars: `Word` 4 and the integers 1 and 3 make sums and differences wrap around and
  divisions leave a remainder or divide by zero; four commands suffice for a set,
  a reference, a change and one more set, or for two composites and two invocations. Three
  names, so that the target and both operands may all differ.
* Stats: `Limit` 1 with a flowop of two iterations overruns the limit; three
  commands are a clear, a snapshot and another of either.
* `CHECK_DEADLOCK FALSE`: in `fileset_all` and `fileset_lost_signal` threads wait
  for entries that error paths or lost signals have left claimed or unnoticed; in
  `procflow` the master may wait for the lost signal; in `ism` it may wait for its own lock
  or one of a dead thread; in
  `limiter` the threads stop at `MaxWork` when there is no generator; in `flowops`
  all processes exit in the end or die on a freed link; in `vars` and `stats` scripts
  end.

### Fairness

Threads and processes are scheduled: weak fairness of what a thread can do by
itself. Where a thread contends for a lock the fairness is strong, because the
owners give the lock up for seconds (`procflow_allstarted()` sleeps, the
generator sleeps between two turns), so that a waiter is not passed over for
ever. `semtimedop()` serves the waiters for a semaphore in turn, hence strong
fairness of `Take` and the posts. Limiter assumes that waiters are signalled in
turn, which POSIX leaves to the implementation; `Served` depends on it.
In Flowops and Stats the threads are weakly fair, and so is the master within a
command (`Walk`) and at the start of a run (`AllStarted`); a shutdown reaches every
process (`Kill`), but nothing makes a run time out or the script issue a command.
Nothing makes a thread do more work, a timeout happen or a call fail, and the
time of a run runs out.

## 5. The proofs

Every theorem below is checked by TLAPS for all values of the constants that the
named assumptions of the modules allow. The assumptions say what kind of thing a
constant is (a finite set, a natural number, a flag); a theorem that needs more
states it as a hypothesis, and each is a case that occurs:

| Hypothesis | Theorems | Without it |
|---|---|---|
| `Faults \cap IgnoredFaults = {}` | `FlagsTellDisk` | makedir ignores the failure of mkdir |
| `Fds = {0}`, scripts without numbered slots | `OpenCounts`, `NoUnlinkOpen` | deletefile forgets which file the slot is open on, and takes one open of the picked file for its own (section 6) |
| `KeepsStorage`: reuse, a trusted tree, or one call | `Ready` | a second call leaves `FSE_EXISTS` of files that it has removed (section 6) |
| `MaxRuns = 1`, scripts with one run | `CountCovers`, `Quiet` | a run command may return after an error at startup and a second run begin while a worker is still in the shutdown of the first, which then deletes the processes of the second |
| no `"slow"` in `Faults` | `Quiet` | a process that starts after it was given up is found by no shutdown |

TLC finds a counterexample to the property in each of these cases, and none to
the inductive invariants, which it checked on small instances before they were proved.

**Fileset** (`FilesetProofs`): `TypeOK`, `BusyIsExclusive`, `IdleCountCovers`,
`BusyWaiterWillBeWoken`, `TreesMatchFlags`, `DirCountsExact`, the refinement
`ClaimsAreALock`, `FlagsMatchDisk`, `OpenCountExact` and the action property
`NoUnlinkWhileOpenElsewhere`. The first four cannot be proved apart. An idle
count stays a natural number only
because it covers the entries that are not busy (`IdleCountCovers`), which is
kept only because a release is done by the one thread that holds the entry
(`BusyIsExclusive`), which follows from where each thread is in its flowop
(`PcEnt`). `IInv` is their conjunction. Steps outside the lock are `LocalStep`s
and keep it by one lemma; picks, grabs and releases have a lemma each. For the
flags and storage, `HolderKnows` adds what a thread between its system call and
its unbusy is about to tell `fileset_unbusy()`. For the open counts, `SlotState`
says what a thread's slot holds at each point of its flowop, and `CountedExact`
that `fse_open_cnt` is the number of threads whose open has been counted, those
that have closed and not yet released included.

**FilesetCreate** (`FilesetCreateProofs`): `TypeOK`, and when `fileset_createset()`
returns OK, `CompleteWhenOK`, for any number of files, threads and calls,
whatever fails and whatever the runs between the calls leave behind; with `KeepsStorage`,
the whole of `ReadyWhenOK`. The one
number that the result depends on is counted down by threads, and overwritten
with -1 by one that fails, after which others count it further. `Counts` is what
it still tells: as long as it is not negative it is the number of threads at
work, and if anything has failed, the thread that will report it is among them.
So the master cannot see 0 with a failure unreported. That nothing is left free
takes `Claimed` (busy is what the master holds, the threads allocate and the run has
left busy, and these never meet) and `Left`: a pick that returns nothing has found every
free file busy, hence under allocation or left busy by the run.

**Procflow** (`ProcflowProofs`): `TypeOK` for any number of runs, and for one run
`CountCoversLiving` and `QuietAfterShutdown`.
`Counting` carries `procflow_allstarted()`'s count through its walk: it is the number of
listed processes it has passed. For the shutdown, `Settling` says that once the
walk has passed a process it has started or never will, so that a shutdown that gets past
its test of `shm_procs_running` meets only settled processes; and `Leaving` that a process
whose procflow has been deleted is on its way out. `Locking` is about `shm_procflow_lock`, which is held across waits
and whose owner may die: whoever is in the loop of `procflow_shutdown()`, or in
`procflow_allstarted()`, and can still act has it.

**Ism** (`IsmProofs`): `TypeOK`, `ChunksDisjoint`, `FitsUnlessLate`. Unless a thread
came early, one at a time is past the lock, and none before the master is done
(`Alone`), so that `shm_ptr` is what a thread has read until it moves it (`Taken`). The
bound needs the sum of what has been and will be taken: `Covered` says that `shm_ptr`,
wherever it is or is about to be moved, and the sizes of all threads still to come are
at most `shm_required`; the races of early threads do not break it.

**Limiter** (`LimiterProofs`): `TypeOK`, `EventsConserved`, `Paid`, and the
action property `AllCharged`. `Balance` is the meaning of `fo_tputbucket` (what was
paid and not charged); `StillEnough`, that the events a limiter has seen under the
lock are still there when it subtracts them unless a reset came between; `Settled`, that
a limiter called since `stats_clear()` is not taken for one that is called first,
although 0 stands for that in `fo_tputlast`.

**Stats** (`StatsProofs`): `TypeOK`, `ReportBounded`, `FreezeHolds`, `FinishBounded`.
In the middle of a snapshot the totals have to be compared with the flowops it has
passed: `Reporting` does it with sums over them (`Summed`, `Rolled`), while the threads
count on. `Frozen` adds to each count what its flowop has yet to do, and
`Bounded` does the same for the finish flowops, which see the counter of a moment ago.

**Semflow** (`SemflowProofs`), for any number of flowops and any values: `TypeOK`,
`Conserved`, `NoStall`, `BacklogBounded` and `FailsOnlyIfFree`. The inductive
invariant adds to them the bound on timeouts; `NoStall` and `BacklogBounded`
are arithmetic from `Conserved`.

**Flowops** (`FlowopsProofs`), for any programs, threads, slots and runs:
`FailsOnlyFull`, `SlotsExclusive`, `ListExact` and `TargetsComplete`. The links of the
lists are followed by a recursive function (`Chain`); instead of inducting over
it the proofs compare it with a description of the list, and take the least
position at which the two would differ (`Least`, from the well-foundedness of the
subsets of a finite set). There are three inductive invariants, each on top of the one before:

* `SlotInv`: where each thread is in its program (`PosOK`); that its flowops are
  allocated, its own, all different, and its composites' lists linked by
  `fo_exec_next` in their order (`Owned`); and what it knows of the flowop it is
  deleting (`Dest`). The last is needed because the thread reads the link of a flowop it
  has freed: it is still right as long as the flowop has not become another's, which is what
  `"link" \notin raced` says.
* `ListInv`: for some n and L, `IsList(n, L)`: the global list is L, from
  its end to its head, and holds what is allocated, less what its thread has just taken
  off. A thread in the unlocked search of `flowop_delete()` is above its flowop in L, and one that
  is about to unlink it right before it, which is what a concurrent update would break
  (`raced`).
* `TargetInv`, with the phases of a run (`PhaseInv`: only late threads create their
  flowops once a lookup has passed `flowop_find_barrier()`). Before that nobody has
  targets. A late thread's flowop goes to the head of the list, with the links
  of the FLOW_MASTER it is a copy of, so that a walk or a copy under way meets links nobody
  has made for it. Afterwards lookups share the result links and copy them without a lock, while
  others rewrite them and deletions take flowops away; so what is invariant is not a
  list but an order. `Ghost(pos, A, V, R, Q)` says that there are positions of the slots
  along which the global list goes down and every result and target link goes up;
  that A holds what a walk may still come by, V what no lookup has missed, R the slots with
  result links, and Q[w] those already copied for the wakeup w; and that no
  link jumps over a flowop of its name in V (`GoodLink`). A rewritten link differs
  from the old one only by what has been deleted since, so a target list read
  halfway through another lookup still leads upwards past everything in V (`Targets`),
  and every flowop of a live thread is in V. `Reaches` turns that into the nodes of the
  chain, of which there are at most as many as slots. The sets are quantified existentially;
  TLC checked the same formula with history variables in their place, on the program
  of the run and on a larger one (700 319 states), before it was proved.

Only model-checked:

* all liveness: the prover knows neither fairness nor `ENABLED`;
* Avl (`OperationsExact`, `WellFormed`, `LookupsAgree`) and Vars (`ReadsExact`,
  `ArgumentsArrive`), which follow links and expressions by recursion: what a recursive
  operator computes for every input is out of the prover's reach.

## 6. Where the code differs from its comments, or surprises

Seen while modelling, beyond the run above:

* `fileset_pickreset()` takes `AVL_NEXT` of an entry it has just moved to the free
  tree (`fileset.c:536`, `548`): the walk goes on there and leaves entries behind.
  Only a second run of a script gets there, and the comment says that it "removes all
  filesetentries from their respective btrees, and puts them on the free list"
  (`fileset.c:517`). FilesetCreate
  has the walk as it is. Every entry that stays in its tree stays marked as existing, so
  `fileset_createset()` does not make it again: right if the files are reused, as in the
  run `create`, but without reuse `fileset_create()` has removed them from storage, and it
  returns OK of a fileset whose files are missing. The theorem `Ready` therefore has the
  hypothesis `KeepsStorage`; with `Reuse` and `Trust` FALSE and two calls TLC refutes
  `ReadyWhenOK`, while `CompleteWhenOK` holds.
* Nor does it clear `FSE_BUSY` or mend the idle counts. An entry that a killed worker or
  an error path of a first run has left busy is put in the free tree, where no pick finds
  it, and the second run does not have it. If all entries of a type are busy and the
  count has no surplus, the master waits for ever in `fileset_pick()`; so it does if a
  worker was killed with `fs_pick_lock`, or if `pthread_cond_signal()` chooses a killed
  worker for the waiter it releases. `Hung` names these states. With any one of the exceptions
  left out TLC refutes `CreateReturns` or finds the deadlock, and so with those of
  `ReadyWhenOK`.
* The createnwait thread may signal before `procflow_init()` waits, which tests
  nothing before it does (`procflow.c:462`): the run command then never returns.
* `pf_running` is set before the threads of the process are defined
  (`procflow.c:313`), so the master may find no thread to wait for, the run begins, and a
  lookup passes `flowop_find_barrier()` before all flowops exist, although its comment
  says that "find waits for all creates" (`flowop.c:898`). A wakeup or sempost that
  has looked up its targets by then never looks again: the flowops of the late thread
  are never woken by it. `TargetsComplete` and `Woken` except the late threads; without the
  exception TLC refutes both.
* `shm_procflow_lock` and `shm_threadflow_lock` are not robust. A worker that dies with one
  of them, in `procflow_find()`, `filebench_shutdown()` or `threadflow_init()`, leaves the
  master waiting for ever, which is what the createnwait thread is there to prevent. No
  crash is needed: a worker that shuts the run down comes to its own procflow in
  `procflow_shutdown()`, sends itself SIGUSR1, which it has not caught since `exec`, and
  dies with the lock (`procflow.c:688`); a worker that cannot define its thread exits with
  `shm_threadflow_lock`; and the createnwait thread may `exit(1)` while main has
  `shm_procflow_lock`. `OwnerGone` names these states.
* Lock order: main takes `shm_threadflow_lock` with `shm_procflow_lock` held
  (`procflow.c:614`, `threadflow.c:307`), and a worker whose `pthread_create()` fails calls
  `filebench_shutdown()` (`threadflow.c:99`), which takes `shm_procflow_lock`
  (`misc.c:339`), with `shm_threadflow_lock` held. Both wait for ever, and everyone else
  for them; `filebench_shutdown()` "stops the run and exits filebench" (`misc.c:327`). `Deadlocked`
  names this state. Without it, or without `OwnerGone`, TLC refutes
  `EverythingEnds` with a behaviour of 13 states, or of 9.
* `flowop_composite_destruct()` calls `flowop_delete()` (`flowop.c:1148`), which
  unlinks a flowop from the global list, without `shm_flowop_lock`. Two processes
  that leave their composites at once bring flowops back into the list that are
  free, or lose others; and the link to the next inner flowop is read from one that has
  just been freed (`flowop.c:1149`).
* A composite whose inner flowops find no slot is only logged (`flowop.c:303`): the
  thread runs with those it has. Workers are killed before they delete their
  top-level flowops, so every run leaves them allocated until the pool is full.
* The search of `ipc_malloc()` ends where it has begun without having looked there:
  with one slot left it may fail.
* The counter of a flowop is incremented without a lock: an increment that
  `stats_clear()` falls into brings the old count back. A second snapshot without a clear adds
  everything to the totals again. `shm_bequiet` keeps threads from beginning a
  flowop, and nothing waits for those that are in one.
* finishoncount counts itself and every other flowop of type OTHER or SYNC as I/O,
  because `fo_type` is tested with `&` (`flowop.c:227`), and only those of its own process.
* A composite that sees the abort returns DONE (`flowop.c:1066`), which overwrites the
  ERROR that caused it (`flowop.c:548`): the failed run prints its results. The inner
  flowops of composites are deleted at the end of the run, before the
  snapshot adds them up.
* An attribute keeps a pointer to the value of its variable, with the type the
  variable had then (`vars.c:392`); after a set of another type it reads the bytes
  of that. Bits that say what the second operand is are added to and never
  cleared (`vars.h:222`): after `set $a = $b + $c` and then `set $a = $b + 1` an
  attribute takes the 1 for a pointer to a variable. `set $a = $a + 1` recurs without end at its first use, and a zero divisor ends
  the process. A copy from an expression or a random variable does nothing (`var_copy`).
  `set $a = $b + $c` with `$c` unknown assigns `$b` to `$a` (`parser_gram.y:816`), and
  `set $a = $b + 1 + 2` keeps `$b + 2` (844).
* The local variables of invocations that are parsed and not yet defined hide
  global variables of the same name from the flowops after them in the process: the second of
  `in $l=3` and `in $l=$l` gets the 3 of the first (`vars.c:1470`). If the definition
  of a composite gives a local variable a value, the arguments of its invocations are ignored
  by attributes that were bound to the value (`avd_update()`, `vars.c:1828`); an argument that
  names an unknown variable is dropped.

* `fs_idle_files` is not the "number of files NOT busy" (`fileset.h:143`): closefile
  decrements it only if the file is open once (`flowop_library.c:1912`), unbusy
  always increments it. It drifts upwards, which is why the property is
  `IdleCountCovers`. Picks then find everything busy instead of waiting.
* A closed slot keeps its entry pointer (`flowop_library.c:1924`, comment at 1878).
  closefile after deletefile on one slot dereferences NULL (1707, 1898).
* deletefile takes one open of the picked file for its own whenever its slot is
  open, on whichever file (1759), and then unlinks a file another thread has open.
* `fileset_openfile()` returns an error with the entry claimed if the parent cannot
  be made (`fileset.c:479`); makedir ignores the failure of mkdir (1989).
* A pick that fails after having been signalled swallows the signal.
* ISM: `ipc_ismdelete()` leaves `shm_ism_lock` open, so that in a second run threads
  may allocate before the pool exists, or between the stores of `ipc_ismcreate()`, which
  then releases the lock of whoever has it: threads fault where nothing is mapped, or
  two of them get the same bytes (without `~early` TLC finds `ChunksDisjoint`
  violated in 39 steps). A failed `shmat()` in a thread is
  never seen; a thread killed in `ipc_ismmalloc()` leaves the lock locked; after a failed `shmat()` in the master `ipc_ismdelete()` waits for a lock
  its own thread holds. `shm_required` is never reduced.
* `eventgen_reset()` falling into a limiter's subtraction makes the queue wrap, after
  which nothing is limited. The generator drops fractions of events, so the rate is
  below the "requested rate" (`eventgen.c:73`). A limiter without a target charges
  the work of its whole process, each such limiter anew. `stats_clear()`
  gives a targeted limiter credit for the work done before it.
* A later DONE overwrites an ERROR in `shm_f_abort` (`flowop.c:548`). A worker that
  dies before `shm_procs_running` is set ends the run as lack of resources. The
  comment of `procflow_shutdown()` says that it resets the flag; it leaves FINI there.
* A worker of a first run that counts itself down after `procflow_shutdown()` has
  zeroed the count makes it wrong for a second run; the run lock is no barrier in
  a second run; `shm_fsparalloc_lock` is never initialised; `procflow_sleep()` uses `&`
  where `&&` is meant (`procflow.c:505`), so that a wait of an even number of seconds
  ends at once.

## 7. Limits

* Fileset starts with flags that agree with storage, which is what
  `ReadyWhenOK` shows of FilesetCreate (in one direction: reused files may
  be on storage without the flag) when no run came before: its runs are first runs, not runs on
  a fileset that an earlier one has spoilt. `SysUnlink` tests the open count and unlinks
  in one step, so an open that falls between the two (`flowop_library.c:1761`) is not in the
  model. Names, paths, sizes, raw devices and name
  conflicts are left out; an I/O error of a read or write that opened its own file
  is counted at the next flowop.
* FilesetCreate takes the populated fileset as its initial state; one fileset stands
  for the list. `fileset_populate()` is skipped in later calls, as in the code if the
  files have any bytes (`fileset.c:1583`). A worker killed within `fs_pick_lock` may leave
  its tree half changed: the walk of the reset, which takes no lock, may then end in
  `corrupt`, and behind the lock nothing is read any more.
* Procflow has the process model only, one thread for each worker, and kills without
  delay. A run begins with an empty list of workers. Processes that start after having been given up (the fault `slow`) are
  modelled and not part of a run.
* Ism abstracts how a run ends. Semflow leaves `fo_lock` out, which only its own
  thread takes, and gives every sempost all semblocks as targets. The POSIX semaphores
  are not modelled. Limiter has integers for counters below 2^63, and a
  generator that is enabled from the start or never.
* Flowops has the process model, threads that each have a process of their own, and composites
  one level deep. Stats abstracts the counters of a flowop to one, and the CPU times are
  left out. Vars has integers, booleans, strings and random variables; doubles
  behave as integers do without the modulus. Commands inside `foreach`, which are executed
  long after they were parsed, are left out. Dynamic and environment variables
  read something outside the program.

### Not modelled

`components` of PROJECT.json names every part. Left out, with the reason:
formatting, dumps, logging, the lexer and completion (text in, text out, no state
that others see); the grammar apart from what it does to variables, composites, runs
and statistics; `ipc_stralloc()`, `ipc_pathalloc()` and `ipc_semidalloc()` (an index
that only advances under a lock); `fileset_populate()` and the random distributions
(floating-point sampling); the data paths of the I/O flowops and the plug-in
`fb_localfs.c` (system calls, and a list of asynchronous I/Os that belongs to one
thread); microstate accounting and kstat; the socket exchange with a multi-client
master (one blocking message each way); the Perl and Java report drivers and the
workloads.
