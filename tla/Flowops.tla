------------------------------ MODULE Flowops ------------------------------
(***************************************************************************)
(* The run-time flowops of src/filebench/flowop.c: the slots they are      *)
(* allocated from (ipc_malloc() and ipc_free() of ipc.c), the global list  *)
(* they are linked into, the look-up of flowops by name with the barrier   *)
(* before it, composite flowops, and the flowops block and wakeup of       *)
(* flowop_library.c that find each other through all of it.                *)
(*                                                                         *)
(* A flowop is its slot.  The private lists (tf_thrd_fops, fo_comp_fops)   *)
(* are sequences of slots; the links that threads share (fo_next,          *)
(* fo_resultnext, fo_targetnext), and the private link fo_exec_next that   *)
(* is read from a flowop after it was freed, are kept as links.  Creating  *)
(* a flowop is one step, under shm_flowop_lock; walking and changing the   *)
(* lists without that lock is one step for each access.                    *)
(***************************************************************************)
EXTENDS Integers, FiniteSets, Sequences, SequencesExt

CONSTANTS
  Threads,    \* worker threads, each in a process of its own
  Program,    \* the flowops of each thread, as its FLOW_MASTERs describe them
  NSlots,     \* FILEBENCH_NFLOWOPS
  MaxRuns,    \* bound: run commands of the script
  NULL        \* the null pointer, no lock holder

\* A flowop description: name, kind, the name of its targets, and the inner
\* flowops of a composite.
Kinds == {"block", "wakeup", "composite"}

Slots == 0..(NSlots - 1)

ASSUME ProgramAssumption ==
  /\ NSlots \in Nat \ {0} /\ MaxRuns \in Nat
  /\ NULL \notin Slots \cup Threads
  /\ \A t \in Threads : Len(Program[t]) \in Nat \ {0}
  /\ \A t \in Threads : \A i \in 1..Len(Program[t]) :
       /\ Program[t][i].kind \in Kinds
       /\ Len(Program[t][i].inner) \in Nat
       /\ Program[t][i].kind # "composite" => Program[t][i].inner = <<>>
       /\ \A j \in 1..Len(Program[t][i].inner) : Program[t][i].inner[j].kind # "composite"

FLOW_MASTER == -2

VARIABLES
  shm_bitmap,           \* slots in use
  shm_lastbitmapindex,  \* the slot allocated last
  shm_flowoplist,       \* head of the global list
  fo_next,              \* its links
  flowop,               \* the fields of each slot that never change while it is used
  fo_comp_fops,         \* the inner flowops of a composite
  fo_exec_next,         \* links of the private lists
  fo_resultnext,        \* links of the results of flowop_find()
  fo_targetnext,        \* links of the target lists
  fo_targets,           \* head of the target list of a wakeup
  tf_thrd_fops,         \* each thread's flowops
  pc, ip, jp,           \* where a thread is: which flowop, which inner one
  cur, res,             \* its local pointers
  find_lock,            \* readers of shm_flowop_find_lock
  flowop_lock,          \* holder of shm_flowop_lock
  f_abort,              \* shm_f_abort is set
  procs_running,        \* shm_procs_running is set
  run, failed,          \* runs so far; some process has given up
  raced,                \* history: "list" if a list update met an unlocked deletion,
                        \* "link" if fo_exec_next was read from another thread's flowop
  looked,               \* history: a look-up has passed the barrier in this run
  late                  \* history: threads that took shm_flowop_find_lock after that

poolVars == <<shm_bitmap, shm_lastbitmapindex>>
listVars == <<shm_flowoplist, fo_next, raced>>
findVars == <<fo_resultnext, fo_targetnext, fo_targets>>
privateVars == <<tf_thrd_fops, fo_comp_fops, fo_exec_next>>
posVars == <<ip, jp>>
runVars == <<f_abort, procs_running, run, failed>>
lockVars == <<find_lock, flowop_lock>>
barrierVars == <<looked, late>>
vars == <<poolVars, listVars, flowop, findVars, privateVars, pc, posVars, cur, res,
          lockVars, runVars, barrierVars>>

-----------------------------------------------------------------------------
(* Allocation and definition.                                              *)

\* As Turns would be if the search stopped at the end of the bitmap.
TurnsToTheEnd == {k \in 1..(NSlots - 1) : /\ shm_lastbitmapindex + k < NSlots
                                          /\ shm_lastbitmapindex + k \notin shm_bitmap}

\* The turns of the loop of ipc_malloc() that come by a free slot, counted from
\* the slot allocated last, where the loop ends.
Turns == {k \in 1..(NSlots - 1) : (shm_lastbitmapindex + k) % NSlots \notin shm_bitmap}

\* ipc_malloc(): the first free slot, but never the slot allocated last.
ipc_malloc == IF Turns = {} THEN NULL ELSE (shm_lastbitmapindex + Min(Turns)) % NSlots

\* The fields flowop_define_common() sets once.
Field(op, instance, t, r) ==
  [name |-> op.name, instance |-> instance, kind |-> op.kind, target |-> op.target,
   thread |-> t, run |-> r]

\* The FLOW_MASTERs, which the parser has defined one thread after the other,
\* each composite followed by its inner flowops, in the slots from 1 on.
Masters ==
  FlattenSeq([i \in 1..Cardinality(Threads) |->
     LET t == SetToSeq(Threads)[i]
         ops == FlattenSeq([k \in DOMAIN Program[t] |-> <<Program[t][k]>> \o Program[t][k].inner])
     IN  [p \in DOMAIN ops |-> Field(ops[p], FLOW_MASTER, t, 0)]])

ASSUME RoomForMasters == Len(Masters) \in 0..(NSlots - 1)

Init ==
  /\ shm_bitmap = 1..Len(Masters) /\ shm_lastbitmapindex = Len(Masters)
  /\ shm_flowoplist = (IF Len(Masters) = 0 THEN NULL ELSE Len(Masters)) /\ raced = {}
  /\ fo_next = [s \in Slots |-> IF s \in 2..Len(Masters) THEN s - 1 ELSE NULL]
  /\ flowop = [s \in Slots |-> IF s \in 1..Len(Masters) THEN Masters[s]
                               ELSE [name |-> NULL, instance |-> 0, kind |-> NULL,
                                     target |-> NULL, thread |-> NULL, run |-> 0]]
  /\ fo_comp_fops = [s \in Slots |-> <<>>] /\ fo_exec_next = [s \in Slots |-> NULL]
  /\ fo_resultnext = [s \in Slots |-> NULL] /\ fo_targetnext = [s \in Slots |-> NULL]
  /\ fo_targets = [s \in Slots |-> NULL]
  /\ tf_thrd_fops = [t \in Threads |-> <<>>]
  /\ pc = [t \in Threads |-> "start"]
  /\ ip = [t \in Threads |-> 1] /\ jp = [t \in Threads |-> 0]
  /\ cur = [t \in Threads |-> NULL] /\ res = [t \in Threads |-> NULL]
  /\ find_lock = {} /\ flowop_lock = NULL
  /\ f_abort = FALSE /\ procs_running = FALSE /\ run = 1 /\ failed = FALSE
  /\ looked = FALSE /\ late = {}

-----------------------------------------------------------------------------
(* The start of a thread: flowop_start() up to its loop.  Nothing says when *)
(* a thread gets to its first step: the master waits for the threads it    *)
(* finds on the list, and a process says that it runs (pf_running) before   *)
(* it has put any thread there.                                            *)

\* Somebody is between reading the global list and changing it, unlocked.
Unlocked(t) == \E u \in Threads \ {t} : pc[u] \in {"seek", "unlink"}

\* A reader of shm_flowop_find_lock, before the thread's flowops exist; then the
\* barrier of shm_run_lock, which holds nobody back once it is open.
TakeFindLock(t) ==
  /\ pc[t] = "start"
  /\ find_lock' = find_lock \cup {t}
  /\ late' = IF looked THEN late \cup {t} ELSE late
  /\ pc' = [pc EXCEPT ![t] = "held"]
  /\ UNCHANGED <<poolVars, listVars, flowop, findVars, privateVars, posVars, cur, res,
                 flowop_lock, runVars, looked>>

CreateLock(t) ==
  /\ pc[t] = "held" /\ flowop_lock = NULL
  /\ flowop_lock' = t
  /\ pc' = [pc EXCEPT ![t] = "create"]
  /\ UNCHANGED <<poolVars, listVars, flowop, findVars, privateVars, posVars, cur, res, find_lock,
                 runVars>>

\* flowop_create_runtime_flowops() goes on to the next inner flowop of the
\* composite, if there is one and this one could be created, or else to the
\* thread's next flowop; after the last one the locks are released.
GoOn(t, created) ==
  IF created /\ jp[t] < Len(Program[t][ip[t]].inner)
  THEN /\ jp' = [jp EXCEPT ![t] = @ + 1]
       /\ UNCHANGED <<ip, pc, lockVars>>
  ELSE /\ jp' = [jp EXCEPT ![t] = 0]
       /\ IF ip[t] < Len(Program[t])
          THEN /\ ip' = [ip EXCEPT ![t] = @ + 1]
               /\ UNCHANGED <<pc, lockVars>>
          ELSE /\ ip' = [ip EXCEPT ![t] = 1]
               /\ pc' = [pc EXCEPT ![t] = "loop"]
               /\ find_lock' = find_lock \ {t} /\ flowop_lock' = NULL

\* The FLOW_MASTER a flowop is made from.
MasterOf(t, op) ==
  CHOOSE m \in 1..Len(Masters) : Masters[m].thread = t /\ Masters[m].name = op.name

\* flowop_define_common(): the new flowop goes to the head of the global list
\* and to the end of its private one.  It is a copy of its FLOW_MASTER, links
\* and all; fo_targets is NULL there, as no FLOW_MASTER is ever executed.
Define(t) ==
  LET s == ipc_malloc
      outer == tf_thrd_fops[t][ip[t]]
      op == IF jp[t] = 0 THEN Program[t][ip[t]] ELSE Program[t][ip[t]].inner[jp[t]]
      list == IF jp[t] = 0 THEN tf_thrd_fops[t] ELSE fo_comp_fops[outer]
  IN  /\ pc[t] = "create" /\ s # NULL
      /\ shm_bitmap' = shm_bitmap \cup {s} /\ shm_lastbitmapindex' = s
      /\ flowop' = [flowop EXCEPT ![s] = Field(op, 1, t, run)]
      /\ fo_next' = [fo_next EXCEPT ![s] = shm_flowoplist] /\ shm_flowoplist' = s
      /\ raced' = raced \cup (IF Unlocked(t) THEN {"list"} ELSE {})
      /\ fo_resultnext' = [fo_resultnext EXCEPT ![s] = fo_resultnext[MasterOf(t, op)]]
      /\ fo_targetnext' = [fo_targetnext EXCEPT ![s] = fo_targetnext[MasterOf(t, op)]]
      /\ fo_targets' = [fo_targets EXCEPT ![s] = NULL]
      /\ fo_exec_next' = [e \in Slots |-> IF e = s THEN NULL
                                          ELSE IF list # <<>> /\ e = list[Len(list)] THEN s
                                          ELSE fo_exec_next[e]]
      /\ tf_thrd_fops' = [tf_thrd_fops EXCEPT ![t] = IF jp[t] = 0 THEN Append(list, s) ELSE @]
      /\ fo_comp_fops' = [e \in Slots |-> IF e = s THEN <<>>
                                          ELSE IF jp[t] # 0 /\ e = outer THEN Append(list, s)
                                          ELSE fo_comp_fops[e]]
      /\ GoOn(t, TRUE)
      /\ UNCHANGED <<cur, res, runVars>>

\* The slots have run out.  Inside a composite flowop_composite_init() fails,
\* which is only logged; at a flowop of the thread, the run is shut down and the
\* reader's lock is kept.
DefineFails(t) ==
  /\ pc[t] = "create" /\ ipc_malloc = NULL
  /\ IF jp[t] # 0 THEN GoOn(t, FALSE) /\ UNCHANGED <<f_abort, failed>>
     ELSE /\ pc' = [pc EXCEPT ![t] = "exited"] /\ f_abort' = TRUE /\ failed' = TRUE
          /\ flowop_lock' = NULL
          /\ UNCHANGED <<posVars, find_lock>>
  /\ UNCHANGED <<poolVars, listVars, flowop, findVars, privateVars, cur, res, procs_running, run>>

-----------------------------------------------------------------------------
(* The loop of flowop_start() and, inside a composite, flowop_composite(). *)

\* The flowop a thread is at.
At(t) == IF jp[t] = 0 THEN tf_thrd_fops[t][ip[t]]
         ELSE fo_comp_fops[tf_thrd_fops[t][ip[t]]][jp[t]]

\* The positions after T go on to their next flowops.
AdvanceAll(T) ==
  LET More(t) == jp[t] # 0 /\ jp[t] < Len(fo_comp_fops[tf_thrd_fops[t][ip[t]]])
  IN  /\ jp' = [t \in Threads |-> IF t \notin T THEN jp[t]
                                  ELSE IF More(t) THEN jp[t] + 1 ELSE 0]
      /\ ip' = [t \in Threads |-> IF t \notin T \/ More(t) THEN ip[t]
                                  ELSE (ip[t] % Len(tf_thrd_fops[t])) + 1]

Calls(t, kind) ==
  /\ pc[t] = "loop" /\ procs_running /\ ~f_abort
  /\ flowop[At(t)].kind = kind

\* flowop_composite() begins a pass, which is over at once without inner flowops.
Composite(t) ==
  /\ Calls(t, "composite")
  /\ IF fo_comp_fops[At(t)] = <<>> THEN AdvanceAll({t})
     ELSE jp' = [jp EXCEPT ![t] = 1] /\ UNCHANGED ip
  /\ UNCHANGED <<poolVars, listVars, flowop, findVars, privateVars, pc, cur, res,
                 lockVars, runVars>>

\* flowoplib_block(): wait on fo_cv, whatever has happened before.
Block(t) ==
  /\ Calls(t, "block")
  /\ pc' = [pc EXCEPT ![t] = "blocked"]
  /\ UNCHANGED <<poolVars, listVars, flowop, findVars, privateVars, posVars, cur, res,
                 lockVars, runVars>>

\* flowoplib_wakeup(): the first call looks its targets up.
Wakeup(t) ==
  /\ Calls(t, "wakeup")
  /\ IF fo_targets[At(t)] = NULL
     THEN pc' = [pc EXCEPT ![t] = "barrier"] /\ UNCHANGED cur
     ELSE pc' = [pc EXCEPT ![t] = "wake"] /\ cur' = [cur EXCEPT ![t] = fo_targets[At(t)]]
  /\ UNCHANGED <<poolVars, listVars, flowop, findVars, privateVars, posVars, res,
                 lockVars, runVars>>

\* As flowop_find_barrier() would be if it did not wait for the readers.
flowop_find_barrierOpen(t) ==
  /\ pc[t] = "barrier"
  /\ pc' = [pc EXCEPT ![t] = "find"]
  /\ looked' = TRUE
  /\ UNCHANGED <<poolVars, listVars, flowop, findVars, privateVars, posVars, cur, res,
                 lockVars, runVars, late>>

\* flowop_find_barrier(): wait until no thread is creating flowops.
flowop_find_barrier(t) ==
  /\ pc[t] = "barrier" /\ find_lock = {}
  /\ pc' = [pc EXCEPT ![t] = "find"]
  /\ looked' = TRUE
  /\ UNCHANGED <<poolVars, listVars, flowop, findVars, privateVars, posVars, cur, res,
                 lockVars, runVars, late>>

FindLock(t) ==
  /\ pc[t] = "find" /\ flowop_lock = NULL
  /\ flowop_lock' = t
  /\ pc' = [pc EXCEPT ![t] = "walk"]
  /\ cur' = [cur EXCEPT ![t] = shm_flowoplist]
  /\ res' = [res EXCEPT ![t] = NULL]
  /\ UNCHANGED <<poolVars, listVars, flowop, findVars, privateVars, posVars, find_lock,
                 runVars>>

\* One turn of the loop of flowop_find(): a match is put before the results.
Walk(t) ==
  LET s == cur[t]
  IN  /\ pc[t] = "walk" /\ s # NULL
      /\ IF flowop[s].name = flowop[At(t)].target
         THEN /\ fo_resultnext' = [fo_resultnext EXCEPT ![s] = res[t]]
              /\ res' = [res EXCEPT ![t] = s]
         ELSE UNCHANGED <<fo_resultnext, res>>
      /\ cur' = [cur EXCEPT ![t] = fo_next[s]]
      /\ UNCHANGED <<poolVars, listVars, flowop, fo_targetnext, fo_targets, privateVars, pc,
                     posVars, lockVars, runVars>>

\* The results become the target list; no result ends the run.
Found(t) ==
  /\ pc[t] = "walk" /\ cur[t] = NULL
  /\ flowop_lock' = NULL
  /\ fo_targets' = [fo_targets EXCEPT ![At(t)] = res[t]]
  /\ IF res[t] = NULL
     THEN pc' = [pc EXCEPT ![t] = "exited"] /\ f_abort' = TRUE /\ failed' = TRUE
     ELSE pc' = [pc EXCEPT ![t] = "copy"] /\ UNCHANGED <<f_abort, failed>>
  /\ cur' = [cur EXCEPT ![t] = res[t]]
  /\ UNCHANGED <<poolVars, listVars, flowop, fo_resultnext, fo_targetnext, privateVars,
                 posVars, res, find_lock, procs_running, run>>

\* Without a lock, each result's link is read,
CopyRead(t) ==
  /\ pc[t] = "copy"
  /\ IF cur[t] = NULL
     THEN /\ pc' = [pc EXCEPT ![t] = "wake"]
          /\ cur' = [cur EXCEPT ![t] = fo_targets[At(t)]]
          /\ UNCHANGED res
     ELSE /\ pc' = [pc EXCEPT ![t] = "store"]
          /\ res' = [res EXCEPT ![t] = fo_resultnext[cur[t]]]
          /\ UNCHANGED cur
  /\ UNCHANGED <<poolVars, listVars, flowop, findVars, privateVars, posVars, lockVars, runVars>>

\* stored as its target link,
CopyStore(t) ==
  /\ pc[t] = "store"
  /\ fo_targetnext' = [fo_targetnext EXCEPT ![cur[t]] = res[t]]
  /\ pc' = [pc EXCEPT ![t] = "follow"]
  /\ UNCHANGED <<poolVars, listVars, flowop, fo_resultnext, fo_targets, privateVars, posVars,
                 cur, res, lockVars, runVars>>

\* and followed, which the compiler may do with the value it has or read again.
CopyFollow(t) ==
  /\ pc[t] = "follow"
  /\ \E next \in {res[t], fo_resultnext[cur[t]]} : cur' = [cur EXCEPT ![t] = next]
  /\ pc' = [pc EXCEPT ![t] = "copy"]
  /\ UNCHANGED <<poolVars, listVars, flowop, findVars, privateVars, posVars, res, lockVars,
                 runVars>>

\* As Broadcast would be if it woke the FLOW_MASTERs and nobody else.
BroadcastMasters(t) ==
  /\ pc[t] = "wake" /\ cur[t] # NULL
  /\ cur' = [cur EXCEPT ![t] = fo_targetnext[cur[t]]]
  /\ UNCHANGED <<poolVars, listVars, flowop, findVars, privateVars, pc, posVars, res,
                 lockVars, runVars>>

\* The next target that is no FLOW_MASTER gets a broadcast.
Broadcast(t) ==
  LET s == cur[t]
      woken == IF flowop[s].instance = FLOW_MASTER THEN {}
               ELSE {u \in Threads : pc[u] = "blocked" /\ At(u) = s}
  IN  /\ pc[t] = "wake" /\ s # NULL
      /\ pc' = [u \in Threads |-> IF u \in woken THEN "loop" ELSE pc[u]]
      /\ AdvanceAll(woken)
      /\ cur' = [cur EXCEPT ![t] = fo_targetnext[s]]
      /\ UNCHANGED <<poolVars, listVars, flowop, findVars, privateVars, res, lockVars, runVars>>

WakeupDone(t) ==
  /\ pc[t] = "wake" /\ cur[t] = NULL
  /\ pc' = [pc EXCEPT ![t] = "loop"]
  /\ AdvanceAll({t})
  /\ UNCHANGED <<poolVars, listVars, flowop, findVars, privateVars, cur, res, lockVars, runVars>>

-----------------------------------------------------------------------------
(* The end of a thread: flowop_destruct_all_flows(), of which only         *)
(* flowop_composite_destruct() changes what is shared.                     *)

Leave(t) ==
  /\ pc[t] = "loop" /\ f_abort
  /\ pc' = [pc EXCEPT ![t] = "destruct"]
  /\ ip' = [ip EXCEPT ![t] = 1] /\ jp' = [jp EXCEPT ![t] = 0]
  /\ UNCHANGED <<poolVars, listVars, flowop, findVars, privateVars, cur, res, lockVars, runVars>>

\* flowop_composite_destruct() of the next flowop, which only a composite has
\* work for; the top-level flowops stay allocated and on the list.
Destruct(t) ==
  LET inner == fo_comp_fops[tf_thrd_fops[t][ip[t]]]
  IN  /\ pc[t] = "destruct"
      /\ IF ip[t] > Len(tf_thrd_fops[t])
         THEN pc' = [pc EXCEPT ![t] = "exited"] /\ UNCHANGED res
         ELSE /\ pc' = [pc EXCEPT ![t] = "inner"]
              /\ res' = [res EXCEPT ![t] = IF inner = <<>> THEN NULL ELSE Head(inner)]
      /\ UNCHANGED <<poolVars, listVars, flowop, findVars, privateVars, posVars, cur, lockVars,
                     runVars>>

\* flowop_delete(): off the private list, where looking for a flowop in an empty
\* list is a crash, and a look at the head of the global list, without
\* shm_flowop_lock.
Delete(t) ==
  LET outer == tf_thrd_fops[t][ip[t]]
      list == fo_comp_fops[outer]
      s == res[t]
  IN  /\ pc[t] = "inner" /\ s # NULL
      /\ IF list = <<>>
         THEN /\ pc' = [pc EXCEPT ![t] = "exited"] /\ failed' = TRUE
              /\ UNCHANGED <<fo_comp_fops, fo_exec_next, cur>>
         ELSE /\ IF s = Head(list)
                 THEN /\ fo_comp_fops' = [fo_comp_fops EXCEPT ![outer] = Tail(list)]
                      /\ UNCHANGED fo_exec_next
                 ELSE /\ fo_comp_fops' = [fo_comp_fops EXCEPT ![outer] =
                                            SelectSeq(list, LAMBDA i : i # s)]
                      /\ fo_exec_next' = [e \in Slots |->
                           IF \E k \in 2..Len(list) : list[k] = s /\ list[k - 1] = e
                           THEN fo_exec_next[s] ELSE fo_exec_next[e]]
              /\ pc' = [pc EXCEPT ![t] = IF shm_flowoplist = s THEN "unlink" ELSE "seek"]
              /\ cur' = [cur EXCEPT ![t] = IF shm_flowoplist = s THEN NULL ELSE shm_flowoplist]
              /\ UNCHANGED failed
      /\ UNCHANGED <<poolVars, listVars, flowop, findVars, tf_thrd_fops, posVars, res, lockVars,
                     f_abort, procs_running, run>>

\* The composite's list is done.
DeletedAll(t) ==
  /\ pc[t] = "inner" /\ res[t] = NULL
  /\ pc' = [pc EXCEPT ![t] = "destruct"]
  /\ ip' = [ip EXCEPT ![t] = @ + 1]
  /\ UNCHANGED <<poolVars, listVars, flowop, findVars, privateVars, jp, cur, res, lockVars,
                 runVars>>

\* One turn of the search; a flowop that is not found is not freed.
Seek(t) ==
  LET n == fo_next[cur[t]]
  IN  /\ pc[t] = "seek"
      /\ pc' = [pc EXCEPT ![t] = IF n = NULL THEN "next"
                                 ELSE IF n = res[t] THEN "unlink" ELSE "seek"]
      /\ cur' = [cur EXCEPT ![t] = IF n = NULL \/ n = res[t] THEN @ ELSE n]
      /\ UNCHANGED <<poolVars, listVars, flowop, findVars, privateVars, posVars, res,
                     lockVars, runVars>>

\* The store that takes it off the list.  The links are read again, and may by
\* now end where a successor was seen.
Unlink(t) ==
  /\ pc[t] = "unlink"
  /\ raced' = raced \cup (IF Unlocked(t) THEN {"list"} ELSE {})
  /\ IF cur[t] = NULL
     THEN shm_flowoplist' = fo_next[res[t]] /\ UNCHANGED fo_next
     ELSE /\ UNCHANGED shm_flowoplist
          /\ IF fo_next[cur[t]] = NULL THEN UNCHANGED fo_next
             ELSE fo_next' = [fo_next EXCEPT ![cur[t]] = fo_next[fo_next[cur[t]]]]
  /\ IF cur[t] # NULL /\ fo_next[cur[t]] = NULL
     THEN pc' = [pc EXCEPT ![t] = "exited"] /\ failed' = TRUE
     ELSE pc' = [pc EXCEPT ![t] = "free"] /\ UNCHANGED failed
  /\ UNCHANGED <<poolVars, flowop, findVars, privateVars, posVars, cur, res, lockVars,
                 f_abort, procs_running, run>>

\* As Free would be if it cleared the entry after the one it was given.
FreeNext(t) ==
  /\ pc[t] = "free"
  /\ shm_bitmap' = shm_bitmap \ {(res[t] + 1) % NSlots}
  /\ pc' = [pc EXCEPT ![t] = "next"]
  /\ UNCHANGED <<shm_lastbitmapindex, listVars, flowop, findVars, privateVars, posVars, cur,
                 res, lockVars, runVars>>

\* ipc_free(): the slot can be allocated again; its fields stay as they are.
Free(t) ==
  /\ pc[t] = "free"
  /\ shm_bitmap' = shm_bitmap \ {res[t]}
  /\ pc' = [pc EXCEPT ![t] = "next"]
  /\ UNCHANGED <<shm_lastbitmapindex, listVars, flowop, findVars, privateVars, posVars, cur,
                 res, lockVars, runVars>>

\* The link to the next one is read from the flowop that has been freed, and may
\* be another thread's by now.
NextInner(t) ==
  /\ pc[t] = "next"
  /\ res' = [res EXCEPT ![t] = fo_exec_next[@]]
  /\ pc' = [pc EXCEPT ![t] = "inner"]
  /\ raced' = raced \cup (IF flowop[res[t]].thread = t THEN {} ELSE {"link"})
  /\ UNCHANGED <<poolVars, shm_flowoplist, fo_next, flowop, findVars, privateVars, posVars,
                 cur, lockVars, runVars>>

-----------------------------------------------------------------------------
(* The master.                                                             *)

\* procflow_allstarted() and threadflow_allstarted(): a thread that does not
\* get to its loop in time is not waited for.
AllStarted ==
  /\ ~procs_running /\ ~f_abort
  /\ procs_running' = TRUE
  /\ UNCHANGED <<poolVars, listVars, flowop, findVars, privateVars, pc, posVars, cur, res,
                 lockVars, f_abort, run, failed>>

\* The run time is over.
Abort ==
  /\ procs_running /\ ~f_abort
  /\ f_abort' = TRUE
  /\ UNCHANGED <<poolVars, listVars, flowop, findVars, privateVars, pc, posVars, cur, res,
                 lockVars, procs_running, run, failed>>

\* procflow_shutdown() kills a process whose thread does not come back.
Kill(t) ==
  /\ f_abort /\ pc[t] \in {"blocked", "barrier"}
  /\ pc' = [pc EXCEPT ![t] = "exited"]
  /\ UNCHANGED <<poolVars, listVars, flowop, findVars, privateVars, posVars, cur, res,
                 lockVars, runVars>>

\* The script's next run command: new threads, from the same FLOW_MASTERs.
NextRun ==
  /\ \A t \in Threads : pc[t] = "exited"
  /\ run < MaxRuns /\ ~failed
  /\ run' = run + 1
  /\ f_abort' = FALSE /\ procs_running' = FALSE
  /\ pc' = [t \in Threads |-> "start"]
  /\ ip' = [t \in Threads |-> 1] /\ jp' = [t \in Threads |-> 0]
  /\ cur' = [t \in Threads |-> NULL] /\ res' = [t \in Threads |-> NULL]
  /\ tf_thrd_fops' = [t \in Threads |-> <<>>]
  /\ looked' = FALSE /\ late' = {}
  /\ UNCHANGED <<poolVars, listVars, flowop, fo_comp_fops, fo_exec_next, findVars, lockVars,
                 failed>>

\* The steps that leave the history of the barrier alone.
Flow(t) ==
  \/ CreateLock(t) \/ Define(t) \/ DefineFails(t)
  \/ Composite(t) \/ Block(t) \/ Wakeup(t)
  \/ FindLock(t) \/ Walk(t) \/ Found(t) \/ CopyRead(t) \/ CopyStore(t) \/ CopyFollow(t)
  \/ Broadcast(t) \/ WakeupDone(t)
  \/ Leave(t) \/ Destruct(t) \/ Delete(t) \/ Seek(t) \/ Unlink(t) \/ Free(t) \/ NextInner(t)
  \/ DeletedAll(t)

Step(t) == \/ TakeFindLock(t) \/ flowop_find_barrier(t)
           \/ Flow(t) /\ UNCHANGED barrierVars

Next ==
  \/ \E t \in Threads : Step(t) \/ (Kill(t) /\ UNCHANGED barrierVars)
  \/ (AllStarted \/ Abort) /\ UNCHANGED barrierVars
  \/ NextRun

Spec == Init /\ [][Next]_vars

\* Threads that can run do, and a shutdown gets to every process that is left.
\* Nothing says that the run time ends.
FairSpec ==
  /\ Spec
  /\ \A t \in Threads : WF_vars(Step(t)) /\ WF_vars(Kill(t) /\ UNCHANGED barrierVars)
  /\ WF_vars(AllStarted /\ UNCHANGED barrierVars)

-----------------------------------------------------------------------------
(* Properties.                                                             *)

\* The first NSlots + 1 nodes of a list.
Chain(head, next) ==
  LET After(s) == IF s = NULL THEN NULL ELSE next[s]
      node[n \in 0..NSlots] == IF n = 0 THEN head ELSE After(node[n - 1])
  IN  node

OnChain(head, next) ==
  LET c == Chain(head, next) IN {c[n] : n \in 0..NSlots} \ {NULL}

\* Off the list and not yet freed.
Leaving == {res[t] : t \in {u \in Threads : pc[u] = "free"}}

\* The global list ends, and holds exactly the flowops that are allocated, as
\* long as no deletion of a composite's inner flowops, which flowop_delete()
\* does without the lock, has met another update of the list.
ListExact ==
  raced = {} =>
    /\ Chain(shm_flowoplist, fo_next)[NSlots] = NULL
    /\ OnChain(shm_flowoplist, fo_next) \cup Leaving = shm_bitmap
    /\ OnChain(shm_flowoplist, fo_next) \cap Leaving = {}

\* The flowops of the threads of this run.
Live ==
  UNION {Range(tf_thrd_fops[t]) \cup UNION {Range(fo_comp_fops[s]) : s \in Range(tf_thrd_fops[t])}
           : t \in {u \in Threads : pc[u] # "exited"}}

\* The list of targets that a wakeup keeps, made of links that all lookups
\* share and copied without a lock, leads to every flowop of that name in every
\* thread that had the find lock before the run's first lookup passed the
\* barrier: the links that other lookups rewrite meanwhile may lead to more
\* flowops than before, but never past one of these.  A late thread's flowops
\* may be missing, for good; and once the run is aborted, composites are taken
\* apart and what is left of the lists no longer matters.
TargetsComplete ==
  \A t \in Threads :
    pc[t] = "wake" /\ raced = {} /\ ~f_abort =>
      {s \in Live : /\ flowop[s].name = flowop[At(t)].target
                    /\ flowop[s].thread \notin late}
        \subseteq OnChain(fo_targets[At(t)], fo_targetnext)

\* The slot of a flowop that a thread still has is never handed out again:
\* every thread's flowops are its own, whatever the unlocked deletions have done
\* to the global list.  The one thing that can break it is the link read from a
\* freed flowop: once that has led a thread out of its composite's list, it may
\* free the flowops of another.
SlotsExclusive ==
  "link" \notin raced =>
    /\ Live \subseteq shm_bitmap
    /\ \A t \in Threads : pc[t] # "exited" =>
         \A s \in Range(tf_thrd_fops[t]) :
           /\ flowop[s].thread = t /\ flowop[s].run = run
           /\ \A i \in Range(fo_comp_fops[s]) : flowop[i].thread = t /\ flowop[i].run = run

\* ipc_malloc() gives up only when at most one slot is free.
FailsOnlyFull == ipc_malloc = NULL => Cardinality(Slots \ shm_bitmap) <= 1

\* A composite of a thread that has created its flowops has all its inner ones.
Complete(t) ==
  pc[t] \notin {"start", "held", "create"} =>
    \A i \in DOMAIN tf_thrd_fops[t] :
      Len(fo_comp_fops[tf_thrd_fops[t][i]]) = Len(Program[t][i].inner)

\* A blocked thread is woken while wakeups go on, although a broadcast that
\* comes before the wait is lost; after an abort its process is killed.  There
\* are two exceptions: a composite whose inner flowops found no slot, since that
\* its creation failed is only logged and the wakeup in it never happens; and a
\* thread that was late, since a wakeup that has kept its targets never looks
\* for them again.
Woken ==
  \A t \in Threads :
    pc[t] = "blocked" ~>
      \/ pc[t] # "blocked" \/ raced # {} \/ t \in late
      \/ \E u \in Threads : ~Complete(u)
=============================================================================
