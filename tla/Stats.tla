------------------------------- MODULE Stats -------------------------------
(***************************************************************************)
(* The statistics of a run: the counters that worker threads keep in       *)
(* flowop_endop() (src/filebench/flowop.c), the commands "stats clear" and *)
(* "stats snap" with which the master zeroes and adds them up (stats.c),   *)
(* and the flowops finishoncount and finishonbytes, which end a run by     *)
(* them (flowop_library.c).                                                *)
(*                                                                         *)
(* Every thread has an I/O flowop, which it runs Iters times in a row, and *)
(* then a finishoncount or finishonbytes.  An operation transfers one unit *)
(* of bytes, and fs_count stands for all the counters of a flowop.  It is  *)
(* written by its thread and cleared by the master without a lock: an      *)
(* increment is a read and a write.  The I/O flowops of all threads have   *)
(* the same name, and so one FLOW_MASTER, to which a snapshot adds them.   *)
(***************************************************************************)
EXTENDS Integers, FiniteSetsExt, Sums

CONSTANTS
  NThreads,   \* threads are numbered in the order their flowops were created
  Proc,       \* the process of each thread
  Iters,      \* fo_iters of each thread's I/O flowop
  Composites, \* threads whose I/O flowop is inside a composite flowop
  Kinds,      \* see kind
  Limit,      \* the value of the finish flowops
  Fails,      \* whether an I/O may fail
  MaxCmds     \* bound: stats commands of the script that are not refused

Threads == 1..NThreads

ASSUME StatsAssumption ==
  /\ NThreads \in Nat \ {0} /\ Iters \in [Threads -> Nat \ {0}]
  /\ DOMAIN Proc = Threads /\ Composites \subseteq Threads
  /\ Kinds \subseteq [by : {"count", "bytes"}, targeted : SUBSET Threads]
  /\ Limit \in Nat /\ Fails \in BOOLEAN /\ MaxCmds \in Nat

VARIABLES
  kind,           \* whether the threads have a finishoncount or a finishonbytes, and those
                  \* that give it the I/O flowop as its target
  pc, left,       \* each thread's place, and the iterations it still has to do
  reg,            \* the counter a thread has read and not yet written, or the value to judge
  fo_stats,       \* the counter of each thread's I/O flowop
  deleted,        \* threads whose I/O flowop has been deleted
  controlstats,   \* the counters of each process
  shm_f_abort, shm_bequiet,
  mpc, cursor,    \* the master's place, and the flowop it has come to
  globalstats,    \* the I/O counter of the totals, -1 before the first clear
  master,         \* the counter of the FLOW_MASTER flowop
  cmds,           \* commands so far
  since,          \* operations each flowop has counted since it was cleared
  atSnap,         \* since at the beginning of the snapshot
  low, high,      \* what the snapshots since the last clear may and must report
  hit             \* threads that were cleared in the middle of an increment

threadVars == <<kind, pc, left, reg, deleted, controlstats>>
ghosts == <<since, atSnap, low, high, hit>>
vars == <<threadVars, fo_stats, shm_f_abort, shm_bequiet, mpc, cursor, globalstats, master,
          cmds, ghosts>>

Zero == [count |-> 0, bytes |-> 0]

Init ==
  /\ kind \in Kinds
  /\ pc = [t \in Threads |-> "top"] /\ left = Iters
  /\ reg = [t \in Threads |-> 0]
  /\ fo_stats = [t \in Threads |-> 0] /\ deleted = {}
  /\ controlstats = [p \in {Proc[t] : t \in Threads} |-> Zero]
  /\ shm_f_abort = "no" /\ shm_bequiet = FALSE
  /\ mpc = "idle" /\ cursor = 0
  /\ globalstats = -1 /\ master = 0 /\ cmds = 0
  /\ since = [t \in Threads |-> 0] /\ atSnap = since
  /\ low = 0 /\ high = 0 /\ hit = {}

masterVars == <<shm_bequiet, mpc, cursor, globalstats, master, cmds, atSnap, low, high>>

-----------------------------------------------------------------------------
(* Worker threads: the loop of flowop_start().                             *)

Goto(t, place) == pc' = [pc EXCEPT ![t] = place]

\* As Quiet would be if shm_bequiet were not looked at.
QuietNever == FALSE

\* Between flowops a thread sleeps as long as statistics are gathered.
Quiet == shm_bequiet

\* The top of the loop: left is 0 when the finish flowop is next.
Top(t) ==
  /\ pc[t] = "top"
  /\ \/ shm_f_abort # "no" /\ Goto(t, "leave")
     \/ /\ shm_f_abort = "no" /\ ~Quiet
        /\ Goto(t, IF left[t] = 0 THEN "finish"
                   ELSE IF t \in Composites THEN "composite" ELSE "io")
  /\ UNCHANGED <<kind, left, reg, deleted, controlstats, fo_stats, shm_f_abort, masterVars, since, hit>>

\* A flowop has returned other than OK.
Abort(t, why) == shm_f_abort' = why /\ Goto(t, "leave")

\* flowop_composite() looks at the flag once more, before its inner flowop.
Composite(t) ==
  /\ pc[t] = "composite"
  /\ IF shm_f_abort # "no" THEN Abort(t, "done") ELSE Goto(t, "io") /\ UNCHANGED shm_f_abort
  /\ UNCHANGED <<kind, left, reg, deleted, controlstats, fo_stats, masterVars, since, hit>>

\* The I/O, and flowop_endop() up to the read of fs_count.
Io(t) ==
  /\ pc[t] = "io"
  /\ \/ /\ Goto(t, "endop")
        /\ reg' = [reg EXCEPT ![t] = fo_stats[t]]
        /\ UNCHANGED shm_f_abort
     \/ /\ Fails
        /\ Abort(t, "error")
        /\ UNCHANGED reg
  /\ UNCHANGED <<kind, left, deleted, controlstats, fo_stats, masterVars, since, hit>>

\* The rest of flowop_endop(): fs_count++ and the counters of the process, which
\* a lock protects.  The thread goes on with the next iteration or the next
\* flowop.
Count(t) ==
  /\ pc[t] = "endop"
  /\ fo_stats' = [fo_stats EXCEPT ![t] = reg[t] + 1]
  /\ since' = [since EXCEPT ![t] = @ + 1]
  /\ controlstats' = [controlstats EXCEPT ![Proc[t]] = [count |-> @.count + 1,
                                                         bytes |-> @.bytes + 1]]
  /\ left' = [left EXCEPT ![t] = @ - 1] /\ reg' = [reg EXCEPT ![t] = 0]
  /\ Goto(t, IF left[t] > 1 THEN "io" ELSE "top")
  /\ UNCHANGED <<kind, deleted, shm_f_abort, masterVars, hit>>

\* flowoplib_finishoncount() and flowoplib_finishonbytes(): the counter of the
\* target, or of the process.
FinishRead(t) ==
  /\ pc[t] = "finish"
  /\ reg' = [reg EXCEPT ![t] =
               IF t \in kind.targeted THEN fo_stats[t] ELSE controlstats[Proc[t]][kind.by]]
  /\ Goto(t, "judge")
  /\ UNCHANGED <<kind, left, deleted, controlstats, fo_stats, shm_f_abort, masterVars, since, hit>>

\* As Enough() would be if it compared for equality.
EnoughEqual(value) == value = Limit

\* finishoncount stops at the limit, finishonbytes beyond it.
Enough(value) == IF kind.by = "count" THEN value >= Limit ELSE value > Limit

\* The finish flowop ends as an operation of its own.  Its type, FLOW_TYPE_OTHER,
\* is 5 and has the bit of FLOW_TYPE_IO: the process counts it as an I/O.
FinishJudge(t) ==
  /\ pc[t] = "judge"
  /\ controlstats' = [controlstats EXCEPT ![Proc[t]].count = @ + 1]
  /\ IF Enough(reg[t]) THEN Abort(t, "done") ELSE Goto(t, "top") /\ UNCHANGED shm_f_abort
  /\ left' = [left EXCEPT ![t] = Iters[t]] /\ reg' = [reg EXCEPT ![t] = 0]
  /\ UNCHANGED <<kind, deleted, fo_stats, masterVars, since, hit>>

\* flowop_destruct_all_flows(): a composite deletes its inner flowops, and their
\* statistics with them.
Leave(t) ==
  /\ pc[t] = "leave"
  /\ Goto(t, "left")
  /\ deleted' = IF t \in Composites THEN deleted \cup {t} ELSE deleted
  /\ UNCHANGED <<kind, left, reg, controlstats, fo_stats, shm_f_abort, masterVars, since, hit>>

Thread(t) ==
  \/ Top(t) \/ Composite(t) \/ Io(t) \/ Count(t)
  \/ FinishRead(t) \/ FinishJudge(t) \/ Leave(t)

-----------------------------------------------------------------------------
(* The master: the stats commands, each of which walks the global list of  *)
(* flowops, the latest first and the FLOW_MASTER, 0, last.                 *)

NextFlowop(c) == Max({0} \cup {t \in 1..(c - 1) : t \notin deleted})

First == NextFlowop(NThreads + 1)

Command == mpc = "idle" /\ cmds < MaxCmds /\ cmds' = cmds + 1

\* stats_clear(): the totals, and then every flowop.
Clear ==
  /\ Command
  /\ globalstats' = 0 /\ low' = 0 /\ high' = 0
  /\ mpc' = "clear" /\ cursor' = First
  /\ UNCHANGED <<threadVars, fo_stats, shm_f_abort, shm_bequiet, master, since, atSnap, hit>>

\* A thread that has read its counter and not yet written it brings the old
\* value back.
ClearFlowop ==
  /\ mpc = "clear" /\ cursor > 0
  /\ fo_stats' = [fo_stats EXCEPT ![cursor] = 0]
  /\ since' = [since EXCEPT ![cursor] = 0]
  /\ hit' = IF pc[cursor] = "endop" THEN hit \cup {cursor} ELSE hit \ {cursor}
  /\ cursor' = NextFlowop(cursor)
  /\ UNCHANGED <<threadVars, shm_f_abort, shm_bequiet, mpc, globalstats, master, cmds, atSnap,
                 low, high>>

\* As ClearMaster would be if the walk left the FLOW_MASTER flowops out.
ClearMasterNot ==
  /\ mpc = "clear" /\ cursor = 0
  /\ mpc' = "idle"
  /\ UNCHANGED <<threadVars, fo_stats, shm_f_abort, shm_bequiet, cursor, globalstats, master, cmds,
                 ghosts>>

\* The FLOW_MASTER flowop is the last of the list.
ClearMaster ==
  /\ mpc = "clear" /\ cursor = 0
  /\ master' = 0
  /\ mpc' = "idle"
  /\ UNCHANGED <<threadVars, fo_stats, shm_f_abort, shm_bequiet, cursor, globalstats, cmds,
                 ghosts>>

\* stats_snap() returns at once if there are no totals or the run has failed.
SnapRefused ==
  /\ mpc = "idle" /\ (globalstats = -1 \/ shm_f_abort = "error")
  /\ UNCHANGED vars

\* Otherwise it tells the threads to be quiet, and does not wait until they are.
Snap ==
  /\ Command
  /\ globalstats # -1 /\ shm_f_abort # "error"
  /\ shm_bequiet' = TRUE
  /\ mpc' = "snap" /\ cursor' = First
  /\ atSnap' = since
  /\ UNCHANGED <<threadVars, fo_stats, shm_f_abort, globalstats, master, since, low, high, hit>>

\* A flowop is added to the totals,
SnapFlowop ==
  /\ mpc = "snap" /\ cursor > 0
  /\ globalstats' = globalstats + fo_stats[cursor]
  /\ mpc' = "roll"
  /\ UNCHANGED <<threadVars, fo_stats, shm_f_abort, shm_bequiet, cursor, master, cmds, ghosts>>

\* and then to its FLOW_MASTER.
SnapMaster ==
  /\ mpc = "roll"
  /\ master' = master + fo_stats[cursor]
  /\ mpc' = "snap" /\ cursor' = NextFlowop(cursor)
  /\ UNCHANGED <<threadVars, fo_stats, shm_f_abort, shm_bequiet, globalstats, cmds, ghosts>>

\* As Resume would be if the flag were left set.
ResumeNever == UNCHANGED shm_bequiet

\* Operation is allowed to go on.
Resume == shm_bequiet' = FALSE

\* The snapshot prints the totals and the FLOW_MASTER, and lets the threads go on.
SnapEnd ==
  /\ mpc = "snap" /\ cursor = 0
  /\ Resume
  /\ mpc' = "idle"
  /\ low' = low + Total(atSnap, Threads \ deleted)
  /\ high' = high + Total(since, Threads)
  /\ atSnap' = [t \in Threads |-> 0]
  /\ UNCHANGED <<threadVars, fo_stats, shm_f_abort, cursor, globalstats, master, cmds, since,
                 hit>>

Walk == ClearFlowop \/ ClearMaster \/ SnapFlowop \/ SnapMaster \/ SnapEnd

Next == Clear \/ SnapRefused \/ Snap \/ Walk \/ \E t \in Threads : Thread(t)

Spec == Init /\ [][Next]_vars

\* Threads run, and so does the master within a command; it may never issue one.
FairSpec == Spec /\ WF_vars(Walk) /\ \A t \in Threads : WF_vars(Thread(t))

-----------------------------------------------------------------------------
(* Properties.                                                             *)

\* What the snapshots since the last clear have printed, as totals and for the
\* flowop's name, is at least what the flowops that are still there had counted
\* when each snapshot began, and at most what had been counted when it ended:
\* no operation is left out and none counts twice in a snapshot, though threads
\* go on counting.  (A second snapshot adds to the first.)  Only a clear in the
\* middle of an increment may bring operations from before it back.
ReportBounded ==
  mpc = "idle" /\ globalstats # -1 =>
    /\ low <= globalstats /\ low <= master
    /\ hit = {} => globalstats <= high /\ master <= high

\* "Freeze statistics during update" (stats.c): the snapshot does not wait for
\* the threads, but each of them counts no more operations meanwhile than the
\* iterations of the flowop it is in.
FreezeHolds ==
  mpc \in {"snap", "roll"} => \A t \in Threads : since[t] - atSnap[t] <= Iters[t]

\* A finishoncount or finishonbytes without target stops its process in time:
\* after the limit is reached every thread completes at most the I/O flowop it
\* is in.
FinishBounded ==
  \A p \in DOMAIN controlstats :
    LET own == {t \in Threads : Proc[t] = p}
    IN  own \cap kind.targeted = {} =>
          controlstats[p].bytes <= Limit + Total(Iters, own)

\* A run with a finishoncount or finishonbytes ends: neither snapshots that
\* hold the threads up, nor clears that take the counters back, nor other
\* threads that carry a counter past the limit keep it going.
Finishes == <>(\A t \in Threads : pc[t] = "left")
=============================================================================
