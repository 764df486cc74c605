------------------------------ MODULE Limiter ------------------------------
(***************************************************************************)
(* The event generator of src/filebench/eventgen.c and the rate limiting   *)
(* flowops of flowop_library.c: eventlimit, iopslimit, opslimit, bwlimit.  *)
(*                                                                         *)
(* A thread l does some work, which its I/O flowops count in               *)
(* flowop_endop(), and then calls its limiter, over and over.  A limiter   *)
(* with a target watches the counter of a flowop of its own thread, one    *)
(* without watches the counter of its process, controlstats.  Counters and *)
(* fo_tputbucket are integers here: the 64-bit differences of the code     *)
(* come to the same as long as the counters stay below 2^63.               *)
(***************************************************************************)
EXTENDS Integers

CONSTANTS
  Limiters,    \* threads, each with a limiter
  Scripts,     \* the limiters the threads may have, see LimitKind
  Targeted,    \* those whose limiter names a target
  MB,          \* units of work, bytes, that an event pays for in bwlimit
  Sizes,       \* units of work a thread may do between two calls
  Rate,        \* shm_eventgen_hz, events per second
  Counts,      \* events that may have come due when the generator wakes up
  Wrap,        \* 2^64, the values shm_eventgen_q can take
  MaxWork,     \* bound: units of work of a thread
  NULL         \* nobody

\* flowoplib_eventlimit(), _iopslimit() or _opslimit(), _bwlimit().
LimitKind == {"event", "ops", "bw"}

ASSUME LimiterAssumption ==
  /\ Scripts \subseteq [Limiters -> LimitKind]
  /\ Targeted \subseteq Limiters
  /\ MB \in Nat \ {0}
  /\ Sizes \subseteq Nat
  /\ Rate \in Nat \ {0}
  /\ Counts \subseteq Nat
  /\ MaxWork \in Nat
  /\ Wrap \in Nat \ {0}
  /\ NULL \notin Limiters
  /\ \A n \in Counts : 5 * Rate + n <= Wrap

\* Five seconds' worth of events: no more are added to as many.
Depth == 5 * Rate

VARIABLES
  kind,              \* the kind of limiter each thread has, which never changes
  eventgen_q,        \* shm_eventgen_q
  eventgen_enabled,  \* shm_eventgen_enabled
  eventgen_lock,     \* the limiter that holds shm_eventgen_lock, about to take events
  pc,                \* each thread
  count,             \* fo_stats of the target of each limiter
  control,           \* controlstats
  tputlast,          \* fo_tputlast of each limiter
  tputbucket,        \* fo_tputbucket of each limiter
  master,            \* what parser_run() has reset: nothing, the queue, the statistics
  posted,            \* history: events that were added to the queue
  spent,             \* history: events that were taken from it
  dropped,           \* history: events cleared away by eventgen_reset()
  hit,               \* history: the queue was cleared in the midst of a taking
  taken,             \* history: events each limiter has taken
  worked,            \* history: units of work done by each thread
  mark,              \* history: work to be paid for at the latest call of each limiter
  free,              \* history: work that each limiter has never charged
  settled            \* history: limiters called since the statistics were cleared

genVars == <<kind, eventgen_q, eventgen_enabled, eventgen_lock, posted, spent, dropped, hit>>
threadVars == <<pc, count, control, tputlast, tputbucket, taken, worked, mark, free, settled>>
vars == <<genVars, threadVars, master>>

\* Types of all variables.
TypeOK ==
  /\ kind \in [Limiters -> LimitKind]
  /\ eventgen_q \in 0..(Wrap - 1)
  /\ eventgen_enabled \in BOOLEAN
  /\ eventgen_lock \in Limiters \cup {NULL}
  /\ pc \in [Limiters -> {"work", "call", "wait", "asleep", "take"}]
  /\ count \in [Limiters -> Nat]
  /\ control \in Nat
  /\ tputlast \in [Limiters -> Nat]
  /\ tputbucket \in [Limiters -> Int]
  /\ master \in {"start", "reset", "cleared"}
  /\ {posted, spent, dropped} \subseteq Nat
  /\ hit \in BOOLEAN
  /\ taken \in [Limiters -> Nat]
  /\ worked \in [Limiters -> Nat]
  /\ mark \in [Limiters -> Nat]
  /\ free \in [Limiters -> Int]
  /\ settled \subseteq Limiters

\* The threads have been started, and the master has yet to reset the counters.
\* If the script sets a rate the generator, which looks for one every second, has
\* seen it before procflow_allstarted() lets the threads go.
Init ==
  /\ eventgen_q = 0
  /\ eventgen_enabled \in BOOLEAN
  /\ kind \in Scripts
  /\ eventgen_lock = NULL
  /\ pc = [l \in Limiters |-> "work"]
  /\ count = [l \in Limiters |-> 0]
  /\ control = 0
  /\ tputlast = [l \in Limiters |-> 0]
  /\ tputbucket = [l \in Limiters |-> 0]
  /\ master = "start"
  /\ posted = 0 /\ spent = 0 /\ dropped = 0
  /\ hit = FALSE
  /\ taken = [l \in Limiters |-> 0]
  /\ worked = [l \in Limiters |-> 0]
  /\ mark = [l \in Limiters |-> 0]
  /\ free = [l \in Limiters |-> 0]
  /\ settled = {}

\* The counter l reads, and what it would be had it never been cleared.
Counter(l) == IF l \in Targeted THEN count[l] ELSE control
Total(l) == IF l \in Targeted THEN worked[l] ELSE control

\* Events needed to pay for what is overdrawn.
Events(l) ==
  CASE kind[l] = "event" -> 1
    [] kind[l] = "ops"   -> -tputbucket[l]
    [] kind[l] = "bw"    -> (-tputbucket[l]) \div MB + 1

\* What an event pays for.
Unit(l) == IF kind[l] = "bw" THEN MB ELSE 1

-----------------------------------------------------------------------------
(* eventgen_thread(), and what the master resets when a run begins.        *)

\* n events are added, unless there are five seconds' worth already.
Add(n) ==
  IF eventgen_q < Depth
  THEN eventgen_q' = eventgen_q + n /\ posted' = posted + n
  ELSE UNCHANGED <<eventgen_q, posted>>

\* Plausible slip: no signal if the queue is full.
SignalIfAdded ==
  IF eventgen_q < Depth /\ \E l \in Limiters : pc[l] = "asleep"
  THEN \E l \in Limiters : pc[l] = "asleep" /\ pc' = [pc EXCEPT ![l] = "wait"]
  ELSE UNCHANGED pc

\* pthread_cond_signal(): one waiter, if there is one, whatever it waits for.
Signal ==
  IF \E l \in Limiters : pc[l] = "asleep"
  THEN \E l \in Limiters : pc[l] = "asleep" /\ pc' = [pc EXCEPT ![l] = "wait"]
  ELSE UNCHANGED pc

Generate ==
  /\ eventgen_enabled
  /\ eventgen_lock = NULL
  /\ \E n \in Counts : Add(n)
  /\ Signal
  /\ UNCHANGED <<kind, eventgen_enabled, eventgen_lock, spent, dropped, hit, count, control,
                 tputlast, tputbucket, taken, worked, mark, free, settled, master>>

\* eventgen_reset() stores 0 without the lock.  The store falls before or after
\* the update of the lock's holder, or between its load and its store, and is
\* lost: a limiter's, which is a step of its own here, or the generator's.
Reset ==
  /\ master = "start"
  /\ master' = "reset"
  /\ \/ /\ eventgen_q' = 0
        /\ dropped' = dropped + eventgen_q
        /\ hit' = (eventgen_lock # NULL)
     \/ UNCHANGED <<eventgen_q, dropped, hit>>
  /\ UNCHANGED <<kind, eventgen_enabled, eventgen_lock, posted, spent, threadVars>>

\* stats_clear() clears the counters of the flowops, not controlstats.  One that
\* its thread is just counting up may keep its value.
StatsClear ==
  /\ master = "reset"
  /\ master' = "cleared"
  /\ \E kept \in SUBSET {l \in Limiters : pc[l] = "work"} :
       count' = [l \in Limiters |-> IF l \in kept THEN count[l] ELSE 0]
  /\ UNCHANGED <<genVars, pc, control, tputlast, tputbucket, taken, worked, mark, free, settled>>

-----------------------------------------------------------------------------
(* A thread.                                                               *)

restOfThread == <<kind, eventgen_enabled, posted, dropped, hit, master>>

\* The other flowops of a turn, each counted by flowop_endop().
Work(l) ==
  /\ pc[l] = "work"
  /\ \E n \in Sizes :
       /\ worked[l] + n <= MaxWork
       /\ worked' = [worked EXCEPT ![l] = @ + n]
       /\ count' = [count EXCEPT ![l] = @ + n]
       /\ control' = control + n
  /\ pc' = [pc EXCEPT ![l] = "call"]
  /\ UNCHANGED <<genVars, tputlast, tputbucket, taken, mark, free, settled, master>>

\* "Immediately bail if not set/enabled".
Bail(l) ==
  /\ pc[l] = "call"
  /\ ~eventgen_enabled
  /\ pc' = [pc EXCEPT ![l] = "work"]
  /\ UNCHANGED <<genVars, count, control, tputlast, tputbucket, taken, worked, mark, free,
                 settled, master>>

CallEvent(l) ==
  /\ pc[l] = "call"
  /\ eventgen_enabled
  /\ kind[l] = "event"
  /\ pc' = [pc EXCEPT ![l] = "wait"]
  /\ UNCHANGED <<genVars, count, control, tputlast, tputbucket, taken, worked, mark, free,
                 settled, master>>

\* What both kinds of calls leave behind.
Called(l) ==
  /\ tputlast' = [tputlast EXCEPT ![l] = Counter(l)]
  /\ mark' = [mark EXCEPT ![l] = Total(l)]
  /\ settled' = IF master = "cleared" /\ Counter(l) # 0 THEN settled \cup {l} ELSE settled
  /\ UNCHANGED <<genVars, count, control, taken, worked, master>>

\* Plausible slip: it is the bucket that is taken to tell the first time.
CallFirstByBucket(l) ==
  /\ pc[l] = "call"
  /\ eventgen_enabled
  /\ kind[l] # "event"
  /\ tputbucket[l] = 0
  /\ pc' = [pc EXCEPT ![l] = "work"]
  /\ free' = [free EXCEPT ![l] = @ + Total(l) - mark[l]]
  /\ Called(l)
  /\ UNCHANGED tputbucket

\* "Is this the first time around": fo_tputlast is 0, nothing is charged.
CallFirst(l) ==
  /\ pc[l] = "call"
  /\ eventgen_enabled
  /\ kind[l] # "event"
  /\ tputlast[l] = 0
  /\ pc' = [pc EXCEPT ![l] = "work"]
  /\ free' = [free EXCEPT ![l] = @ + Total(l) - mark[l]]
  /\ Called(l)
  /\ UNCHANGED tputbucket

\* What has been counted since is charged; wait if that overdraws the bucket.
Call(l) ==
  /\ pc[l] = "call"
  /\ eventgen_enabled
  /\ kind[l] # "event"
  /\ tputlast[l] # 0
  /\ LET delta == Counter(l) - tputlast[l] IN
       /\ tputbucket' = [tputbucket EXCEPT ![l] = @ - delta]
       /\ free' = [free EXCEPT ![l] = @ + (Total(l) - mark[l]) - delta]
       /\ pc' = [pc EXCEPT ![l] = IF tputbucket[l] - delta >= 0 THEN "work" ELSE "wait"]
  /\ Called(l)

\* Not enough events: pthread_cond_wait().
Sleep(l) ==
  /\ pc[l] = "wait"
  /\ eventgen_lock = NULL
  /\ eventgen_q < Events(l)
  /\ pc' = [pc EXCEPT ![l] = "asleep"]
  /\ UNCHANGED <<genVars, count, control, tputlast, tputbucket, taken, worked, mark, free,
                 settled, master>>

\* Plausible slip: the lock is given up between the test and the taking.
TestUnlocks(l) ==
  /\ pc[l] = "wait"
  /\ eventgen_lock = NULL
  /\ eventgen_q >= Events(l)
  /\ pc' = [pc EXCEPT ![l] = "take"]
  /\ UNCHANGED <<genVars, count, control, tputlast, tputbucket, taken, worked, mark, free,
                 settled, master>>

\* Enough: the lock is kept.
Test(l) ==
  /\ pc[l] = "wait"
  /\ eventgen_lock = NULL
  /\ eventgen_q >= Events(l)
  /\ eventgen_lock' = l
  /\ pc' = [pc EXCEPT ![l] = "take"]
  /\ UNCHANGED <<eventgen_q, spent, count, control, tputlast, tputbucket, taken, worked, mark,
                 free, settled, restOfThread>>

\* Plausible slip: the megabytes of all events but the one for the rest.
PayShort(l) ==
  tputbucket' =
    [tputbucket EXCEPT ![l] = IF kind[l] = "bw" THEN @ + MB * ((-@) \div MB) ELSE @ + Events(l)]

\* The bucket gets what the events pay for; eventlimit has none.
Pay(l) ==
  IF kind[l] = "event" THEN UNCHANGED tputbucket
  ELSE tputbucket' = [tputbucket EXCEPT ![l] = @ + Unit(l) * Events(l)]

\* Take the events, unlock, and return.
Take(l) ==
  /\ pc[l] = "take"
  /\ eventgen_q' = (eventgen_q - Events(l)) % Wrap
  /\ spent' = spent + Events(l)
  /\ taken' = [taken EXCEPT ![l] = @ + Events(l)]
  /\ Pay(l)
  /\ eventgen_lock' = NULL
  /\ pc' = [pc EXCEPT ![l] = "work"]
  /\ UNCHANGED <<count, control, tputlast, worked, mark, free, settled, restOfThread>>

-----------------------------------------------------------------------------
Thread(l) ==
  Work(l) \/ Bail(l) \/ CallEvent(l) \/ CallFirst(l) \/ Call(l) \/ Sleep(l) \/ Test(l) \/ Take(l)

Next ==
  \/ Generate \/ Reset \/ StatsClear
  \/ \E l \in Limiters : Thread(l)

Spec == Init /\ [][Next]_vars

\* l is the waiter that is signalled.
Wakes(l) == Generate /\ pc[l] = "asleep" /\ pc'[l] = "wait"

\* The generator and the threads are scheduled, events come due, those blocked
\* on shm_eventgen_lock get it, and the waiters are signalled in turn.  Whether
\* the threads do any more work, or the master resets anything, is left open.
FairSpec ==
  /\ Spec
  /\ WF_vars(Generate /\ (eventgen_q < Depth => eventgen_q' > eventgen_q))
  /\ \A l \in Limiters :
       /\ SF_vars(Wakes(l))
       /\ SF_vars(Sleep(l) \/ Test(l))
       /\ WF_vars(Bail(l) \/ CallEvent(l) \/ CallFirst(l) \/ Call(l) \/ Take(l))

-----------------------------------------------------------------------------
(* Properties.                                                             *)

\* Work that l has charged.
Charged(l) == mark[l] - free[l]

\* What limits the rate: whenever a limiter has let its thread go on, the events
\* it has taken pay for all it has charged, and until stats_clear() comes in
\* between they pay for no more than one event's worth beyond that.
Paid ==
  \A l \in Limiters :
    kind[l] # "event" /\ pc[l] \in {"work", "call"} =>
      /\ Charged(l) <= Unit(l) * taken[l]
      /\ master # "cleared" => Unit(l) * taken[l] <= Charged(l) + Unit(l)

\* Once the counters have been cleared and a limiter has read one that is not 0,
\* it charges all the work its counter covers.
AllCharged == [][\A l \in settled : free'[l] = free[l]]_vars

\* Events are taken once and never made up: the queue holds what was added and
\* neither taken nor cleared, unless it was cleared in the midst of a taking.
EventsConserved == ~hit => posted = eventgen_q + spent + dropped

\* A limiter that waits for no more events than the queue is sure to hold comes
\* back when the others leave it any, although a single waiter is signalled for
\* each turn of the generator and that one may not be able to go on.
Served ==
  \A l \in Limiters :
    pc[l] \in {"wait", "asleep"} /\ Events(l) <= Depth ~> pc[l] = "work"
=============================================================================
