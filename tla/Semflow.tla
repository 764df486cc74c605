------------------------------ MODULE Semflow ------------------------------
(***************************************************************************)
(* The semaphore flowops semblock and sempost of flowop_library.c, on       *)
(* System V semaphores with semtimedop().                                  *)
(*                                                                         *)
(* A semblock flowop b has two semaphores.  lw counts what has been posted *)
(* to it.  hw counts what may yet be posted by a sempost with the          *)
(* "blocking" attribute: it starts at the high-water mark, is raised by    *)
(* every semblock and lowered by every such sempost.  Each flowop belongs  *)
(* to one thread, which executes it over and over; fo_lock is taken by      *)
(* that thread only, and fo_targets of a sempost are all semblocks.        *)
(***************************************************************************)
EXTENDS Integers

CONSTANTS
  NBlockers,     \* semblock flowops, 1..NBlockers in the order of fo_targets
  Posters,       \* sempost flowops
  Blocking,      \* those with fo_blocking
  HighWater,     \* fo_highwater of the semblocks
  BlockValue,    \* fo_value of the semblocks
  PostValue,     \* fo_value of the semposts
  SemMax,        \* SEMVMX, the largest value of a semaphore
  MaxMissed,     \* bound: semblocks that time out, for each of them
  MaxExtra       \* bound: posts to a semblock with which no free post is begun

ASSUME SemflowAssumption ==
  /\ NBlockers \in Nat \ {0}
  /\ Blocking \subseteq Posters
  /\ HighWater \in Nat
  /\ BlockValue \in Nat \ {0}
  /\ PostValue \in Nat \ {0}
  /\ SemMax \in Nat
  /\ HighWater <= SemMax
  /\ MaxMissed \in Nat
  /\ MaxExtra \in Nat

Blockers == 1..NBlockers

VARIABLES
  lw,        \* semaphore fo_semid_lw of each semblock
  hw,        \* semaphore fo_semid_hw of each semblock
  bpc,       \* each semblock
  next,      \* the target each sempost posts to next; 0 between executions
  f_abort,   \* a sempost has failed, the run is to end
  missed,    \* history: semblocks that timed out
  extra,     \* history: posts by semposts that do not block
  lost       \* history: raises of hw refused because hw was at its maximum

vars == <<lw, hw, bpc, next, f_abort, missed, extra, lost>>

\* Types of all variables; semaphores stay within their range.
TypeOK ==
  /\ lw \in [Blockers -> 0..SemMax]
  /\ hw \in [Blockers -> 0..SemMax]
  /\ bpc \in [Blockers -> {"idle", "take"}]
  /\ next \in [Posters -> 0..NBlockers]
  /\ f_abort \in BOOLEAN
  /\ missed \in [Blockers -> Nat]
  /\ extra \in [Blockers -> Nat]
  /\ lost \in [Blockers -> Nat]

\* flowoplib_semblock_init() has posted the high-water mark.
Init ==
  /\ lw = [b \in Blockers |-> 0]
  /\ hw = [b \in Blockers |-> HighWater]
  /\ bpc = [b \in Blockers |-> "idle"]
  /\ next = [p \in Posters |-> 0]
  /\ f_abort = FALSE
  /\ missed = [b \in Blockers |-> 0]
  /\ extra = [b \in Blockers |-> 0]
  /\ lost = [b \in Blockers |-> 0]

-----------------------------------------------------------------------------
(* flowoplib_semblock()                                                    *)

\* Plausible slip: hw is raised once the semaphore has been passed, not before.
RaiseLater(b) ==
  /\ ~f_abort
  /\ bpc[b] = "idle"
  /\ bpc' = [bpc EXCEPT ![b] = "take"]
  /\ UNCHANGED <<lw, hw, next, f_abort, missed, extra, lost>>

\* The first semtimedop() raises hw; if it is refused, nobody notices.
Raise(b) ==
  /\ ~f_abort
  /\ bpc[b] = "idle"
  /\ bpc' = [bpc EXCEPT ![b] = "take"]
  /\ IF hw[b] + BlockValue <= SemMax
     THEN hw' = [hw EXCEPT ![b] = @ + BlockValue] /\ UNCHANGED lost
     ELSE lost' = [lost EXCEPT ![b] = @ + 1] /\ UNCHANGED hw
  /\ UNCHANGED <<lw, next, f_abort, missed, extra>>

\* The second one passes lw.
Take(b) ==
  /\ bpc[b] = "take"
  /\ lw[b] >= BlockValue
  /\ lw' = [lw EXCEPT ![b] = @ - BlockValue]
  /\ bpc' = [bpc EXCEPT ![b] = "idle"]
  /\ UNCHANGED <<hw, next, f_abort, missed, extra, lost>>

\* It times out, and the flowop returns FILEBENCH_OK all the same.
TakeTimesOut(b) ==
  /\ bpc[b] = "take"
  /\ lw[b] < BlockValue
  /\ missed[b] < MaxMissed
  /\ missed' = [missed EXCEPT ![b] = @ + 1]
  /\ bpc' = [bpc EXCEPT ![b] = "idle"]
  /\ UNCHANGED <<lw, hw, next, f_abort, extra, lost>>

-----------------------------------------------------------------------------
(* flowoplib_sempost()                                                     *)

\* On to the next target.
Advance(p) == next' = [next EXCEPT ![p] = IF @ = NBlockers THEN 0 ELSE @ + 1]

PostBegins(p) ==
  /\ ~f_abort
  /\ next[p] = 0
  /\ p \in Blocking \/ \A b \in Blockers : extra[b] < MaxExtra
  /\ next' = [next EXCEPT ![p] = 1]
  /\ UNCHANGED <<lw, hw, bpc, f_abort, missed, extra, lost>>

\* Plausible slip: hw is lowered without being waited for.
PostWaitless(p) ==
  /\ p \in Blocking
  /\ next[p] # 0
  /\ LET b == next[p] IN
       /\ lw[b] + PostValue <= SemMax
       /\ lw' = [lw EXCEPT ![b] = @ + PostValue]
       /\ hw' = [hw EXCEPT ![b] = IF @ >= PostValue THEN @ - PostValue ELSE @]
  /\ Advance(p)
  /\ UNCHANGED <<bpc, f_abort, missed, extra, lost>>

\* semtimedop() with two operations: lw goes up and hw down, or neither does.
Post(p) ==
  /\ p \in Blocking
  /\ next[p] # 0
  /\ LET b == next[p] IN
       /\ lw[b] + PostValue <= SemMax
       /\ hw[b] >= PostValue
       /\ lw' = [lw EXCEPT ![b] = @ + PostValue]
       /\ hw' = [hw EXCEPT ![b] = @ - PostValue]
  /\ Advance(p)
  /\ UNCHANGED <<bpc, f_abort, missed, extra, lost>>

\* EAGAIN, the timeout, is no error: the target is passed over.
PostTimesOut(p) ==
  /\ p \in Blocking
  /\ next[p] # 0
  /\ lw[next[p]] + PostValue <= SemMax
  /\ hw[next[p]] < PostValue
  /\ Advance(p)
  /\ UNCHANGED <<lw, hw, bpc, f_abort, missed, extra, lost>>

\* Plausible slip: both operations are always done, with hw never waited for.
PostFreelyBoth(p) ==
  /\ p \in Posters \ Blocking
  /\ next[p] # 0
  /\ LET b == next[p] IN
       /\ lw[b] + PostValue <= SemMax
       /\ lw' = [lw EXCEPT ![b] = @ + PostValue]
       /\ hw' = [hw EXCEPT ![b] = IF @ >= PostValue THEN @ - PostValue ELSE 0]
       /\ extra' = [extra EXCEPT ![b] = @ + 1]
  /\ Advance(p)
  /\ UNCHANGED <<bpc, f_abort, missed, lost>>

\* Without "blocking" only the first of the operations is passed to semtimedop().
PostFreely(p) ==
  /\ p \in Posters \ Blocking
  /\ next[p] # 0
  /\ LET b == next[p] IN
       /\ lw[b] + PostValue <= SemMax
       /\ lw' = [lw EXCEPT ![b] = @ + PostValue]
       /\ extra' = [extra EXCEPT ![b] = @ + 1]
  /\ Advance(p)
  /\ UNCHANGED <<hw, bpc, f_abort, missed, lost>>

\* ERANGE: FILEBENCH_ERROR, and the targets that are left get nothing.
PostFails(p) ==
  /\ next[p] # 0
  /\ lw[next[p]] + PostValue > SemMax
  /\ f_abort' = TRUE
  /\ next' = [next EXCEPT ![p] = 0]
  /\ UNCHANGED <<lw, hw, bpc, missed, extra, lost>>

-----------------------------------------------------------------------------
Blocker(b) == Raise(b) \/ Take(b) \/ TakeTimesOut(b)
Poster(p) == PostBegins(p) \/ Post(p) \/ PostTimesOut(p) \/ PostFreely(p) \/ PostFails(p)

Next ==
  \/ \E b \in Blockers : Blocker(b)
  \/ \E p \in Posters : Poster(p)
  \/ f_abort /\ UNCHANGED vars

Spec == Init /\ [][Next]_vars

\* The threads run, and semtimedop() serves the waiters for a semaphore in turn.
\* The timeouts, of ten minutes, need not happen.
FairSpec ==
  /\ Spec
  /\ \A b \in Blockers : WF_vars(Raise(b)) /\ SF_vars(Take(b))
  /\ \A p \in Posters : WF_vars(PostBegins(p)) /\ SF_vars(Post(p) \/ PostFreely(p) \/ PostFails(p))

-----------------------------------------------------------------------------
(* Properties.                                                             *)

Raised(b) == IF bpc[b] = "take" THEN BlockValue ELSE 0

Balanced(b) ==
  lw[b] + hw[b] =
    HighWater + Raised(b) + BlockValue * (missed[b] - lost[b]) + PostValue * extra[b]

\* What the two semaphores of a semblock hold together: the high-water mark, what
\* the semblock under way has raised, and what timeouts, free posts and refused
\* raises have added or taken away for ever.
Conserved == \A b \in Blockers : Balanced(b)

\* A semblock is never ahead of semposts that wait for it: with a high-water mark
\* of at least PostValue - 1 either it can pass or a blocking sempost can post to
\* it, unless raises of hw have been refused.
NoStall ==
  HighWater >= PostValue - 1 =>
    \A b \in Blockers :
      bpc[b] = "take" /\ lost[b] = 0 => lw[b] >= BlockValue \/ hw[b] >= PostValue

\* The backlog of a semblock is bounded: by the high-water mark and one semblock,
\* beyond what timeouts and free posts have added.
BacklogBounded ==
  \A b \in Blockers :
    lw[b] <= HighWater + BlockValue + BlockValue * missed[b] + PostValue * extra[b]

\* The run fails for want of room in a semaphore only if some sempost does not block.
FailsOnlyIfFree ==
  f_abort /\ HighWater + BlockValue + BlockValue * MaxMissed + PostValue <= SemMax
    => \E b \in Blockers : extra[b] > 0

\* Every semblock returns, and every sempost, which posts to its targets one
\* after the other, or the run ends in an error.
EveryoneReturns ==
  /\ \A b \in Blockers : bpc[b] = "take" ~> bpc[b] = "idle" \/ f_abort
  /\ \A p \in Posters : next[p] # 0 ~> next[p] = 0 \/ f_abort
=============================================================================
