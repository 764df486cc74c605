--------------------------- MODULE LimiterProofs ---------------------------
(***************************************************************************)
(* Proofs about Limiter, for any set of threads, any mix of limiters with  *)
(* and without targets, any rate, and counters without bound.              *)
(***************************************************************************)
EXTENDS Limiter, TLAPS

\* The one that is about to take events is the one that holds shm_eventgen_lock.
LockHeld == \A l \in Limiters : pc[l] = "take" <=> eventgen_lock = l

\* The events that a limiter is about to take are there: nothing but a reset
\* without the lock can have taken them away since it looked.
StillEnough ==
  /\ master = "start" => ~hit
  /\ \A l \in Limiters : pc[l] = "take" /\ ~hit => Events(l) <= eventgen_q

\* fo_tputbucket is what was paid and not charged, and is overdrawn exactly as
\* long as the limiter holds its thread up.
Balance ==
  \A l \in Limiters : kind[l] # "event" =>
    /\ tputbucket[l] = Unit(l) * taken[l] - Charged(l)
    /\ pc[l] \in {"work", "call"} <=> tputbucket[l] >= 0
    /\ master # "cleared" => tputbucket[l] <= Unit(l)

\* Before stats_clear() the counters only grow.
Forward == master # "cleared" => \A l \in Limiters : tputlast[l] <= Counter(l)

\* A limiter that has been called since stats_clear() is not taken for one that
\* is called for the first time, and has seen all that was cleared.
Settled ==
  \A l \in settled :
    /\ master = "cleared"
    /\ tputlast[l] # 0 /\ tputlast[l] <= Counter(l)
    /\ Total(l) - mark[l] = Counter(l) - tputlast[l]

IInv == TypeOK /\ LockHeld /\ StillEnough /\ EventsConserved /\ Balance /\ Forward /\ Settled

-----------------------------------------------------------------------------
(* Arithmetic.                                                             *)

\* bwlimit: the events taken cover what is overdrawn, and the last of them only
\* in part.
LEMMA CeilingCovers ==
  ASSUME NEW m \in Nat \ {0}, NEW b \in Int, b < 0
  PROVE  LET e == (-b) \div m + 1
         IN  e \in Nat /\ b + m * e >= 0 /\ b + m * e <= m
  <1> DEFINE q == (-b) \div m
             r == (-b) % m
  <1>1. q \in Int /\ r \in 0..(m - 1) /\ -b = m * q + r
    OBVIOUS
  <1>2. q >= 0
    <2>1. CASE q <= -1
      <3>1. m * q <= m * (-1)
        BY <1>1, <2>1
      <3> QED
        BY <1>1, <3>1
    <2> QED
      BY <1>1, <2>1
  <1>3. m * (q + 1) = m * q + m
    BY <1>1
  <1> QED
    BY <1>1, <1>2, <1>3

\* What one more event pays for, in the units of the bucket.
LEMMA Distributes ==
  ASSUME NEW a \in Int, NEW b \in Int, NEW c \in Int
  PROVE  a * (b + c) = a * b + a * c
  OBVIOUS

\* What an event pays for.
LEMMA UnitType ==
  ASSUME TypeOK, NEW l \in Limiters
  PROVE  Unit(l) \in Nat \ {0}
  BY LimiterAssumption DEF Unit

\* A limiter that waits asks for a number of events, and taking them brings
\* its bucket to between nothing and the worth of an event.
LEMMA EventsCover ==
  ASSUME TypeOK, Balance, NEW l \in Limiters, pc[l] \notin {"work", "call"}
  PROVE  /\ Events(l) \in Nat
         /\ kind[l] # "event" =>
              /\ tputbucket[l] + Unit(l) * Events(l) >= 0
              /\ tputbucket[l] + Unit(l) * Events(l) <= Unit(l)
  <1>0. tputbucket[l] \in Int /\ kind[l] \in LimitKind
    BY DEF TypeOK
  <1>1. CASE kind[l] = "event"
    BY <1>1 DEF Events
  <1>2. CASE kind[l] # "event"
    <2>1. tputbucket[l] < 0
      BY <1>0, <1>2 DEF Balance
    <2>2. CASE kind[l] = "ops"
      BY <1>0, <2>1, <2>2 DEF Events, Unit
    <2>3. CASE kind[l] = "bw"
      <3>1. Events(l) = (-tputbucket[l]) \div MB + 1 /\ Unit(l) = MB
        BY <2>3 DEF Events, Unit
      <3> QED
        BY <1>0, <2>1, <2>3, <3>1, CeilingCovers, LimiterAssumption
    <2> QED
      BY <1>0, <1>2, <2>2, <2>3 DEF LimitKind
  <1> QED
    BY <1>1, <1>2

-----------------------------------------------------------------------------
(* Types.                                                                  *)

\* The invariant holds initially.
LEMMA InitIInv == Init => IInv
  <1> SUFFICES ASSUME Init PROVE IInv
    OBVIOUS
  <1>a. 0 \in 0..(Wrap - 1) /\ kind \in [Limiters -> LimitKind] /\ 0 \in Nat /\ 0 \in Int
    BY LimiterAssumption DEF Init
  <1>1. TypeOK
    BY <1>a DEF Init, TypeOK
  <1>2. LockHeld /\ StillEnough /\ EventsConserved
    BY LimiterAssumption DEF Init, LockHeld, StillEnough, EventsConserved
  <1>3. Balance
    <2> SUFFICES ASSUME NEW l \in Limiters, kind[l] # "event"
                 PROVE  /\ tputbucket[l] = Unit(l) * taken[l] - Charged(l)
                        /\ pc[l] \in {"work", "call"} <=> tputbucket[l] >= 0
                        /\ tputbucket[l] <= Unit(l)
      BY DEF Balance
    <2>1. Unit(l) \in Nat
      BY <1>1, UnitType
    <2> QED
      BY <2>1 DEF Init, Charged
  <1>4. Forward /\ Settled
    BY DEF Init, Forward, Settled, Counter
  <1> QED
    BY <1>1, <1>2, <1>3, <1>4 DEF IInv

\* The generator posts the events it counts as posted.
LEMMA GenerateIInv == IInv /\ Generate => IInv'
  <1> SUFFICES ASSUME IInv, Generate PROVE IInv'
    OBVIOUS
  <1> USE DEF IInv
  <1>0. /\ eventgen_lock = NULL /\ eventgen_q \in 0..(Wrap - 1) /\ posted \in Nat
        /\ spent \in Nat /\ dropped \in Nat
        /\ pc \in [Limiters -> {"work", "call", "wait", "asleep", "take"}]
    BY DEF Generate, TypeOK
  <1>1. /\ eventgen_q' \in 0..(Wrap - 1) /\ posted' \in Nat
        /\ posted' = posted - eventgen_q + eventgen_q'
    <2>1. PICK n \in Counts : Add(n)
      BY DEF Generate
    <2>2. n \in Nat /\ 5 * Rate + n <= Wrap /\ Rate \in Nat /\ Wrap \in Nat
      BY LimiterAssumption
    <2> QED
      BY <1>0, <2>1, <2>2 DEF Add, Depth
  <1>2. /\ pc' \in [Limiters -> {"work", "call", "wait", "asleep", "take"}]
        /\ \A l \in Limiters : /\ pc'[l] = "take" <=> pc[l] = "take"
                               /\ pc'[l] \in {"work", "call"} <=> pc[l] \in {"work", "call"}
    <2>1. CASE UNCHANGED pc
      BY <1>0, <2>1
    <2>2. CASE \E l \in Limiters : pc[l] = "asleep" /\ pc' = [pc EXCEPT ![l] = "wait"]
      BY <1>0, <2>2
    <2> QED
      BY <2>1, <2>2 DEF Generate, Signal
  <1>3. TypeOK'
    BY <1>1, <1>2 DEF Generate, TypeOK
  <1>4. LockHeld' /\ \A l \in Limiters : pc'[l] # "take"
    BY <1>0, <1>2, LimiterAssumption DEF Generate, LockHeld
  <1>5. StillEnough'
    BY <1>4 DEF Generate, StillEnough
  <1>6. EventsConserved'
    <2>1. hit' = hit /\ spent' = spent /\ dropped' = dropped
      BY DEF Generate
    <2>2. Wrap \in Nat
      BY LimiterAssumption
    <2>3. posted = eventgen_q + spent + dropped =>
            posted' = eventgen_q' + spent' + dropped'
      BY <1>0, <1>1, <2>1, <2>2
    <2> QED
      BY <2>1, <2>3 DEF EventsConserved
  <1>7. Balance' /\ Forward' /\ Settled'
    <2>1. Balance'
      BY <1>2 DEF Generate, Balance, Unit, Charged
    <2>2. Forward' /\ Settled'
      BY DEF Generate, Forward, Settled, Counter, Total
    <2> QED
      BY <2>1, <2>2
  <1> QED
    BY <1>3, <1>4, <1>5, <1>6, <1>7

\* eventgen_reset() throws the queued events away, whoever holds the lock.
LEMMA ResetIInv == IInv /\ Reset => IInv'
  <1> SUFFICES ASSUME IInv, Reset PROVE IInv'
    OBVIOUS
  <1> USE DEF IInv
  <1>1. TypeOK'
    <2>1. eventgen_q' \in 0..(Wrap - 1) /\ dropped' \in Nat
      BY LimiterAssumption DEF Reset, TypeOK
    <2>2. hit' \in BOOLEAN
      BY DEF Reset, TypeOK
    <2> QED
      BY <2>1, <2>2 DEF Reset, TypeOK, threadVars
  <1>2. LockHeld'
    BY DEF Reset, LockHeld, threadVars
  <1>3. \A l \in Limiters : Events(l)' = Events(l) /\ pc'[l] = pc[l]
    BY DEF Reset, threadVars, Events
  <1>4. StillEnough'
    <2>1. CASE hit' = (eventgen_lock # NULL)
      <3> SUFFICES ASSUME NEW l \in Limiters, pc'[l] = "take" PROVE hit'
        BY DEF Reset, StillEnough
      <3> QED
        BY <1>3, <2>1, LimiterAssumption DEF LockHeld
    <2>2. CASE UNCHANGED <<eventgen_q, dropped, hit>>
      BY <1>3, <2>2 DEF Reset, StillEnough
    <2> QED
      BY <2>1, <2>2 DEF Reset
  <1>5. EventsConserved'
    BY DEF Reset, EventsConserved, TypeOK, StillEnough, threadVars
  <1>6. Balance' /\ Forward' /\ Settled'
    BY DEF Reset, Balance, Forward, Settled, Unit, Charged, Counter, Total, threadVars
  <1> QED
    BY <1>1, <1>2, <1>4, <1>5, <1>6

\* stats_clear() takes the counters back: from then on no limiter is settled.
LEMMA StatsClearIInv == IInv /\ StatsClear => IInv'
  <1> SUFFICES ASSUME IInv, StatsClear PROVE IInv'
    OBVIOUS
  <1> USE DEF IInv
  <1>1. TypeOK'
    BY DEF StatsClear, TypeOK, genVars
  <1>2. LockHeld' /\ StillEnough' /\ EventsConserved'
    BY DEF StatsClear, LockHeld, StillEnough, EventsConserved, Events, genVars
  <1>3. Balance' /\ Forward'
    BY DEF StatsClear, Balance, Forward, Unit, Charged, genVars
  <1>4. Settled'
    <2>1. settled' = {}
      BY DEF StatsClear, Settled
    <2> QED
      BY <2>1 DEF Settled
  <1> QED
    BY <1>1, <1>2, <1>3, <1>4

-----------------------------------------------------------------------------
(* The steps of a thread.                                                  *)

\* The steps that only move a thread on, between places where its bucket is not
\* looked at.
MovesOn(l, from, to) ==
  /\ pc[l] = from /\ pc' = [pc EXCEPT ![l] = to]
  /\ UNCHANGED <<genVars, count, control, tputlast, tputbucket, taken, worked, mark, free,
                 settled, master>>

\* A step that changes nothing but the place of a thread outside the lock.
LEMMA MovesOnIInv ==
  ASSUME IInv, NEW l \in Limiters, NEW from, NEW to, MovesOn(l, from, to),
         to \in {"work", "wait", "asleep"}, from # "take",
         kind[l] = "event" \/ (from \in {"work", "call"} <=> to = "work")
  PROVE  IInv'
  <1> USE DEF IInv
  <1>1. /\ pc' \in [Limiters -> {"work", "call", "wait", "asleep", "take"}]
        /\ \A k \in Limiters :
             /\ pc'[k] = "take" <=> pc[k] = "take"
             /\ kind[k] # "event" => (pc'[k] \in {"work", "call"} <=> pc[k] \in {"work", "call"})
    BY DEF MovesOn, TypeOK
  <1>2. TypeOK'
    BY <1>1 DEF MovesOn, TypeOK, genVars
  <1>3. LockHeld' /\ StillEnough' /\ EventsConserved'
    BY <1>1 DEF MovesOn, genVars, LockHeld, StillEnough, EventsConserved, Events
  <1>4. Balance'
    BY <1>1 DEF MovesOn, genVars, Balance, Unit, Charged
  <1>5. Forward' /\ Settled'
    BY DEF MovesOn, genVars, Forward, Settled, Counter, Total
  <1> QED
    BY <1>2, <1>3, <1>4, <1>5

\* Work moves the counters up, and no limiter's balance.
LEMMA WorkIInv == \A l \in Limiters : IInv /\ Work(l) => IInv'
  <1> SUFFICES ASSUME IInv, NEW l \in Limiters, Work(l) PROVE IInv'
    OBVIOUS
  <1> USE DEF IInv
  <1>0. PICK n \in Sizes :
          /\ worked' = [worked EXCEPT ![l] = @ + n]
          /\ count' = [count EXCEPT ![l] = @ + n]
          /\ control' = control + n
    BY DEF Work
  <1>1. /\ n \in Nat /\ control \in Nat /\ worked \in [Limiters -> Nat]
        /\ count \in [Limiters -> Nat] /\ tputlast \in [Limiters -> Nat]
        /\ mark \in [Limiters -> Nat] /\ settled \subseteq Limiters
    BY LimiterAssumption DEF TypeOK
  <1>2. /\ pc' \in [Limiters -> {"work", "call", "wait", "asleep", "take"}]
        /\ \A k \in Limiters :
             /\ pc'[k] = "take" <=> pc[k] = "take"
             /\ pc'[k] \in {"work", "call"} <=> pc[k] \in {"work", "call"}
    BY DEF Work, TypeOK
  <1>3. /\ worked' \in [Limiters -> Nat] /\ count' \in [Limiters -> Nat] /\ control' \in Nat
    BY <1>0, <1>1
  <1>4. TypeOK'
    BY <1>2, <1>3 DEF Work, TypeOK, genVars
  <1>5. LockHeld' /\ StillEnough' /\ EventsConserved'
    BY <1>2 DEF Work, genVars, LockHeld, StillEnough, EventsConserved, Events
  <1>6. Balance'
    BY <1>2 DEF Work, genVars, Balance, Unit, Charged
  <1>7. \A k \in Limiters : /\ Counter(k) \in Nat /\ Counter(k)' \in Nat
                            /\ Total(k) \in Nat /\ Total(k)' \in Nat
                            /\ Counter(k)' >= Counter(k)
                            /\ Total(k)' - Counter(k)' = Total(k) - Counter(k)
    BY <1>0, <1>1, <1>3 DEF Counter, Total
  <1>8. Forward'
    BY <1>1, <1>7 DEF Work, Forward
  <1>9. Settled'
    <2> SUFFICES ASSUME NEW k \in settled
                 PROVE  /\ tputlast[k] <= Counter(k)'
                        /\ Total(k)' - mark[k] = Counter(k)' - tputlast[k]
      BY DEF Work, Settled
    <2>1. k \in Limiters /\ tputlast[k] <= Counter(k)
                         /\ Total(k) - mark[k] = Counter(k) - tputlast[k]
      BY <1>1 DEF Settled
    <2> QED
      BY <1>1, <1>7, <2>1
  <1> QED
    BY <1>4, <1>5, <1>6, <1>8, <1>9

\* What every call of a limiter that counts leaves behind, once it is known what
\* it does to the bucket and to the place of its thread.
LEMMA CalledIInv ==
  ASSUME IInv, NEW l \in Limiters, Called(l), kind[l] # "event",
         NEW to \in {"work", "wait"}, NEW b \in Int, NEW f \in Int,
         pc[l] = "call", pc' = [pc EXCEPT ![l] = to],
         tputbucket' = [tputbucket EXCEPT ![l] = b],
         free' = [free EXCEPT ![l] = f],
         b = tputbucket[l] - ((Total(l) - f) - Charged(l)),
         to = "work" <=> b >= 0,
         master # "cleared" => b <= tputbucket[l]
  PROVE  IInv'
  <1> USE DEF IInv
  <1>0. /\ control \in Nat /\ worked \in [Limiters -> Nat] /\ count \in [Limiters -> Nat]
        /\ tputlast \in [Limiters -> Nat] /\ mark \in [Limiters -> Nat]
        /\ free \in [Limiters -> Int] /\ taken \in [Limiters -> Nat]
        /\ tputbucket \in [Limiters -> Int] /\ settled \subseteq Limiters
        /\ pc \in [Limiters -> {"work", "call", "wait", "asleep", "take"}]
    BY DEF TypeOK
  <1>1. Counter(l) \in Nat /\ Total(l) \in Nat
    BY <1>0 DEF Counter, Total
  <1>2. /\ UNCHANGED <<genVars, count, control, taken, worked, master>>
        /\ tputlast' = [tputlast EXCEPT ![l] = Counter(l)]
        /\ mark' = [mark EXCEPT ![l] = Total(l)]
        /\ settled' \subseteq settled \cup {l}
        /\ l \in settled' \ settled => master = "cleared" /\ Counter(l) # 0
    BY DEF Called
  <1>3. /\ pc' \in [Limiters -> {"work", "call", "wait", "asleep", "take"}]
        /\ tputlast' \in [Limiters -> Nat] /\ mark' \in [Limiters -> Nat]
        /\ free' \in [Limiters -> Int] /\ tputbucket' \in [Limiters -> Int]
        /\ settled' \subseteq Limiters
    BY <1>0, <1>1, <1>2
  <1>4. TypeOK'
    BY <1>2, <1>3 DEF TypeOK, genVars
  <1>5. /\ \A k \in Limiters : Counter(k)' = Counter(k) /\ Total(k)' = Total(k)
                               /\ Unit(k)' = Unit(k) /\ (pc'[k] = "take" <=> pc[k] = "take")
                               /\ (k # l => pc'[k] = pc[k])
        /\ pc'[l] = to
    BY <1>0, <1>2 DEF Counter, Total, Unit, genVars
  <1>6. LockHeld' /\ StillEnough' /\ EventsConserved'
    <2>1. \A k \in Limiters : pc[k] = "take" => Events(k)' = Events(k)
      BY <1>0, <1>2 DEF Events, genVars
    <2> QED
      BY <1>2, <1>5, <2>1 DEF genVars, LockHeld, StillEnough, EventsConserved
  <1>7. Balance'
    <2> SUFFICES ASSUME NEW k \in Limiters, kind[k] # "event"
                 PROVE  /\ tputbucket'[k] = Unit(k) * taken[k] - (mark'[k] - free'[k])
                        /\ pc'[k] \in {"work", "call"} <=> tputbucket'[k] >= 0
                        /\ master # "cleared" => tputbucket'[k] <= Unit(k)
      BY <1>2, <1>5 DEF Balance, genVars, Charged
    <2>0. Unit(k) \in Nat /\ Unit(k) * taken[k] \in Int
      BY <1>0, UnitType
    <2>1. /\ tputbucket[k] = Unit(k) * taken[k] - Charged(k)
          /\ pc[k] \in {"work", "call"} <=> tputbucket[k] >= 0
          /\ master # "cleared" => tputbucket[k] <= Unit(k)
      BY DEF Balance
    <2>2. CASE k = l
      <3>1. tputbucket'[l] = b /\ mark'[l] = Total(l) /\ free'[l] = f
        BY <1>0, <1>2
      <3>2. Charged(l) \in Int
        BY <1>0 DEF Charged
      <3>3. b = Unit(l) * taken[l] - (Total(l) - f)
        BY <1>0, <1>1, <2>0, <2>1, <2>2, <3>2
      <3> QED
        BY <1>0, <1>5, <2>0, <2>1, <2>2, <3>1, <3>3
    <2>3. CASE k # l
      BY <1>0, <1>2, <1>5, <2>1, <2>3 DEF Charged
    <2> QED
      BY <2>2, <2>3
  <1>8. Forward'
    BY <1>0, <1>1, <1>2, <1>5 DEF Forward
  <1>9. Settled'
    <2> SUFFICES ASSUME NEW k \in settled'
                 PROVE  /\ master = "cleared"
                        /\ tputlast'[k] # 0 /\ tputlast'[k] <= Counter(k)
                        /\ Total(k) - mark'[k] = Counter(k) - tputlast'[k]
      BY <1>2, <1>3, <1>5 DEF Settled
    <2>1. CASE k = l
      <3>1. tputlast'[l] = Counter(l) /\ mark'[l] = Total(l)
        BY <1>0, <1>2
      <3>2. master = "cleared" /\ Counter(l) # 0
        BY <1>0, <1>1, <1>2, <2>1 DEF Settled
      <3> QED
        BY <1>1, <2>1, <3>1, <3>2
    <2>2. CASE k # l
      BY <1>0, <1>2, <2>2 DEF Settled
    <2> QED
      BY <2>1, <2>2
  <1> QED
    BY <1>4, <1>6, <1>7, <1>8, <1>9

\* The first call takes the counter as it is and charges nothing.
LEMMA CallFirstIInv == \A l \in Limiters : IInv /\ CallFirst(l) => IInv'
  <1> SUFFICES ASSUME IInv, NEW l \in Limiters, CallFirst(l) PROVE IInv'
    OBVIOUS
  <1> DEFINE f == free[l] + Total(l) - mark[l]
  <1>0. /\ control \in Nat /\ worked \in [Limiters -> Nat] /\ mark \in [Limiters -> Nat]
        /\ free \in [Limiters -> Int] /\ tputbucket \in [Limiters -> Int]
    BY DEF IInv, TypeOK
  <1>1. Total(l) \in Nat /\ f \in Int /\ tputbucket[l] \in Int
    BY <1>0 DEF Total
  <1>2. /\ pc[l] = "call" /\ pc' = [pc EXCEPT ![l] = "work"] /\ kind[l] # "event" /\ Called(l)
        /\ free' = [free EXCEPT ![l] = f]
    BY DEF CallFirst
  <1>3. tputbucket' = [tputbucket EXCEPT ![l] = tputbucket[l]]
    BY <1>0 DEF CallFirst
  <1>4. tputbucket[l] = tputbucket[l] - ((Total(l) - f) - Charged(l))
    BY <1>0, <1>1 DEF Charged
  <1>5. tputbucket[l] >= 0 /\ tputbucket[l] <= tputbucket[l]
    BY <1>1, <1>2 DEF IInv, Balance
  <1> HIDE DEF f
  <1> QED
    BY <1>1, <1>2, <1>3, <1>4, <1>5, CalledIInv

\* A later call charges the work since the last one.
LEMMA CallIInv == \A l \in Limiters : IInv /\ Call(l) => IInv'
  <1> SUFFICES ASSUME IInv, NEW l \in Limiters, Call(l) PROVE IInv'
    OBVIOUS
  <1> DEFINE delta == Counter(l) - tputlast[l]
             f == free[l] + (Total(l) - mark[l]) - delta
             b == tputbucket[l] - delta
             to == IF b >= 0 THEN "work" ELSE "wait"
  <1>0. /\ control \in Nat /\ worked \in [Limiters -> Nat] /\ mark \in [Limiters -> Nat]
        /\ count \in [Limiters -> Nat] /\ tputlast \in [Limiters -> Nat]
        /\ free \in [Limiters -> Int] /\ tputbucket \in [Limiters -> Int]
    BY DEF IInv, TypeOK
  <1>1. /\ Total(l) \in Nat /\ Counter(l) \in Nat /\ delta \in Int /\ f \in Int
        /\ tputbucket[l] \in Int /\ b \in Int
    BY <1>0 DEF Total, Counter
  <1>2. /\ pc[l] = "call" /\ pc' = [pc EXCEPT ![l] = to] /\ kind[l] # "event" /\ Called(l)
        /\ free' = [free EXCEPT ![l] = f] /\ tputbucket' = [tputbucket EXCEPT ![l] = b]
    BY DEF Call
  <1>3. to \in {"work", "wait"} /\ (to = "work" <=> b >= 0)
    OBVIOUS
  <1>4. b = tputbucket[l] - ((Total(l) - f) - Charged(l))
    BY <1>0, <1>1 DEF Charged
  <1>5. master # "cleared" => b <= tputbucket[l]
    BY <1>0, <1>1 DEF IInv, Forward
  <1> HIDE DEF f, b, to
  <1> QED
    BY <1>1, <1>2, <1>3, <1>4, <1>5, CalledIInv

\* Under the lock there are enough events, or the thread goes back to sleep.
LEMMA TestIInv == \A l \in Limiters : IInv /\ Test(l) => IInv'
  <1> SUFFICES ASSUME IInv, NEW l \in Limiters, Test(l) PROVE IInv'
    OBVIOUS
  <1> USE DEF IInv
  <1>0. /\ pc \in [Limiters -> {"work", "call", "wait", "asleep", "take"}]
        /\ pc' = [pc EXCEPT ![l] = "take"] /\ pc[l] = "wait"
        /\ eventgen_lock = NULL /\ eventgen_lock' = l
        /\ eventgen_q \in 0..(Wrap - 1) /\ Wrap \in Nat
    BY LimiterAssumption DEF Test, TypeOK
  <1>1. TypeOK'
    BY <1>0 DEF Test, TypeOK, restOfThread
  <1>2. LockHeld'
    BY <1>0, LimiterAssumption DEF LockHeld
  <1>3. StillEnough'
    <2>1. Events(l)' = Events(l) /\ eventgen_q' = eventgen_q /\ Events(l) \in Nat
      BY <1>0, EventsCover DEF Test, restOfThread, Events
    <2>2. Events(l)' <= eventgen_q'
      BY <1>0, <2>1 DEF Test
    <2>3. \A k \in Limiters : pc'[k] = "take" => k = l
      BY <1>0, <1>2 DEF LockHeld
    <2> QED
      BY <2>2, <2>3 DEF Test, restOfThread, StillEnough
  <1>4. EventsConserved'
    BY DEF Test, restOfThread, EventsConserved
  <1>5. Balance'
    BY <1>0 DEF Test, restOfThread, Balance, Unit, Charged
  <1>6. Forward' /\ Settled'
    BY DEF Test, restOfThread, Forward, Settled, Counter, Total
  <1> QED
    BY <1>1, <1>2, <1>3, <1>4, <1>5, <1>6

\* What is taken from the queue goes into the bucket.
LEMMA TakeIInv == \A l \in Limiters : IInv /\ Take(l) => IInv'
  <1> SUFFICES ASSUME IInv, NEW l \in Limiters, Take(l) PROVE IInv'
    OBVIOUS
  <1> USE DEF IInv
  <1>0. /\ pc \in [Limiters -> {"work", "call", "wait", "asleep", "take"}]
        /\ tputbucket \in [Limiters -> Int] /\ taken \in [Limiters -> Nat]
        /\ mark \in [Limiters -> Nat] /\ free \in [Limiters -> Int]
        /\ spent \in Nat /\ posted \in Nat /\ dropped \in Nat
        /\ pc' = [pc EXCEPT ![l] = "work"] /\ pc[l] = "take"
        /\ eventgen_q \in 0..(Wrap - 1) /\ Wrap \in Nat \ {0}
        /\ eventgen_lock' = NULL
    BY LimiterAssumption DEF Take, TypeOK
  <1> DEFINE e == Events(l)
             b == tputbucket[l] + Unit(l) * e
  <1>1. /\ e \in Nat /\ Unit(l) \in Nat \ {0}
        /\ kind[l] # "event" => b >= 0 /\ b <= Unit(l)
    BY <1>0, EventsCover, UnitType
  <1>2. /\ b \in Int /\ eventgen_q' = (eventgen_q - e) % Wrap /\ spent' = spent + e
        /\ taken' = [taken EXCEPT ![l] = @ + e]
        /\ tputbucket' = IF kind[l] = "event" THEN tputbucket ELSE [tputbucket EXCEPT ![l] = b]
    BY <1>0, <1>1 DEF Take, Pay
  <1> HIDE DEF e, b
  <1>3. /\ eventgen_q' \in 0..(Wrap - 1) /\ spent' \in Nat /\ taken' \in [Limiters -> Nat]
        /\ tputbucket' \in [Limiters -> Int]
    BY <1>0, <1>1, <1>2
  <1>4. TypeOK'
    BY <1>0, <1>3 DEF Take, TypeOK, restOfThread
  <1>5. LockHeld' /\ \A k \in Limiters : pc'[k] # "take"
    BY <1>0, LimiterAssumption DEF LockHeld
  <1>6. StillEnough'
    BY <1>5 DEF Take, restOfThread, StillEnough
  <1>7. EventsConserved'
    <2> SUFFICES ASSUME ~hit PROVE posted = eventgen_q' + spent' + dropped
      BY DEF Take, restOfThread, EventsConserved
    <2>1. e <= eventgen_q
      BY <1>0 DEF StillEnough, e
    <2>2. eventgen_q - e \in 0..(Wrap - 1)
      BY <1>0, <1>1, <2>1
    <2>3. (eventgen_q - e) % Wrap = eventgen_q - e
      BY <1>0, <2>2
    <2>4. posted = eventgen_q + spent + dropped
      BY DEF EventsConserved
    <2> QED
      BY <1>0, <1>1, <1>2, <2>3, <2>4
  <1>8. Balance'
    <2> SUFFICES ASSUME NEW k \in Limiters, kind[k] # "event"
                 PROVE  /\ tputbucket'[k] = Unit(k) * taken'[k] - Charged(k)
                        /\ pc'[k] \in {"work", "call"} <=> tputbucket'[k] >= 0
                        /\ master # "cleared" => tputbucket'[k] <= Unit(k)
      BY DEF Take, restOfThread, Balance, Unit, Charged
    <2>1. CASE k = l
      <3>1. tputbucket'[l] = b /\ taken'[l] = taken[l] + e
        BY <1>0, <1>2, <2>1
      <3>2. Unit(l) * taken'[l] = Unit(l) * taken[l] + Unit(l) * e
        BY <1>0, <1>1, <3>1, Distributes
      <3>3. tputbucket[l] = Unit(l) * taken[l] - Charged(l)
        BY <2>1 DEF Balance
      <3>4. /\ Unit(l) * taken[l] \in Int /\ Unit(l) * e \in Int /\ Charged(l) \in Int
            /\ b = tputbucket[l] + Unit(l) * e
        BY <1>0, <1>1 DEF Charged, b
      <3>5. b = Unit(l) * taken'[l] - Charged(l)
        BY <3>2, <3>3, <3>4
      <3> QED
        BY <1>0, <1>1, <1>2, <2>1, <3>1, <3>5
    <2>2. CASE k # l
      BY <1>0, <1>2, <2>2 DEF Balance
    <2> QED
      BY <2>1, <2>2
  <1>9. Forward' /\ Settled'
    BY DEF Take, restOfThread, Forward, Settled, Counter, Total
  <1> QED
    BY <1>4, <1>5, <1>6, <1>7, <1>8, <1>9

-----------------------------------------------------------------------------
(* The theorems.                                                           *)

\* The invariant is inductive.
LEMMA NextIInv == IInv /\ [Next]_vars => IInv'
  <1> SUFFICES ASSUME IInv, [Next]_vars PROVE IInv'
    OBVIOUS
  <1>1. CASE Generate \/ Reset \/ StatsClear
    BY <1>1, GenerateIInv, ResetIInv, StatsClearIInv
  <1>2. ASSUME NEW l \in Limiters, Thread(l) PROVE IInv'
    <2>1. CASE Work(l) \/ CallFirst(l) \/ Call(l) \/ Test(l) \/ Take(l)
      BY <2>1, WorkIInv, CallFirstIInv, CallIInv, TestIInv, TakeIInv
    <2>2. CASE Bail(l)
      BY <2>2, MovesOnIInv DEF Bail, MovesOn
    <2>3. CASE CallEvent(l)
      BY <2>3, MovesOnIInv DEF CallEvent, MovesOn
    <2>4. CASE Sleep(l)
      BY <2>4, MovesOnIInv DEF Sleep, MovesOn
    <2> QED
      BY <1>2, <2>1, <2>2, <2>3, <2>4 DEF Thread
  <1>3. CASE UNCHANGED vars
    BY <1>3 DEF vars, genVars, threadVars, IInv, TypeOK, LockHeld, StillEnough,
       EventsConserved, Balance, Forward, Settled, Events, Unit, Charged, Counter, Total
  <1> QED
    BY <1>1, <1>2, <1>3 DEF Next

\* The invariant holds of every behaviour.
LEMMA Invariance == Spec => []IInv
  BY InitIInv, NextIInv, PTL DEF Spec

\* Every variable keeps its type; shm_eventgen_q stays within its 64 bits.
THEOREM LimiterTypes == Spec => []TypeOK
  <1>1. IInv => TypeOK
    BY DEF IInv
  <1> QED
    BY <1>1, Invariance, PTL

\* No event is lost or made up by the generator and the limiters.
THEOREM LimiterConserves == Spec => []EventsConserved
  <1>1. IInv => EventsConserved
    BY DEF IInv
  <1> QED
    BY <1>1, Invariance, PTL

\* A limiter lets its thread go on only when what it has charged is paid for,
\* and takes at most one event too many.
THEOREM LimiterPaid == Spec => []Paid
  <1>1. IInv => Paid
    <2> SUFFICES ASSUME IInv, NEW l \in Limiters, kind[l] # "event", pc[l] \in {"work", "call"}
                 PROVE  /\ Charged(l) <= Unit(l) * taken[l]
                        /\ master # "cleared" => Unit(l) * taken[l] <= Charged(l) + Unit(l)
      BY DEF Paid
    <2>1. /\ tputbucket[l] = Unit(l) * taken[l] - Charged(l) /\ tputbucket[l] >= 0
          /\ master # "cleared" => tputbucket[l] <= Unit(l)
      BY DEF IInv, Balance
    <2>2. Unit(l) \in Int /\ Charged(l) \in Int /\ Unit(l) * taken[l] \in Int
      BY UnitType DEF IInv, TypeOK, Charged
    <2> QED
      BY <2>1, <2>2
  <1> QED
    BY <1>1, Invariance, PTL

\* Once a limiter has been called after stats_clear() it charges all the work
\* that its counter covers, at every step.
THEOREM LimiterCharges == Spec => AllCharged
  <1>1. IInv /\ [Next]_vars => [\A l \in settled : free'[l] = free[l]]_vars
    <2> SUFFICES ASSUME IInv, Next, NEW l \in settled PROVE free'[l] = free[l]
      OBVIOUS
    <2>0. l \in Limiters /\ free \in [Limiters -> Int] /\ tputlast[l] # 0
          /\ Total(l) - mark[l] = Counter(l) - tputlast[l]
      BY DEF IInv, TypeOK, Settled
    <2>1. CASE free' = free
      BY <2>1
    <2>2. ASSUME NEW k \in Limiters, CallFirst(k) PROVE free'[l] = free[l]
      BY <2>0, <2>2 DEF CallFirst
    <2>3. ASSUME NEW k \in Limiters, Call(k) PROVE free'[l] = free[l]
      <3>1. CASE k = l
        <4>1. free'[l] = free[l] + (Total(l) - mark[l]) - (Counter(l) - tputlast[l])
          BY <2>0, <2>3, <3>1 DEF Call
        <4>2. Counter(l) - tputlast[l] \in Int /\ free[l] \in Int
          BY <2>0 DEF IInv, TypeOK, Counter
        <4> QED
          BY <2>0, <4>1, <4>2
      <3>2. CASE k # l
        BY <2>0, <2>3, <3>2 DEF Call
      <3> QED
        BY <3>1, <3>2
    <2>4. CASE Generate \/ Reset \/ StatsClear
      BY <2>1, <2>4 DEF Generate, Reset, StatsClear, threadVars
    <2>5. ASSUME NEW k \in Limiters, Thread(k) PROVE free'[l] = free[l]
      <3>1. CASE CallFirst(k) \/ Call(k)
        BY <2>2, <2>3, <3>1
      <3>2. CASE Work(k) \/ Bail(k) \/ CallEvent(k) \/ Sleep(k) \/ Test(k) \/ Take(k)
        BY <2>1, <3>2 DEF Work, Bail, CallEvent, Sleep, Test, Take
      <3> QED
        BY <2>5, <3>1, <3>2 DEF Thread
    <2> QED
      BY <2>4, <2>5 DEF Next
  <1> QED
    BY <1>1, Invariance, PTL DEF Spec, AllCharged
=============================================================================
