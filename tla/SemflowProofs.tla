--------------------------- MODULE SemflowProofs ---------------------------
(***************************************************************************)
(* Proofs about Semflow, for any number of semblocks and semposts and any  *)
(* values of their attributes.                                             *)
(***************************************************************************)
EXTENDS Semflow, TLAPS

\* The inductive invariant: types, the conservation of the two semaphores of each
\* semblock, the bound on timeouts, and why a sempost may have failed.
IInv == TypeOK /\ Conserved /\ (\A b \in Blockers : missed[b] <= MaxMissed) /\ FailsOnlyIfFree

\* Multiplication by a natural number is monotonic.
LEMMA TimesMono ==
  ASSUME NEW a \in Nat, NEW x \in Int, NEW y \in Int, x <= y
  PROVE  a * x <= a * y
  OBVIOUS

\* The initial states satisfy the invariant.
LEMMA InitIInv == Init => IInv
  <1> SUFFICES ASSUME Init PROVE IInv
    OBVIOUS
  <1> USE SemflowAssumption
  <1>1. TypeOK
    <2>1. 0 \in 0..SemMax /\ HighWater \in 0..SemMax /\ 0 \in 0..NBlockers
      OBVIOUS
    <2> QED
      BY <2>1 DEF Init, TypeOK
  <1>2. Conserved
    BY DEF Init, Conserved, Balanced, Raised
  <1>3. FailsOnlyIfFree /\ \A b \in Blockers : missed[b] <= MaxMissed
    BY DEF Init, FailsOnlyIfFree
  <1> QED
    BY <1>1, <1>2, <1>3 DEF IInv

\* An update of a function at one point keeps its type.
LEMMA UpdateType ==
  ASSUME NEW S, NEW T, NEW f \in [S -> T], NEW x \in S, NEW y \in T
  PROVE  [f EXCEPT ![x] = y] \in [S -> T]
  OBVIOUS

\* Every step keeps the types.
LEMMA NextTypeOK == TypeOK /\ [Next]_vars => TypeOK'
  <1> SUFFICES ASSUME TypeOK, [Next]_vars PROVE TypeOK'
    OBVIOUS
  <1>0. /\ lw \in [Blockers -> 0..SemMax] /\ hw \in [Blockers -> 0..SemMax]
        /\ bpc \in [Blockers -> {"idle", "take"}] /\ next \in [Posters -> 0..NBlockers]
        /\ f_abort \in BOOLEAN /\ missed \in [Blockers -> Nat]
        /\ extra \in [Blockers -> Nat] /\ lost \in [Blockers -> Nat]
    BY DEF TypeOK
  <1>a. /\ NBlockers \in Nat \ {0} /\ SemMax \in Nat
        /\ BlockValue \in Nat /\ PostValue \in Nat
    BY SemflowAssumption
  <1>n. ASSUME NEW p \in Posters, Advance(p) PROVE next' \in [Posters -> 0..NBlockers]
    <2>1. (IF next[p] = NBlockers THEN 0 ELSE next[p] + 1) \in 0..NBlockers
      BY <1>0, <1>a
    <2> QED
      BY <1>0, <1>n, <2>1, UpdateType DEF Advance
  <1>1. CASE UNCHANGED vars
    BY <1>0, <1>1 DEF vars, TypeOK
  <1>2. ASSUME NEW b \in Blockers, Raise(b) PROVE TypeOK'
    <2>1. hw' \in [Blockers -> 0..SemMax]
      <3>1. CASE hw[b] + BlockValue <= SemMax
        <4>1. hw[b] + BlockValue \in 0..SemMax
          BY <1>0, <1>a, <3>1
        <4> QED
          BY <1>0, <1>2, <3>1, <4>1, UpdateType DEF Raise
      <3> QED
        BY <1>0, <1>2, <3>1 DEF Raise
    <2>2. lost' \in [Blockers -> Nat]
      BY <1>0, <1>2 DEF Raise
    <2>3. bpc' \in [Blockers -> {"idle", "take"}]
      BY <1>0, <1>2 DEF Raise
    <2> QED
      BY <1>0, <1>2, <2>1, <2>2, <2>3 DEF Raise, TypeOK
  <1>3. ASSUME NEW b \in Blockers, Take(b) PROVE TypeOK'
    <2>1. lw[b] - BlockValue \in 0..SemMax
      BY <1>0, <1>3, <1>a DEF Take
    <2>2. lw' \in [Blockers -> 0..SemMax]
      BY <1>0, <1>3, <2>1, UpdateType DEF Take
    <2>3. bpc' \in [Blockers -> {"idle", "take"}]
      BY <1>0, <1>3 DEF Take
    <2> QED
      BY <1>0, <1>3, <2>2, <2>3 DEF Take, TypeOK
  <1>4. ASSUME NEW b \in Blockers, TakeTimesOut(b) PROVE TypeOK'
    <2>1. missed' \in [Blockers -> Nat] /\ bpc' \in [Blockers -> {"idle", "take"}]
      BY <1>0, <1>4 DEF TakeTimesOut
    <2> QED
      BY <1>0, <1>4, <2>1 DEF TakeTimesOut, TypeOK
  <1>5. ASSUME NEW p \in Posters, PostBegins(p) PROVE TypeOK'
    <2>1. 1 \in 0..NBlockers
      BY <1>a
    <2>2. next' \in [Posters -> 0..NBlockers]
      BY <1>0, <1>5, <2>1, UpdateType DEF PostBegins
    <2> QED
      BY <1>0, <1>5, <2>2 DEF PostBegins, TypeOK
  <1>6. ASSUME NEW p \in Posters, Post(p) PROVE TypeOK'
    <2>1. next[p] \in Blockers
      BY <1>0, <1>6, <1>a DEF Post, Blockers
    <2>2. lw[next[p]] + PostValue \in 0..SemMax /\ hw[next[p]] - PostValue \in 0..SemMax
      BY <1>0, <1>6, <1>a, <2>1 DEF Post
    <2>3. lw' \in [Blockers -> 0..SemMax] /\ hw' \in [Blockers -> 0..SemMax]
      BY <1>0, <1>6, <2>1, <2>2, UpdateType DEF Post
    <2>4. next' \in [Posters -> 0..NBlockers]
      BY <1>6, <1>n DEF Post
    <2> QED
      BY <1>0, <1>6, <2>3, <2>4 DEF Post, TypeOK
  <1>7. ASSUME NEW p \in Posters, PostTimesOut(p) PROVE TypeOK'
    <2>1. next' \in [Posters -> 0..NBlockers]
      BY <1>7, <1>n DEF PostTimesOut
    <2> QED
      BY <1>0, <1>7, <2>1 DEF PostTimesOut, TypeOK
  <1>8. ASSUME NEW p \in Posters, PostFreely(p) PROVE TypeOK'
    <2>1. next[p] \in Blockers
      BY <1>0, <1>8, <1>a DEF PostFreely, Blockers
    <2>2. lw[next[p]] + PostValue \in 0..SemMax /\ extra[next[p]] + 1 \in Nat
      BY <1>0, <1>8, <1>a, <2>1 DEF PostFreely
    <2>3. lw' \in [Blockers -> 0..SemMax] /\ extra' \in [Blockers -> Nat]
      BY <1>0, <1>8, <2>1, <2>2, UpdateType DEF PostFreely
    <2>4. next' \in [Posters -> 0..NBlockers]
      BY <1>8, <1>n DEF PostFreely
    <2> QED
      BY <1>0, <1>8, <2>3, <2>4 DEF PostFreely, TypeOK
  <1>9. ASSUME NEW p \in Posters, PostFails(p) PROVE TypeOK'
    <2>1. 0 \in 0..NBlockers
      BY <1>a
    <2>2. next' \in [Posters -> 0..NBlockers]
      BY <1>0, <1>9, <2>1, UpdateType DEF PostFails
    <2>3. f_abort' \in BOOLEAN
      BY <1>9 DEF PostFails
    <2> QED
      BY <1>0, <1>9, <2>2, <2>3 DEF PostFails, TypeOK
  <1> QED
    BY <1>1, <1>2, <1>3, <1>4, <1>5, <1>6, <1>7, <1>8, <1>9 DEF Next, Blocker, Poster

\* Every step keeps the two semaphores of every semblock in balance.
LEMMA NextConserved == TypeOK /\ Conserved /\ [Next]_vars => Conserved'
  <1> SUFFICES ASSUME TypeOK, Conserved, [Next]_vars, NEW c \in Blockers
               PROVE  Balanced(c)'
    BY DEF Conserved, Blockers
  <1> DEFINE A == BlockValue * (missed[c] - lost[c])
             X == PostValue * extra[c]
  <1>0. Balanced(c)
    BY DEF Conserved
  <1>t. /\ lw[c] \in Nat /\ hw[c] \in Nat /\ missed[c] \in Nat /\ lost[c] \in Nat
        /\ extra[c] \in Nat /\ BlockValue \in Nat /\ PostValue \in Nat /\ HighWater \in Nat
    BY SemflowAssumption DEF TypeOK
  <1>f. /\ lw \in [Blockers -> Int] /\ hw \in [Blockers -> Int] /\ missed \in [Blockers -> Int]
        /\ lost \in [Blockers -> Int] /\ extra \in [Blockers -> Int]
        /\ bpc \in [Blockers -> {"idle", "take"}]
    BY SemflowAssumption DEF TypeOK
  <1>1. CASE UNCHANGED vars
    BY <1>0, <1>1 DEF vars, Balanced, Raised
  <1>2. ASSUME NEW b \in Blockers, Raise(b) PROVE Balanced(c)'
    <2>1. CASE c # b
      BY <1>0, <1>2, <1>f, <2>1 DEF Raise, Balanced, Raised
    <2>2. CASE c = b /\ hw[b] + BlockValue <= SemMax
      BY <1>0, <1>2, <1>t, <1>f, <2>2 DEF Raise, Balanced, Raised
    <2>3. CASE c = b /\ ~(hw[b] + BlockValue <= SemMax)
      <3>1. BlockValue * (missed[c] - (lost[c] + 1)) = BlockValue * (missed[c] - lost[c]) - BlockValue
        BY <1>t
      <3> QED
        BY <1>0, <1>2, <1>t, <1>f, <2>3, <3>1 DEF Raise, Balanced, Raised
    <2> QED
      BY <2>1, <2>2, <2>3
  <1>e. /\ lw[c] + hw[c] = HighWater + Raised(c) + A + X
        /\ A \in Int /\ X \in Int
    BY <1>0, <1>t DEF Balanced
  <1> HIDE DEF A, X
  <1>3. ASSUME NEW b \in Blockers, Take(b) PROVE Balanced(c)'
    <2>1. CASE c = b
      <3>1. /\ lw'[c] = lw[c] - BlockValue /\ bpc[c] = "take" /\ bpc'[c] = "idle"
            /\ hw' = hw /\ missed' = missed /\ extra' = extra /\ lost' = lost
        BY <1>3, <1>f, <2>1 DEF Take
      <3>2. Raised(c) = BlockValue /\ Raised(c)' = 0
        BY <3>1 DEF Raised
      <3>3. lw'[c] + hw[c] = HighWater + 0 + A + X
        BY <1>e, <1>t, <3>1, <3>2
      <3> QED
        BY <3>1, <3>2, <3>3 DEF Balanced, A, X
    <2>2. CASE c # b
      BY <1>0, <1>3, <1>f, <2>2 DEF Take, Balanced, Raised
    <2> QED
      BY <2>1, <2>2
  <1>4. ASSUME NEW b \in Blockers, TakeTimesOut(b) PROVE Balanced(c)'
    <2>1. BlockValue * (missed[c] + 1 - lost[c]) = BlockValue * (missed[c] - lost[c]) + BlockValue
      BY <1>t
    <2>2. CASE c = b
      <3>1. /\ missed'[c] = missed[c] + 1 /\ bpc[c] = "take" /\ bpc'[c] = "idle"
            /\ hw' = hw /\ lw' = lw /\ extra' = extra /\ lost' = lost
        BY <1>4, <1>f, <2>2 DEF TakeTimesOut
      <3>2. Raised(c) = BlockValue /\ Raised(c)' = 0
        BY <3>1 DEF Raised
      <3>3. lw[c] + hw[c] = HighWater + 0 + (A + BlockValue) + X
        BY <1>e, <1>t, <3>2
      <3>4. BlockValue * (missed'[c] - lost'[c]) = A + BlockValue
        <4>1. missed'[c] - lost'[c] = missed[c] + 1 - lost[c]
          BY <1>t, <3>1
        <4> QED
          BY <2>1, <4>1 DEF A
      <3> QED
        BY <3>1, <3>2, <3>3, <3>4 DEF Balanced, X
    <2>3. CASE c # b
      BY <1>0, <1>4, <1>f, <2>3 DEF TakeTimesOut, Balanced, Raised
    <2> QED
      BY <2>2, <2>3
  <1>5. ASSUME NEW p \in Posters, PostBegins(p) \/ PostTimesOut(p) \/ PostFails(p)
        PROVE  Balanced(c)'
    BY <1>0, <1>5 DEF PostBegins, PostTimesOut, PostFails, Balanced, Raised
  <1>6. ASSUME NEW p \in Posters, Post(p) PROVE Balanced(c)'
    BY <1>0, <1>6, <1>t, <1>f DEF Post, Balanced, Raised
  <1>7. ASSUME NEW p \in Posters, PostFreely(p) PROVE Balanced(c)'
    <2>1. PostValue * (extra[c] + 1) = PostValue * extra[c] + PostValue
      BY <1>t
    <2>2. CASE c = next[p]
      <3>1. /\ lw'[c] = lw[c] + PostValue /\ extra'[c] = extra[c] + 1
            /\ hw' = hw /\ bpc' = bpc /\ missed' = missed /\ lost' = lost
        BY <1>7, <1>f, <2>2 DEF PostFreely
      <3>2. Raised(c)' = Raised(c) /\ Raised(c) \in Int
        BY <1>t, <3>1 DEF Raised
      <3>3. lw'[c] + hw[c] = HighWater + Raised(c) + A + (X + PostValue)
        BY <1>e, <1>t, <3>1, <3>2
      <3>4. PostValue * extra'[c] = X + PostValue
        BY <2>1, <3>1 DEF X
      <3> QED
        BY <3>1, <3>2, <3>3, <3>4 DEF Balanced, A
    <2>3. CASE c # next[p]
      BY <1>0, <1>7, <1>f, <2>3 DEF PostFreely, Balanced, Raised
    <2> QED
      BY <2>2, <2>3
  <1> QED
    BY <1>1, <1>2, <1>3, <1>4, <1>5, <1>6, <1>7 DEF Next, Blocker, Poster

\* No more semblocks time out than the bound allows.
LEMMA NextMissed ==
  TypeOK /\ (\A b \in Blockers : missed[b] <= MaxMissed) /\ [Next]_vars
    => \A b \in Blockers : missed'[b] <= MaxMissed
  <1> SUFFICES ASSUME TypeOK, \A b \in Blockers : missed[b] <= MaxMissed, [Next]_vars,
                      NEW c \in Blockers
               PROVE  missed'[c] <= MaxMissed
    OBVIOUS
  <1>1. ASSUME NEW b \in Blockers, TakeTimesOut(b) PROVE missed'[c] <= MaxMissed
    BY <1>1, SemflowAssumption DEF TakeTimesOut, TypeOK
  <1>2. ASSUME missed' = missed PROVE missed'[c] <= MaxMissed
    BY <1>2
  <1> QED
    BY <1>1, <1>2 DEF Next, Blocker, Poster, Raise, Take, PostBegins, Post, PostTimesOut,
                      PostFreely, PostFails, vars

\* The backlog of a semblock in balance.
LEMMA Backlog ==
  ASSUME TypeOK, Conserved, NEW b \in Blockers
  PROVE  lw[b] <= HighWater + BlockValue + BlockValue * missed[b] + PostValue * extra[b]
  <1>1. /\ lw[b] \in Nat /\ hw[b] \in Nat /\ missed[b] \in Nat /\ lost[b] \in Nat
        /\ extra[b] \in Nat /\ BlockValue \in Nat /\ PostValue \in Nat /\ HighWater \in Nat
    BY SemflowAssumption DEF TypeOK
  <1>2. Balanced(b)
    BY DEF Conserved
  <1>3. BlockValue * (missed[b] - lost[b]) <= BlockValue * missed[b]
    BY <1>1, TimesMono
  <1>4. BlockValue * (missed[b] - lost[b]) \in Int /\ BlockValue * missed[b] \in Int
        /\ PostValue * extra[b] \in Int
    BY <1>1
  <1> QED
    BY <1>1, <1>2, <1>3, <1>4 DEF Balanced, Raised

\* A sempost fails only if a free post has been made.
LEMMA NextFails == IInv /\ [Next]_vars => FailsOnlyIfFree'
  <1> SUFFICES ASSUME IInv, [Next]_vars,
                      f_abort',
                      HighWater + BlockValue + BlockValue * MaxMissed + PostValue <= SemMax
               PROVE  \E b \in Blockers : extra'[b] > 0
    BY DEF FailsOnlyIfFree
  <1> USE DEF IInv
  <1>1. \A b \in Blockers : extra[b] > 0 => extra'[b] > 0
    <2> SUFFICES ASSUME NEW c \in Blockers, extra[c] > 0 PROVE extra'[c] > 0
      OBVIOUS
    <2>1. ASSUME NEW p \in Posters, PostFreely(p) PROVE extra'[c] > 0
      BY <2>1 DEF PostFreely, TypeOK
    <2>2. ASSUME extra' = extra PROVE extra'[c] > 0
      BY <2>2
    <2> QED
      BY <2>1, <2>2 DEF Next, Blocker, Poster, Raise, Take, TakeTimesOut, PostBegins, Post,
                        PostTimesOut, PostFails, vars
  <1>2. CASE f_abort
    BY <1>1, <1>2 DEF FailsOnlyIfFree
  <1>3. ASSUME NEW p \in Posters, PostFails(p) PROVE \E b \in Blockers : extra'[b] > 0
    <2> DEFINE b == next[p]
    <2>1. b \in Blockers /\ lw[b] + PostValue > SemMax
      BY <1>3, SemflowAssumption DEF PostFails, TypeOK, Blockers
    <2>2. /\ lw[b] \in Nat /\ missed[b] \in Nat /\ extra[b] \in Nat /\ SemMax \in Nat
          /\ BlockValue \in Nat /\ PostValue \in Nat /\ HighWater \in Nat /\ MaxMissed \in Nat
      BY <2>1, SemflowAssumption DEF TypeOK
    <2>3. lw[b] <= HighWater + BlockValue + BlockValue * missed[b] + PostValue * extra[b]
      BY <2>1, Backlog
    <2>4. BlockValue * missed[b] <= BlockValue * MaxMissed
      BY <2>1, <2>2, TimesMono
    <2>5. BlockValue * missed[b] \in Int /\ BlockValue * MaxMissed \in Int
      BY <2>2
    <2>6. extra[b] # 0
      <3> SUFFICES ASSUME extra[b] = 0 PROVE FALSE
        OBVIOUS
      <3>1. PostValue * extra[b] = 0
        BY <2>2
      <3> HIDE DEF b
      <3> QED
        BY <2>1, <2>2, <2>3, <2>4, <2>5, <3>1
    <2> QED
      BY <1>1, <2>1, <2>2, <2>6
  <1> QED
    BY <1>2, <1>3 DEF Next, Blocker, Poster, Raise, Take, TakeTimesOut, PostBegins, Post,
                      PostTimesOut, PostFreely, vars

\* The inductive invariant holds in every reachable state.
THEOREM Invariant == Spec => []IInv
  <1>1. IInv /\ [Next]_vars => IInv'
    BY NextTypeOK, NextConserved, NextMissed, NextFails DEF IInv
  <1> QED
    BY InitIInv, <1>1, PTL DEF Spec

\* Types, in particular the range of the semaphores, are kept.
THEOREM TypeCorrect == Spec => []TypeOK
  BY Invariant, PTL DEF IInv

\* The semaphores of every semblock are in balance in every reachable state.
THEOREM SemaphoresConserved == Spec => []Conserved
  BY Invariant, PTL DEF IInv

\* A semblock and the semposts that block on it never wait for each other.
THEOREM NeverStalls == Spec => []NoStall
  <1>1. IInv => NoStall
    <2> SUFFICES ASSUME IInv, HighWater >= PostValue - 1, NEW b \in Blockers,
                        bpc[b] = "take", lost[b] = 0
                 PROVE  lw[b] >= BlockValue \/ hw[b] >= PostValue
      BY DEF NoStall
    <2>1. /\ lw[b] \in Nat /\ hw[b] \in Nat /\ missed[b] \in Nat /\ extra[b] \in Nat
          /\ BlockValue \in Nat /\ PostValue \in Nat /\ HighWater \in Nat
      BY SemflowAssumption DEF IInv, TypeOK
    <2>2. Balanced(b)
      BY DEF IInv, Conserved
    <2>3. BlockValue * (missed[b] - lost[b]) \in Nat /\ PostValue * extra[b] \in Nat
      BY <2>1
    <2> QED
      BY <2>1, <2>2, <2>3 DEF Balanced, Raised
  <1> QED
    BY Invariant, <1>1, PTL

\* The backlog of a semblock is bounded.
THEOREM BacklogIsBounded == Spec => []BacklogBounded
  <1>1. IInv => BacklogBounded
    BY Backlog DEF IInv, BacklogBounded
  <1> QED
    BY Invariant, <1>1, PTL

\* With blocking semposts only, no sempost fails for want of room.
THEOREM FailureNeedsFreePost == Spec => []FailsOnlyIfFree
  BY Invariant, PTL DEF IInv
=============================================================================
