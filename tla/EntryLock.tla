----------------------------- MODULE EntryLock -----------------------------
(***************************************************************************)
(* What FSE_BUSY promises the flowops: a table of exclusive claims.  A      *)
(* thread claims at most one entry at a time and an entry is claimed by at *)
(* most one thread.  No thread ever waits for a claim while it has one, so *)
(* the claims cannot deadlock.                                             *)
(***************************************************************************)
CONSTANTS Threads, Entries

VARIABLE claims   \* the pairs <<t, e>> such that thread t has entry e claimed

Init == claims = {}

Claim(t, e) ==
  /\ \A c \in claims : c[1] # t /\ c[2] # e
  /\ claims' = claims \cup {<<t, e>>}

GiveBack(t, e) ==
  /\ <<t, e>> \in claims
  /\ claims' = claims \ {<<t, e>>}

Next == \E t \in Threads, e \in Entries : Claim(t, e) \/ GiveBack(t, e)

Spec == Init /\ [][Next]_claims
=============================================================================
