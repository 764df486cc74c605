----------------------------- MODULE MCFlowops -----------------------------
(* The programs that Flowops is checked with.                              *)
EXTENDS Flowops

Op(name, kind, target) == [name |-> name, kind |-> kind, target |-> target, inner |-> <<>>]

Comp(name, inner) == [name |-> name, kind |-> "composite", target |-> NULL, inner |-> inner]

\* A thread that blocks in a composite and then wakes itself, and one that wakes
\* it from the thread and from a composite: all look up the same name.  The inner
\* flowops are named after their composites.
Wakers ==
  <<<<Comp("c", <<Op("c.b", "block", NULL), Op("c.w", "wakeup", "c.b")>>)>>,
    <<Op("w", "wakeup", "c.b"), Comp("d", <<Op("d.w", "wakeup", "c.b")>>)>>>>
=============================================================================
