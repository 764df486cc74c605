----------------------------- MODULE MCLimiter -----------------------------
(***************************************************************************)
(* An instance of Limiter for TLC.                                         *)
(***************************************************************************)
EXTENDS Limiter, TLC

CONSTANTS l1, l2

\* A limiter with a target, l1, shares the events with one without, l2.
Pairs == {l1 :> "bw" @@ l2 :> "ops", l1 :> "ops" @@ l2 :> "event"}
=============================================================================
