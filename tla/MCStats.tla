------------------------------ MODULE MCStats ------------------------------
(***************************************************************************)
(* An instance of Stats for TLC.                                           *)
(***************************************************************************)
EXTENDS Stats, TLC

\* Two threads of one process, the first with two iterations.
OneProc == (1 :> "p" @@ 2 :> "p")
TwoIters == (1 :> 2 @@ 2 :> 1)

\* finishonbytes, and finishoncount with a target in one of the threads.
TwoKinds == {[by |-> "bytes", targeted |-> {}], [by |-> "count", targeted |-> {2}]}
=============================================================================
