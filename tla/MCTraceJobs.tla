---------------------------- MODULE MCTraceJobs ----------------------------
(* Instances of TraceJobs for TLC. *)
EXTENDS TraceJobs, TLC

CONSTANTS j1, j2, k1, k2

\* Two jobs, of two cases.
TwoCases == j1 :> k1 @@ j2 :> k2
OneJob == j1 :> k1
=============================================================================
