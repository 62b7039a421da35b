----------------------------- MODULE MCReadJobs -----------------------------
(* The instances of ReadJobs that TLC checks.                              *)
EXTENDS ReadJobs, TLC

=============================================================================
