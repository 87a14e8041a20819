---------------------------- MODULE MCRetention ----------------------------
(* An instance of Retention for TLC. *)
EXTENDS Retention

CONSTANTS exception, job1, job2, daily, retried

=============================================================================
