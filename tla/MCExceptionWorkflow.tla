------------------------ MODULE MCExceptionWorkflow ------------------------
(* Instances of ExceptionWorkflow for TLC: who takes part. *)
EXTENDS ExceptionWorkflow

CONSTANTS analyst, approver, admin

=============================================================================
