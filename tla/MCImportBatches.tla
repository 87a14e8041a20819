-------------------------- MODULE MCImportBatches --------------------------
(* Files for ImportBatches. *)
EXTENDS ImportBatches, TLC

CONSTANTS statement, correction, ledger, garbled, r1, r2

\* A statement, another one that shares a reference with it, a ledger, and a
\* file that no validation accepts.
FourContents ==
    statement :> {r1, r2} @@ correction :> {r2} @@ ledger :> {r1} @@ garbled :> {r1}

=============================================================================
