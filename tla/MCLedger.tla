------------------------------- MODULE MCLedger -------------------------------
(***************************************************************************)
(* Ledger with one repository, of which there is a receipt from outside    *)
(* and a rehearsal.                                                        *)
(***************************************************************************)
EXTENDS Ledger

SameRepo == [m \in Missions |-> CHOOSE r \in Repos : TRUE]
=============================================================================
