------------------------------ MODULE MCCustody ------------------------------
(***************************************************************************)
(* An instance of Custody for TLC: no check relates two files, so there is *)
(* one, of two rows and a torn one, and two backups of the same second.    *)
(***************************************************************************)
EXTENDS Custody

CONSTANTS ledger

OneFile == <<ledger>>
=============================================================================
