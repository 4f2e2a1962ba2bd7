----------------------------- MODULE MCEvidence -----------------------------
(***************************************************************************)
(* An instance of Evidence for TLC: two filings and a news item, all about *)
(* one symbol of the universe, or about two.                               *)
(***************************************************************************)
EXTENDS Evidence

MCSymbolOf == [x \in Filings \cup Items |-> CHOOSE s \in Symbols : TRUE]
=============================================================================
