-------------------------- MODULE MCSymbolRegistry --------------------------
(***************************************************************************)
(* Model-checking definitions for SymbolRegistry.                          *)
(***************************************************************************)
EXTENDS SymbolRegistry, TLC

\* Sessions, and topics, are interchangeable in Init, Next and the invariants.
SymSessionsTopics == Permutations(Sessions) \cup Permutations(Topics)
=============================================================================
