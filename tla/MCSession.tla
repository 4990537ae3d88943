----------------------------- MODULE MCSession -----------------------------
(* Small instances of Session.                                             *)
EXTENDS Session, TLC

\* Callers are alike, and so are consumers that wait in the same way.
Symmetry == Permutations(Callers) \cup Permutations(Patient)
=============================================================================
