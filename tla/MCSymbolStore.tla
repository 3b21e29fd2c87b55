----------------------------- MODULE MCSymbolStore -----------------------------
(* Values for model checking SymbolStore: a single file and an archive with an   *)
(* entry that cannot be stored.                                                 *)
EXTENDS SymbolStore

\* Jobs are compared only for equality.
MCSymmetry == Permutations(Jobs)

MCUploads == {<<3>>, <<1, Invalid, 2>>}
================================================================================
