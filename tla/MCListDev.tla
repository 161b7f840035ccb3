------------------------------ MODULE MCListDev ------------------------------
(***************************************************************************)
(* ListDev for TLC: no program and no element is special.                  *)
(***************************************************************************)
EXTENDS ListDev

ProcsAndElems == Permutations(Procs) \cup Permutations(Elems)

=============================================================================
