-------------------------- MODULE MCSharedProvider --------------------------
(* SharedProvider on a small instance.                                     *)
EXTENDS SharedProvider, TLC

(* Sessions, groups, keys and domains are interchangeable in every safety  *)
(* property.                                                               *)
Symmetry == Permutations(Sessions) \cup Permutations(Groups)
              \cup Permutations(Keys) \cup Permutations(PDs)
=============================================================================
