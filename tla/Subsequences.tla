---------------------------- MODULE Subsequences ----------------------------
(* Selecting from a sequence by membership in a set: Vec::retain and       *)
(* Iterator::filter for a predicate given by the set of values it accepts. *)
EXTENDS Naturals, Sequences

(* What has been kept of the first n elements.                             *)
KeptOf(s, T) ==
    LET kept[n \in 0 .. Len(s)] ==
            IF n = 0 THEN <<>>
            ELSE IF s[n] \in T THEN Append(kept[n - 1], s[n])
            ELSE kept[n - 1]
    IN  kept

(* The elements of s that are in T, in their order.                        *)
Keep(s, T) == KeptOf(s, T)[Len(s)]
=============================================================================
