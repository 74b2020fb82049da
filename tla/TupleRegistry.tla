--------------------------- MODULE TupleRegistry ---------------------------
(***************************************************************************)
(* What the provider promises its readers, all groups together: a table    *)
(* from (region, group) to the address, size and key that reach the region *)
(* for that group.  It grows until the provider goes away as a whole, no   *)
(* entry is ever retracted or moved to other memory, and no two entries    *)
(* share a key.  The one weak spot is a pair two threads raced for: its    *)
(* key may still change.                                                   *)
(***************************************************************************)
EXTENDS Naturals

CONSTANTS Pairs, Tuples
VARIABLES
    table,  \* <<region, group>> -> tuple
    raced,  \* pairs whose key may change
    open    \* the provider has not gone away

vars == <<table, raced, open>>

Init == table = [p \in {} |-> 0] /\ raced = {} /\ open = TRUE

(* d may stand beside the other entries: its own key; the same memory as   *)
(* its region has for other groups, and other memory than other regions.   *)
Fits(p, d) ==
    \A q \in DOMAIN table \ {p} :
        /\ d.key # table[q].key
        /\ d.addr = table[q].addr <=> p[1] = q[1]
        /\ p[1] = q[1] => d.size = table[q].size

Publish(p, d) ==
    /\ open
    /\ p \notin DOMAIN table
    /\ Fits(p, d)
    /\ table' = [q \in DOMAIN table \cup {p} |-> IF q = p THEN d ELSE table[q]]
    /\ UNCHANGED <<raced, open>>

Replace(p, d) ==
    /\ open
    /\ p \in DOMAIN table \cap raced
    /\ d.addr = table[p].addr /\ d.size = table[p].size
    /\ Fits(p, d)
    /\ table' = [table EXCEPT ![p] = d]
    /\ UNCHANGED <<raced, open>>

Race(p) ==
    /\ open
    /\ raced' = raced \cup {p}
    /\ UNCHANGED <<table, open>>

Close ==
    /\ open
    /\ open' = FALSE
    /\ table' = [p \in {} |-> 0]
    /\ UNCHANGED raced

Next ==
    \/ \E p \in Pairs : Race(p) \/ \E d \in Tuples : Publish(p, d) \/ Replace(p, d)
    \/ Close

Spec == Init /\ [][Next]_vars
=============================================================================
