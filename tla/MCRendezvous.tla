---------------------------- MODULE MCRendezvous ----------------------------
(* Rendezvous with up to three readers in two groups.                      *)
EXTENDS Rendezvous

CONSTANTS r1, r2, r3, g1, g2

TwoGroups == [r \in Readers |-> IF r = r2 THEN g2 ELSE g1]

(* The failures of a behaviour, and how often each reader updates in it.   *)
(* r3 speaks another version; r1's third update follows one that timed out *)
(* on an open session.                                                     *)
Late  == {"idle", "timeout"}
Every == {"crash", "idle", "timeout", "refuse"}
Regimes == {{}, Late, Every}

Times(n1, n2, n3) ==
    [r \in Readers |-> CASE r = r1 -> n1 [] r = r2 -> n2 [] r = r3 -> n3]

UpdatesIn ==
    [f \in Regimes |-> CASE f = {}    -> Times(2, 2, 1)
                         [] f = Late  -> Times(3, 0, 1)
                         [] f = Every -> Times(2, 1, 0)]

Once == [f \in FaultSets |-> [r \in Readers |-> 1]]
=============================================================================
