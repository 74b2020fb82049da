----------------------------- MODULE MCOneSided -----------------------------
(* OneSided on a region of six bytes in an address space of sixteen, with  *)
(* two-byte elements and lengths cut to two bits.                          *)
EXTENDS OneSided

MCLayout  == <<2, 2>>
MCLayouts == {<<2, 2>>, <<1, 1>>}
=============================================================================
