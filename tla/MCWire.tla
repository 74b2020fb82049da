------------------------------- MODULE MCWire -------------------------------
(* Wire with bytes 0 .. 31, integers of one byte and u64 of two: a catalog *)
(* of one region fits a frame, one of two does not.                        *)
EXTENDS Wire

Msg(ty, fields, rows) == [ty |-> ty, fields |-> fields, rows |-> rows]
Region(id, size) == <<id, <<7>>, size, 2, 1, <<>>>>
Tuple(id) == <<id, 40, 3, 9>>

MCMessages == {
    Msg(Hello, <<1>>, <<>>),
    Msg(WantGroup, <<3>>, <<>>),
    Msg(Update, <<>>, <<>>),
    Msg(Metadata, <<>>, <<Region(1, 35)>>),
    Msg(Metadata, <<>>, <<Region(1, 35), Region(2, 3)>>),
    Msg(Tuples, <<3>>, <<Tuple(1)>>) }
=============================================================================
