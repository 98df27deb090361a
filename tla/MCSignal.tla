------------------------------ MODULE MCSignal ------------------------------
(* Two subscribers, three emissions and one that cannot be serialized.     *)
EXTENDS Signal

CONSTANTS s1, s2, e1, e2, e3, e4

MCSubs  == {s1, s2}
MCEmits == {e1, e2, e3, e4}
MCUnserializable == {e4}
=============================================================================
