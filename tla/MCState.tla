------------------------------- MODULE MCState -------------------------------
(* Two subscribers and three sets, one of which cannot be serialized.      *)
EXTENDS State

CONSTANTS s1, s2, v0, v1, v2, v3

MCSubs   == {s1, s2}
MCValues == {v0, v1, v2, v3}
MCUnserializable == {v3}
=============================================================================
