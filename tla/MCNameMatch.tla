----------------------------- MODULE MCNameMatch -----------------------------
(* Every pattern of up to three sections against every name of up to four. *)
EXTENDS NameMatch

CONSTANTS
  MaxPattern,  \* sections of a pattern
  MaxName      \* sections of a name

MCSections   == {"a", "b", "*", "**"}
MCAsterisked == {"*", "**"}
MCPatterns   == UNION {[1 .. k -> MCSections] : k \in 1 .. MaxPattern}
MCNames      == UNION {[1 .. k -> MCSections \ MCAsterisked] : k \in 1 .. MaxName}
=============================================================================
