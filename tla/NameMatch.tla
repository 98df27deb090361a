------------------------------ MODULE NameMatch ------------------------------
(***************************************************************************)
(* The loop of NamePattern::matches as a state machine: one step per       *)
(* section of the name.  The reference it is checked against says what a   *)
(* pattern means without any search: the name can be cut into as many      *)
(* blocks as the pattern has sections, `**` covering a block of one or     *)
(* more sections, `*` a block of one, a plain section itself.              *)
(***************************************************************************)
EXTENDS ServiceNames

CONSTANTS
  Patterns,  \* the pattern strings that are compared
  Names      \* the service names that are compared

ASSUME InputsAssumption ==
  /\ Patterns \subseteq {p \in Dotted : pattern_is_valid(p)}
  /\ Names    \subseteq {n \in Dotted : ~name_is_invalid(n)}

VARIABLES
  pattern,    \* self.section_patterns
  name,       \* name_sections
  consumed,   \* how many sections the outer loop has read
  leaves      \* pattern_tree_leaves

vars == <<pattern, name, consumed, leaves>>

TypeOK ==
  /\ pattern \in Patterns
  /\ name \in Names
  /\ consumed \in 0 .. Len(name)
  /\ leaves \in SUBSET (0 .. Len(pattern))

Init ==
  /\ pattern \in Patterns
  /\ name \in Names
  /\ consumed = 0
  /\ leaves = {0}

ReadSection ==
  /\ consumed < Len(name)
  /\ leaves' = next_leaves(pattern, leaves, name[consumed + 1])
  /\ consumed' = consumed + 1
  /\ UNCHANGED <<pattern, name>>

Next == ReadSection

Spec == Init /\ [][Next]_vars

-----------------------------------------------------------------------------
(* The block of the name after section `from` and up to section `to` is    *)
(* what one section of the pattern stands for.                             *)
Covers(section, n, from, to) ==
  \/ section = AnySections /\ from < to
  \/ section # AnySections /\ to = from + 1 /\ section \in {AnyName, n[to]}

(* The first i sections of n can be cut into blocks that the first k       *)
(* sections of p cover; cut[j] is where the block of section j ends.       *)
Splits(p, n, k, i) ==
  \E cut \in [0 .. k -> 0 .. Len(n)] :
    /\ cut[0] = 0
    /\ cut[k] = i
    /\ \A j \in 1 .. k : Covers(p[j], n, cut[j - 1], cut[j])

(* A leaf says how much of the pattern accounts for what has been read:    *)
(* the sections before it do, or they account for a shorter part and the   *)
(* `**` at the leaf has swallowed the rest.                                *)
LeavesAreSplits ==
  \A k \in 0 .. Len(pattern) :
    k \in leaves <=>
      \/ Splits(pattern, name, k, consumed)
      \/ /\ k < Len(pattern)
         /\ pattern[k + 1] = AnySections
         /\ \E i \in 0 .. consumed : i < consumed /\ Splits(pattern, name, k, i)

(* NamePattern::matches answers true exactly for the names the pattern     *)
(* stands for.                                                             *)
MatchIsCorrect ==
  consumed = Len(name) =>
    (Len(pattern) \in leaves <=> Splits(pattern, name, Len(pattern), Len(name)))
=============================================================================
