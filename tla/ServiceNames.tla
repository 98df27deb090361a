---------------------------- MODULE ServiceNames ----------------------------
(***************************************************************************)
(* Service names and name patterns (krossbar-hub/src/service_names.rs).    *)
(*                                                                         *)
(* The source splits a dotted string into sections and compares sections.  *)
(* Here a name or a pattern is that sequence of sections.  A section is a  *)
(* string; the only thing the source asks of its characters is whether     *)
(* there are none and whether one of them is an asterisk.                  *)
(***************************************************************************)
EXTENDS Naturals, SequencesExt

CONSTANTS
  Sections,    \* the section strings that occur between dots
  Asterisked   \* those of them that contain an asterisk

AnyName     == "*"
AnySections == "**"

ASSUME SectionsAssumption ==
  /\ Asterisked \subseteq Sections
  /\ {AnyName, AnySections} \cap Sections \subseteq Asterisked
  /\ "" \notin Asterisked

(* What str::split yields: at least one section.                           *)
Dotted == Seq(Sections) \ {<<>>}

(* NamePattern::from_string succeeds: every section parses as `*`, `**` or  *)
(* a plain non-empty string (NameSectionPattern::from_string).             *)
pattern_is_valid(string) ==
  \A i \in DOMAIN string :
    /\ string[i] # ""
    /\ string[i] \in Asterisked => string[i] \in {AnyName, AnySections}

(* NamePattern::matches returns an error for such a name.                  *)
name_is_invalid(name) ==
  \E i \in DOMAIN name : name[i] \in Asterisked \/ name[i] = ""

(* Seeded bug: `**` also lets the section after it start, as if `**` could *)
(* stand for nothing.                                                      *)
leaves_after_skipping(pattern, index, section) ==
  IF index = Len(pattern) THEN {}
  ELSE IF pattern[index + 1] = AnySections THEN {index, index + 1, index + 2}
  ELSE IF pattern[index + 1] \in {AnyName, section} THEN {index + 1}
  ELSE {}

(* Seeded bug: `**` stands for one section only.                           *)
leaves_after_moving(pattern, index, section) ==
  IF index = Len(pattern) THEN {}
  ELSE IF pattern[index + 1] \in {AnySections, AnyName, section} THEN {index + 1}
  ELSE {}

(* Seeded bug: a pattern that is used up matches whatever follows.         *)
leaves_after_prefix(pattern, index, section) ==
  IF index = Len(pattern) THEN {index}
  ELSE IF pattern[index + 1] = AnySections THEN {index, index + 1}
  ELSE IF pattern[index + 1] \in {AnyName, section} THEN {index + 1}
  ELSE {}

(* One pass of the inner loop: where the leaf `index` goes when it reads a *)
(* section of the name.                                                    *)
leaves_after(pattern, index, section) ==
  IF index = Len(pattern) THEN {}
  ELSE IF pattern[index + 1] = AnySections THEN {index, index + 1}
  ELSE IF pattern[index + 1] \in {AnyName, section} THEN {index + 1}
  ELSE {}

(* One pass of the outer loop: next_pattern_tree_leaves.                   *)
next_leaves(pattern, leaves, section) ==
  UNION {leaves_after(pattern, index, section) : index \in leaves}

(* The outer loop: pattern_tree_leaves after each number of sections read. *)
pattern_tree_leaves(pattern, name) ==
  LET after[read \in 0 .. Len(name)] ==
        IF read = 0 THEN {0} ELSE next_leaves(pattern, after[read - 1], name[read])
  IN  after

(* NamePattern::matches of a valid name.                                   *)
matches(pattern, name) == Len(pattern) \in pattern_tree_leaves(pattern, name)[Len(name)]
=============================================================================
