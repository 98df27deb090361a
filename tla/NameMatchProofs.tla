--------------------------- MODULE NameMatchProofs ---------------------------
(***************************************************************************)
(* NamePattern::matches is correct for every pattern and every name, and   *)
(* what the answers of Permissions rest on.                                *)
(***************************************************************************)
EXTENDS NameMatch, Permissions, WellFoundedInduction, TLAPS

-----------------------------------------------------------------------------
(* Induction, stated for sets of numbers.                                  *)

LEMMA LeastElement ==
  ASSUME NEW S, S \subseteq Nat, S # {}
  PROVE  \E x \in S : \A y \in S : x <= y
<1>1. \E R : IsWellFoundedOn(R, Nat) /\ \A x, y \in Nat : y < x => <<y, x>> \in R
  BY NatLessThanWellFounded DEF OpToRel
<1>2. PICK R : IsWellFoundedOn(R, Nat) /\ \A x, y \in Nat : y < x => <<y, x>> \in R
  BY <1>1
<1>3. PICK x \in S : \A y \in S : ~ (<<y, x>> \in R)
  BY <1>2, WFMin
<1>4. \A y \in S : x <= y
  <2> TAKE y \in S
  <2>1. x \in Nat /\ y \in Nat /\ ~ (y < x)
    BY <1>2, <1>3
  <2> QED
    BY <2>1
<1> QED
  BY <1>4

LEMMA SetInduction ==
  ASSUME NEW S, 0 \in S, \A i \in Nat : i \in S => i + 1 \in S
  PROVE  Nat \subseteq S
<1> SUFFICES ASSUME Nat \ S # {} PROVE FALSE
  OBVIOUS
<1>1. PICK x \in Nat \ S : \A y \in Nat \ S : x <= y
  BY LeastElement
<1>2. x - 1 \in Nat /\ (x - 1) + 1 = x
  BY <1>1
<1>3. x - 1 \notin Nat \ S
  BY <1>1, <1>2
<1> QED
  BY <1>1, <1>2, <1>3

-----------------------------------------------------------------------------
(* What a pattern means.                                                   *)

(* No block is empty.                                                      *)
LEMMA SplitsZero ==
  ASSUME NEW p, NEW n, NEW i \in Nat, Len(n) \in Nat
  PROVE  Splits(p, n, 0, i) <=> i = 0
<1>1. ASSUME i = 0 PROVE Splits(p, n, 0, i)
  <2> DEFINE cut == [m \in 0 .. 0 |-> 0]
  <2>1. cut \in [0 .. 0 -> 0 .. Len(n)] /\ cut[0] = 0
    OBVIOUS
  <2>2. \A j \in 1 .. 0 : Covers(p[j], n, cut[j - 1], cut[j])
    OBVIOUS
  <2> HIDE DEF cut
  <2> QED
    BY <1>1, <2>1, <2>2 DEF Splits
<1> QED
  BY <1>1 DEF Splits

(* The last block can be taken off, and another one put on.                *)
LEMMA SplitsStep ==
  ASSUME NEW p, NEW n, Len(n) \in Nat, NEW k \in Nat, NEW i \in 0 .. Len(n)
  PROVE  Splits(p, n, k + 1, i) <=>
           \E j \in 0 .. Len(n) : Splits(p, n, k, j) /\ Covers(p[k + 1], n, j, i)
<1>1. ASSUME Splits(p, n, k + 1, i)
      PROVE  \E j \in 0 .. Len(n) : Splits(p, n, k, j) /\ Covers(p[k + 1], n, j, i)
  <2>1. PICK cut \in [0 .. k + 1 -> 0 .. Len(n)] :
          /\ cut[0] = 0
          /\ cut[k + 1] = i
          /\ \A m \in 1 .. k + 1 : Covers(p[m], n, cut[m - 1], cut[m])
    BY <1>1 DEF Splits
  <2> DEFINE shorter == [m \in 0 .. k |-> cut[m]]
  <2>2. shorter \in [0 .. k -> 0 .. Len(n)]
    OBVIOUS
  <2>3. shorter[0] = 0 /\ shorter[k] = cut[k]
    BY <2>1
  <2>4. \A m \in 1 .. k : Covers(p[m], n, shorter[m - 1], shorter[m])
    <3> TAKE m \in 1 .. k
    <3>1. m \in 1 .. k + 1 /\ shorter[m - 1] = cut[m - 1] /\ shorter[m] = cut[m]
      OBVIOUS
    <3> QED
      BY <2>1, <3>1
  <2> HIDE DEF shorter
  <2>5. Splits(p, n, k, cut[k])
    BY <2>2, <2>3, <2>4 DEF Splits
  <2>6. cut[k] \in 0 .. Len(n) /\ Covers(p[k + 1], n, cut[k], i)
    <3>1. k + 1 \in 1 .. k + 1 /\ (k + 1) - 1 = k
      OBVIOUS
    <3>2. Covers(p[k + 1], n, cut[(k + 1) - 1], cut[k + 1])
      BY <2>1, <3>1
    <3> QED
      BY <2>1, <3>1, <3>2
  <2> QED
    BY <2>5, <2>6
<1>2. ASSUME NEW j \in 0 .. Len(n), Splits(p, n, k, j), Covers(p[k + 1], n, j, i)
      PROVE  Splits(p, n, k + 1, i)
  <2>1. PICK cut \in [0 .. k -> 0 .. Len(n)] :
          /\ cut[0] = 0
          /\ cut[k] = j
          /\ \A m \in 1 .. k : Covers(p[m], n, cut[m - 1], cut[m])
    BY <1>2 DEF Splits
  <2> DEFINE longer == [m \in 0 .. k + 1 |-> IF m = k + 1 THEN i ELSE cut[m]]
  <2>2. longer \in [0 .. k + 1 -> 0 .. Len(n)]
    OBVIOUS
  <2>3. longer[0] = 0 /\ longer[k + 1] = i /\ longer[k] = j
    BY <2>1
  <2>4. \A m \in 1 .. k + 1 : Covers(p[m], n, longer[m - 1], longer[m])
    <3> TAKE m \in 1 .. k + 1
    <3>1. CASE m = k + 1
      <4>1. m - 1 = k
        BY <3>1
      <4> HIDE DEF longer
      <4> QED
        BY <1>2, <2>3, <3>1, <4>1
    <3>2. CASE m # k + 1
      <4>1. m \in 1 .. k /\ longer[m - 1] = cut[m - 1] /\ longer[m] = cut[m]
        BY <3>2
      <4> HIDE DEF longer
      <4> QED
        BY <2>1, <4>1
    <3> QED
      BY <3>1, <3>2
  <2> HIDE DEF longer
  <2> QED
    BY <2>2, <2>3, <2>4 DEF Splits
<1> QED
  BY <1>1, <1>2

(* What LeavesAreSplits says of the leaf k of the pattern p when i sections *)
(* of the name n have been read.                                           *)
Reached(p, n, k, i) ==
  \/ Splits(p, n, k, i)
  \/ /\ k < Len(p)
     /\ p[k + 1] = AnySections
     /\ \E j \in 0 .. i : j < i /\ Splits(p, n, k, j)

AreLeaves(leaf_set, p, n, i) ==
  /\ leaf_set \subseteq 0 .. Len(p)
  /\ \A k \in 0 .. Len(p) : k \in leaf_set <=> Reached(p, n, k, i)

LEMMA FirstLeaves ==
  ASSUME NEW p, NEW n, Len(p) \in Nat, Len(n) \in Nat
  PROVE  AreLeaves({0}, p, n, 0)
<1> SUFFICES ASSUME NEW k \in 0 .. Len(p) PROVE k = 0 <=> Reached(p, n, k, 0)
  BY DEF AreLeaves
<1>1. CASE k = 0
  BY <1>1, SplitsZero DEF Reached
<1>2. CASE k # 0
  <2>1. k - 1 \in Nat /\ (k - 1) + 1 = k /\ 0 \in 0 .. Len(n)
    BY <1>2
  <2>2. ~Splits(p, n, (k - 1) + 1, 0)
    <3>1. \A j \in 0 .. Len(n) : ~Covers(p[(k - 1) + 1], n, j, 0)
      BY DEF Covers
    <3> QED
      BY <2>1, <3>1, SplitsStep
  <2> QED
    BY <1>2, <2>1, <2>2 DEF Reached
<1> QED
  BY <1>1, <1>2

(* Which leaves one pass of the outer loop yields.                         *)
LEMMA NextLeaves ==
  ASSUME NEW p, NEW leaf_set, Len(p) \in Nat, leaf_set \subseteq 0 .. Len(p),
         NEW section, NEW k \in 0 .. Len(p)
  PROVE  k \in next_leaves(p, leaf_set, section) <=>
           \/ k \in leaf_set /\ k < Len(p) /\ p[k + 1] = AnySections
           \/ /\ k > 0
              /\ k - 1 \in leaf_set
              /\ p[k] \in {AnySections, AnyName, section}
<1>1. k \in next_leaves(p, leaf_set, section) <=>
        \E index \in leaf_set : k \in leaves_after(p, index, section)
  BY DEF next_leaves
<1>2. ASSUME NEW index \in leaf_set
      PROVE  k \in leaves_after(p, index, section) <=>
               /\ index < Len(p)
               /\ \/ k = index /\ p[index + 1] = AnySections
                  \/ k = index + 1 /\ p[index + 1] \in {AnySections, AnyName, section}
  BY DEF leaves_after
<1>3. ASSUME k > 0, k - 1 \in leaf_set, p[k] \in {AnySections, AnyName, section}
      PROVE  \E index \in leaf_set : k \in leaves_after(p, index, section)
  <2>1. k - 1 < Len(p) /\ k = (k - 1) + 1
    BY <1>3
  <2> QED
    BY <1>2, <1>3, <2>1
<1>4. ASSUME NEW index \in leaf_set, k \in leaves_after(p, index, section)
      PROVE  \/ k \in leaf_set /\ k < Len(p) /\ p[k + 1] = AnySections
             \/ /\ k > 0
                /\ k - 1 \in leaf_set
                /\ p[k] \in {AnySections, AnyName, section}
  <2>1. CASE k = index
    BY <1>2, <1>4, <2>1
  <2>2. CASE k # index
    <3>1. k = index + 1 /\ index = k - 1 /\ k > 0
      BY <1>2, <1>4, <2>2
    <3> QED
      BY <1>2, <1>4, <2>2, <3>1
  <2> QED
    BY <2>1, <2>2
<1> QED
  BY <1>1, <1>2, <1>3, <1>4

(* One pass of the outer loop extends the cuts by a block that ends with   *)
(* the section it reads, or lets the last block swallow that section.      *)
LEMMA LeavesStep ==
  ASSUME NEW p, NEW n, Len(p) \in Nat, Len(n) \in Nat,
         NEW i \in Nat, i < Len(n),
         NEW leaf_set, AreLeaves(leaf_set, p, n, i)
  PROVE  AreLeaves(next_leaves(p, leaf_set, n[i + 1]), p, n, i + 1)
<1> DEFINE section == n[i + 1]
<1>0. /\ leaf_set \subseteq 0 .. Len(p)
      /\ \A m \in 0 .. Len(p) : m \in leaf_set <=> Reached(p, n, m, i)
      /\ i + 1 \in 0 .. Len(n)
  BY DEF AreLeaves
<1>1. next_leaves(p, leaf_set, section) \subseteq 0 .. Len(p)
  BY <1>0 DEF next_leaves, leaves_after
<1>2. ASSUME NEW k \in 0 .. Len(p)
      PROVE  k \in next_leaves(p, leaf_set, section) <=> Reached(p, n, k, i + 1)
  <2>2. (k \in leaf_set /\ k < Len(p) /\ p[k + 1] = AnySections) <=>
          /\ k < Len(p)
          /\ p[k + 1] = AnySections
          /\ \E j \in 0 .. i + 1 : j < i + 1 /\ Splits(p, n, k, j)
    <3>1. ASSUME k < Len(p), p[k + 1] = AnySections
          PROVE  Reached(p, n, k, i) <=>
                   \E j \in 0 .. i + 1 : j < i + 1 /\ Splits(p, n, k, j)
      <4>1. Reached(p, n, k, i) <=>
              \/ Splits(p, n, k, i)
              \/ \E j \in 0 .. i : j < i /\ Splits(p, n, k, j)
        BY <3>1 DEF Reached
      <4>2. \A j \in 0 .. i + 1 : j < i + 1 <=> j \in 0 .. i
        BY <1>0
      <4>3. \A j \in 0 .. i : j \in 0 .. i + 1 /\ (j < i \/ j = i)
        BY <1>0
      <4>4. i \in 0 .. i + 1 /\ i \in 0 .. i
        BY <1>0
      <4> QED
        BY <4>1, <4>2, <4>3, <4>4
    <3> QED
      BY <1>0, <3>1
  <2>3. (/\ k > 0
         /\ k - 1 \in leaf_set
         /\ p[k] \in {AnySections, AnyName, section})
        <=> Splits(p, n, k, i + 1)
    <3>1. CASE k = 0
      BY <1>0, <3>1, SplitsZero
    <3>2. CASE k # 0
      <4> DEFINE h == k - 1
      <4>1. h \in 0 .. Len(p) /\ h \in Nat /\ h + 1 = k /\ h < Len(p) /\ k > 0
        BY <1>0, <3>2
      <4> HIDE DEF h
      <4>2. Splits(p, n, k, i + 1) <=>
              \E j \in 0 .. Len(n) :
                Splits(p, n, h, j) /\ Covers(p[k], n, j, i + 1)
        <5>1. Splits(p, n, h + 1, i + 1) <=>
                \E j \in 0 .. Len(n) :
                  Splits(p, n, h, j) /\ Covers(p[h + 1], n, j, i + 1)
          BY <1>0, <4>1, SplitsStep
        <5> QED
          BY <4>1, <5>1
      <4>3. h \in leaf_set <=>
              \/ Splits(p, n, h, i)
              \/ /\ p[k] = AnySections
                 /\ \E j \in 0 .. i : j < i /\ Splits(p, n, h, j)
        BY <1>0, <4>1 DEF Reached
      <4>4. \A j \in 0 .. Len(n) : j < i + 1 <=> (j = i \/ (j \in 0 .. i /\ j < i))
        BY <1>0
      <4>5. i \in 0 .. Len(n) /\ \A j \in 0 .. i : j \in 0 .. Len(n)
        BY <1>0
      <4>6. CASE p[k] = AnySections
        <5>1. \A j \in 0 .. Len(n) : Covers(p[k], n, j, i + 1) <=> j < i + 1
          BY <4>6 DEF Covers
        <5> QED
          BY <4>1, <4>2, <4>3, <4>4, <4>5, <4>6, <5>1 DEF h
      <4>7. CASE p[k] # AnySections
        <5>1. \A j \in 0 .. Len(n) :
                Covers(p[k], n, j, i + 1) <=>
                  j = i /\ p[k] \in {AnyName, section}
          BY <1>0, <4>7 DEF Covers
        <5> QED
          BY <4>1, <4>2, <4>3, <4>5, <4>7, <5>1 DEF h
      <4> QED
        BY <4>6, <4>7
    <3> QED
      BY <3>1, <3>2
  <2> QED
    BY <1>0, <2>2, <2>3, NextLeaves DEF Reached
<1> QED
  BY <1>1, <1>2 DEF AreLeaves

-----------------------------------------------------------------------------
(* The loop.                                                               *)

(* Inputs are sequences of sections, so lengths are numbers.               *)
LEMMA InputTypes ==
  ASSUME TypeOK
  PROVE  /\ pattern \in Seq(Sections) /\ Len(pattern) \in Nat
         /\ name \in Seq(Sections) /\ Len(name) \in Nat
         /\ consumed \in Nat
BY InputsAssumption DEF TypeOK, Dotted

Inv == TypeOK /\ AreLeaves(leaves, pattern, name, consumed)

LEMMA MatchInit == Init => Inv
<1> SUFFICES ASSUME Init PROVE Inv
  OBVIOUS
<1>1. TypeOK
  BY InputsAssumption DEF Init, TypeOK, Dotted
<1> QED
  BY <1>1, FirstLeaves, InputTypes DEF Init, Inv

LEMMA MatchStep == Inv /\ [Next]_vars => Inv'
<1> SUFFICES ASSUME Inv, [Next]_vars PROVE Inv'
  OBVIOUS
<1>1. CASE UNCHANGED vars
  BY <1>1 DEF Inv, vars, TypeOK, AreLeaves, Reached
<1>2. CASE ReadSection
  <2>1. /\ pattern' = pattern /\ name' = name
        /\ consumed' = consumed + 1 /\ consumed < Len(name)
        /\ leaves' = next_leaves(pattern, leaves, name[consumed + 1])
    BY <1>2 DEF ReadSection
  <2>2. Len(pattern) \in Nat /\ Len(name) \in Nat /\ consumed \in Nat
    BY InputTypes DEF Inv
  <2>3. AreLeaves(leaves', pattern, name, consumed + 1)
    BY <2>1, <2>2, LeavesStep DEF Inv
  <2>4. TypeOK'
    BY <2>1, <2>2, <2>3 DEF Inv, TypeOK, AreLeaves
  <2>5. AreLeaves(leaves', pattern', name', consumed')
    BY <2>1, <2>3
  <2> QED
    BY <2>4, <2>5 DEF Inv
<1> QED
  BY <1>1, <1>2 DEF Next

(* The loop keeps its types: a leaf is a place in the pattern, its end     *)
(* included, however many sections the name has.                           *)
THEOREM TypeCorrect == Spec => []TypeOK
<1>1. Inv => TypeOK
  BY DEF Inv
<1> QED
  BY <1>1, MatchInit, MatchStep, PTL DEF Spec

(* For every pattern and every name, the leaves are the ways to account    *)
(* for the sections read so far.                                           *)
THEOREM LeavesCorrect == Spec => []LeavesAreSplits
<1>1. Spec => []Inv
  BY MatchInit, MatchStep, PTL DEF Spec
<1>2. Inv => LeavesAreSplits
  BY DEF Inv, AreLeaves, Reached, LeavesAreSplits
<1> QED
  BY <1>1, <1>2, PTL

(* NamePattern::matches accepts exactly the names its pattern stands for,  *)
(* for patterns and names of any length.                                   *)
THEOREM MatchesCorrect == Spec => []MatchIsCorrect
<1>1. Spec => []Inv
  BY MatchInit, MatchStep, PTL DEF Spec
<1>2. Inv => MatchIsCorrect
  <2> SUFFICES ASSUME Inv, consumed = Len(name)
               PROVE  Len(pattern) \in leaves <=>
                        Splits(pattern, name, Len(pattern), Len(name))
    BY DEF MatchIsCorrect
  <2>1. Len(pattern) \in Nat /\ Len(pattern) \in 0 .. Len(pattern)
    BY InputTypes DEF Inv
  <2> QED
    BY <2>1 DEF Inv, AreLeaves, Reached
<1> QED
  BY <1>1, <1>2, PTL

-----------------------------------------------------------------------------
(* The operator.                                                           *)

IsReading(f, p, n, last) ==
  f = [read \in 0 .. last |->
         IF read = 0 THEN {0} ELSE next_leaves(p, f[read - 1], n[read])]

(* The recursion of pattern_tree_leaves is well founded: a reading of some *)
(* sections can be extended by one.                                        *)
LEMMA ReadingExists ==
  ASSUME NEW p, NEW n, NEW last \in Nat
  PROVE  \E f : IsReading(f, p, n, last)
<1> DEFINE S == {m \in Nat : \E f : IsReading(f, p, n, m)}
<1>1. 0 \in S
  <2> DEFINE f == [read \in 0 .. 0 |-> {0}]
  <2>1. IsReading(f, p, n, 0)
    BY DEF IsReading
  <2> QED
    BY <2>1
<1>2. ASSUME NEW m \in Nat, m \in S
      PROVE  m + 1 \in S
  <2>1. PICK f : IsReading(f, p, n, m)
    BY <1>2
  <2> DEFINE g == [read \in 0 .. m + 1 |->
                     IF read = m + 1 THEN next_leaves(p, f[m], n[m + 1]) ELSE f[read]]
  <2>2. ASSUME NEW read \in 0 .. m + 1
        PROVE  g[read] = IF read = 0 THEN {0} ELSE next_leaves(p, g[read - 1], n[read])
    <3>1. CASE read = m + 1
      <4>1. read - 1 = m /\ read # 0 /\ g[m] = f[m]
        BY <3>1
      <4> QED
        BY <3>1, <4>1
    <3>2. CASE read # m + 1
      <4>1. read \in 0 .. m /\ g[read] = f[read]
        BY <3>2
      <4>2. read # 0 => read - 1 \in 0 .. m /\ g[read - 1] = f[read - 1]
        BY <3>2
      <4>3. f[read] = IF read = 0 THEN {0} ELSE next_leaves(p, f[read - 1], n[read])
        BY <2>1, <4>1 DEF IsReading
      <4> HIDE DEF g
      <4> QED
        BY <4>1, <4>2, <4>3
    <3> QED
      BY <3>1, <3>2
  <2>3. g = [read \in 0 .. m + 1 |-> g[read]]
    OBVIOUS
  <2> HIDE DEF g
  <2>4. IsReading(g, p, n, m + 1)
    BY <2>2, <2>3 DEF IsReading
  <2> QED
    BY <2>4
<1> HIDE DEF S
<1>3. last \in S
  BY <1>1, <1>2, SetInduction
<1> QED
  BY <1>3 DEF S

(* What pattern_tree_leaves is, without the recursion.                     *)
LEMMA Reading ==
  ASSUME NEW p, NEW n, Len(n) \in Nat
  PROVE  /\ pattern_tree_leaves(p, n)[0] = {0}
         /\ \A i \in Nat : i < Len(n) =>
              pattern_tree_leaves(p, n)[i + 1] =
                next_leaves(p, pattern_tree_leaves(p, n)[i], n[i + 1])
<1>1. PICK f : IsReading(f, p, n, Len(n))
  BY ReadingExists
<1> DEFINE after == pattern_tree_leaves(p, n)
<1>2. IsReading(after, p, n, Len(n))
  BY <1>1 DEF IsReading, pattern_tree_leaves
<1> HIDE DEF after
<1>3. \A read \in 0 .. Len(n) :
        after[read] = IF read = 0 THEN {0} ELSE next_leaves(p, after[read - 1], n[read])
  BY <1>2 DEF IsReading
<1>4. after[0] = {0}
  BY <1>3
<1>5. ASSUME NEW i \in Nat, i < Len(n)
      PROVE  after[i + 1] = next_leaves(p, after[i], n[i + 1])
  <2>1. i + 1 \in 0 .. Len(n) /\ i + 1 # 0 /\ (i + 1) - 1 = i
    BY <1>5
  <2> QED
    BY <1>3, <2>1
<1> QED
  BY <1>4, <1>5 DEF after

LEMMA ReadingLeaves ==
  ASSUME NEW p, NEW n, Len(p) \in Nat, Len(n) \in Nat, NEW i \in 0 .. Len(n)
  PROVE  AreLeaves(pattern_tree_leaves(p, n)[i], p, n, i)
<1> DEFINE S == {m \in Nat : m <= Len(n) => AreLeaves(pattern_tree_leaves(p, n)[m], p, n, m)}
<1>1. 0 \in S
  BY FirstLeaves, Reading
<1>2. ASSUME NEW m \in Nat, m \in S
      PROVE  m + 1 \in S
  <2> SUFFICES ASSUME m + 1 <= Len(n)
               PROVE  AreLeaves(pattern_tree_leaves(p, n)[m + 1], p, n, m + 1)
    OBVIOUS
  <2>1. m < Len(n) /\ AreLeaves(pattern_tree_leaves(p, n)[m], p, n, m)
    BY <1>2
  <2>2. AreLeaves(next_leaves(p, pattern_tree_leaves(p, n)[m], n[m + 1]), p, n, m + 1)
    BY <2>1, LeavesStep
  <2> QED
    BY <2>1, <2>2, Reading
<1> HIDE DEF S
<1>3. i \in S
  BY <1>1, <1>2, SetInduction
<1> QED
  BY <1>3 DEF S

(* NamePattern::matches as Permissions calls it: a pattern of any length   *)
(* accepts a name of any length exactly if the name can be cut into the    *)
(* blocks that the sections of the pattern stand for.                      *)
THEOREM MatchesMeansSplits ==
  ASSUME NEW p \in Dotted, NEW n \in Dotted
  PROVE  matches(p, n) <=> Splits(p, n, Len(p), Len(n))
<1>1. Len(p) \in Nat /\ Len(n) \in Nat /\ Len(p) \in 0 .. Len(p) /\ Len(n) \in 0 .. Len(n)
  BY DEF Dotted
<1>2. AreLeaves(pattern_tree_leaves(p, n)[Len(n)], p, n, Len(n))
  BY <1>1, ReadingLeaves
<1>3. Len(p) \in pattern_tree_leaves(p, n)[Len(n)] <=> Reached(p, n, Len(p), Len(n))
  BY <1>1, <1>2 DEF AreLeaves
<1> QED
  BY <1>1, <1>3 DEF matches, Reached

-----------------------------------------------------------------------------
(* Permissions.                                                            *)

Directories(Services, Execs) ==
  Seq([Services -> {NoFile, Unopenable, Broken, Invalid} \cup ServiceFile(Execs)])

Opens(dir, service) == dir[service] \notin {NoFile, Unopenable}

(* The i-th directory is the first with a file for the service that opens, *)
(* and what is in that file can be parsed.                                 *)
Decides(dirs, i, service) ==
  /\ i \in DOMAIN dirs
  /\ Opens(dirs[i], service)
  /\ \A j \in 1 .. i - 1 : ~Opens(dirs[j], service)
  /\ dirs[i][service] \notin {Broken, Invalid}

(* The file that opens first decides, or nothing does.                     *)
LEMMA FileParsed ==
  ASSUME NEW dirs, Len(dirs) \in Nat, DOMAIN dirs = 1 .. Len(dirs), NEW service
  PROVE  /\ \A i : Decides(dirs, i, service) =>
                     parse_service_file_json(dirs, service) = dirs[i][service]
         /\ parse_service_file_json(dirs, service) # Invalid =>
              \E i : Decides(dirs, i, service)
<1> DEFINE opening == {i \in 1 .. Len(dirs) : Opens(dirs[i], service)}
           opened == IF opening # {} THEN Min(opening) ELSE 0
<1>1. parse_service_file_json(dirs, service) =
        IF opened = 0 \/ dirs[opened][service] = Broken THEN Invalid ELSE dirs[opened][service]
  BY DEF parse_service_file_json, SelectInSeq, Opens
<1>2. ASSUME opening # {}
      PROVE  /\ opened \in opening
             /\ \A j \in opening : opened <= j
  <2>1. \E x \in opening : \A y \in opening : x <= y
    <3>1. opening \subseteq Nat
      OBVIOUS
    <3> HIDE DEF opening
    <3> QED
      BY <1>2, <3>1, LeastElement
  <2> HIDE DEF opening
  <2> QED
    BY <1>2, <2>1 DEF Min
<1> HIDE DEF opened
<1>3. ASSUME NEW i, Decides(dirs, i, service)
      PROVE  parse_service_file_json(dirs, service) = dirs[i][service]
  <2>1. i \in opening /\ i \in 1 .. Len(dirs)
    BY <1>3 DEF Decides
  <2>2. opened \in 1 .. Len(dirs) /\ opened <= i /\ Opens(dirs[opened], service)
    BY <1>2, <2>1
  <2>3. opened = i
    <3>1. \A j \in 1 .. i - 1 : ~Opens(dirs[j], service)
      BY <1>3 DEF Decides
    <3> HIDE DEF opening
    <3> QED
      BY <2>1, <2>2, <3>1
  <2> QED
    BY <1>1, <1>3, <2>1, <2>3 DEF Decides
<1>4. ASSUME parse_service_file_json(dirs, service) # Invalid
      PROVE  \E i : Decides(dirs, i, service)
  <2>1. opened # 0 /\ dirs[opened][service] \notin {Broken, Invalid}
    BY <1>1, <1>4
  <2>2. opening # {}
    BY <2>1 DEF opened
  <2>3. opened \in 1 .. Len(dirs) /\ Opens(dirs[opened], service)
    BY <1>2, <2>2
  <2>4. \A j \in 1 .. opened - 1 : ~Opens(dirs[j], service)
    BY <1>2, <2>2, <2>3
  <2> QED
    BY <2>1, <2>3, <2>4 DEF Decides
<1> QED
  BY <1>3, <1>4

(* A process may use a name exactly if its executable can be told and the  *)
(* file that decides allows it; a file that does not open is passed over,  *)
(* one that opens and cannot be used is not.                               *)
THEOREM NameAllowedMeans ==
  ASSUME NEW Services, NEW Execs, NEW dirs \in Directories(Services, Execs),
         NEW service \in Services, NEW exec
  PROVE  check_service_name_allowed(dirs, exec, service) <=>
           /\ exec # Unreadable
           /\ \E i : /\ Decides(dirs, i, service)
                    /\ dirs[i][service].exec # Invalid
                    /\ exec \in dirs[i][service].exec
<1> DEFINE json == parse_service_file_json(dirs, service)
<1>1. /\ \A i : Decides(dirs, i, service) => json = dirs[i][service]
      /\ json # Invalid => \E i : Decides(dirs, i, service)
  <2>1. Len(dirs) \in Nat /\ DOMAIN dirs = 1 .. Len(dirs)
    BY DEF Directories
  <2> QED
    BY <2>1, FileParsed
<1>2. \A i : Decides(dirs, i, service) => json # Invalid
  BY <1>1 DEF Decides
<1>3. check_service_name_allowed(dirs, exec, service) <=>
        /\ exec # Unreadable
        /\ json # Invalid
        /\ json.exec # Invalid
        /\ exec \in json.exec
  BY DEF check_service_name_allowed, read_allowed_execs
<1> HIDE DEF json
<1> QED
  BY <1>1, <1>2, <1>3

(* A client may connect to a service exactly if it is privileged, or the   *)
(* file that decides has a list of nothing but patterns one of which       *)
(* accounts for the whole name of the client.                              *)
THEOREM ConnectionAllowedMeans ==
  ASSUME NEW Services, NEW Execs, NEW dirs \in Directories(Services, Execs),
         NEW client \in Dotted, NEW service \in Services
  PROVE  check_connection_allowed(dirs, client, service) <=>
           \/ client \in PrivilegedServices
           \/ /\ ~name_is_invalid(client)
              /\ \E i :
                   LET list == dirs[i][service].incoming_connections
                   IN  /\ Decides(dirs, i, service)
                       /\ list # Invalid
                       /\ \A m \in DOMAIN list :
                            list[m] # Invalid /\ pattern_is_valid(list[m])
                       /\ \E m \in DOMAIN list :
                            Splits(list[m], client, Len(list[m]), Len(client))
<1> DEFINE json == parse_service_file_json(dirs, service)
           list == json.incoming_connections
           patterns == read_allowed_connections(dirs, service)
<1>0. Len(dirs) \in Nat /\ DOMAIN dirs = 1 .. Len(dirs)
  BY DEF Directories
<1>1. /\ \A i : Decides(dirs, i, service) => json = dirs[i][service]
      /\ json # Invalid => \E i : Decides(dirs, i, service)
  BY <1>0, FileParsed
<1>2. \A i : Decides(dirs, i, service) => json # Invalid
  BY <1>1 DEF Decides
<1>3. patterns =
        IF \/ json = Invalid
           \/ list = Invalid
           \/ \E m \in DOMAIN list : list[m] = Invalid \/ ~pattern_is_valid(list[m])
          THEN Invalid
          ELSE list
  BY DEF read_allowed_connections
<1>4. check_connection_allowed(dirs, client, service) <=>
        \/ client \in PrivilegedServices
        \/ /\ patterns # Invalid
           /\ ~name_is_invalid(client)
           /\ \E m \in DOMAIN patterns : matches(patterns[m], client)
  BY DEF check_connection_allowed, is_previleged_service
<1>5. ASSUME json # Invalid, list # Invalid, NEW m \in DOMAIN list, list[m] # Invalid
      PROVE  matches(list[m], client) <=> Splits(list[m], client, Len(list[m]), Len(client))
  <2>1. PICK i : Decides(dirs, i, service) /\ json = dirs[i][service]
    BY <1>1, <1>5
  <2>2. json \in ServiceFile(Execs)
    <3>1. i \in 1 .. Len(dirs) /\ dirs[i][service] \notin {NoFile, Unopenable, Broken, Invalid}
      BY <1>0, <2>1 DEF Decides, Opens
    <3>2. dirs[i] \in [Services -> {NoFile, Unopenable, Broken, Invalid} \cup ServiceFile(Execs)]
      BY <3>1 DEF Directories
    <3> HIDE DEF json
    <3> QED
      BY <2>1, <3>1, <3>2
  <2> HIDE DEF json
  <2>3. list \in Seq(Dotted \cup {Invalid})
    BY <1>5, <2>2 DEF ServiceFile
  <2>4. list[m] \in Dotted
    BY <1>5, <2>3
  <2> QED
    BY <2>4, MatchesMeansSplits
<1> HIDE DEF json, patterns
<1>6. patterns # Invalid <=>
        /\ json # Invalid
        /\ list # Invalid
        /\ \A m \in DOMAIN list : list[m] # Invalid /\ pattern_is_valid(list[m])
  BY <1>3
<1>7. patterns # Invalid => patterns = list
  BY <1>3
<1>8. (patterns # Invalid /\ \E m \in DOMAIN patterns : matches(patterns[m], client)) <=>
        /\ json # Invalid
        /\ list # Invalid
        /\ \A m \in DOMAIN list : list[m] # Invalid /\ pattern_is_valid(list[m])
        /\ \E m \in DOMAIN list : Splits(list[m], client, Len(list[m]), Len(client))
  BY <1>5, <1>6, <1>7
<1> QED
  BY <1>1, <1>2, <1>4, <1>8

=============================================================================
