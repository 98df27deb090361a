-------------------------------- MODULE Lists --------------------------------
(***************************************************************************)
(* What the proofs about the endpoints need to know of subscriber lists.   *)
(***************************************************************************)
EXTENDS Sequences, SequenceTheorems, TLAPS

(* s is on the list; nobody is on it twice.                                *)
In(list, s) == \E i \in DOMAIN list : list[i] = s

Distinct(list) == \A i, j \in DOMAIN list : list[i] = list[j] => i = j

LEMMA InEmpty ==
  ASSUME NEW s PROVE ~In(<<>>, s)
BY DEF In

LEMMA DistinctEmpty == Distinct(<<>>)
BY DEF Distinct

LEMMA InAppend ==
  ASSUME NEW S, NEW list \in Seq(S), NEW t \in S, NEW s
  PROVE  In(Append(list, t), s) <=> In(list, s) \/ s = t
<1> DEFINE longer == Append(list, t)
<1>1. /\ longer \in Seq(S)
      /\ Len(longer) = Len(list) + 1
      /\ \A i \in 1 .. Len(list) : longer[i] = list[i]
      /\ longer[Len(list) + 1] = t
  BY AppendProperties
<1>2. DOMAIN longer = 1 .. Len(list) + 1 /\ DOMAIN list = 1 .. Len(list) /\ Len(list) \in Nat
  BY <1>1, LenProperties
<1> HIDE DEF longer
<1> QED
  BY <1>1, <1>2 DEF In, longer

LEMMA InHeadTail ==
  ASSUME NEW S, NEW list \in Seq(S), list # <<>>, NEW s
  PROVE  In(list, s) <=> s = Head(list) \/ In(Tail(list), s)
<1>1. /\ Tail(list) \in Seq(S)
      /\ Len(Tail(list)) = Len(list) - 1
      /\ \A i \in 1 .. Len(Tail(list)) : Tail(list)[i] = list[i + 1]
  BY HeadTailProperties
<1>2. /\ DOMAIN Tail(list) = 1 .. Len(list) - 1
      /\ DOMAIN list = 1 .. Len(list)
      /\ Len(list) \in Nat \ {0}
      /\ Head(list) = list[1]
  BY <1>1, LenProperties, EmptySeq
<1>3. ASSUME NEW i \in 1 .. Len(list), list[i] = s, s # Head(list)
      PROVE  In(Tail(list), s)
  <2>1. i - 1 \in 1 .. Len(list) - 1 /\ Tail(list)[i - 1] = s
    BY <1>1, <1>2, <1>3
  <2> QED
    BY <1>2, <2>1 DEF In
<1>4. ASSUME NEW i \in 1 .. Len(list) - 1, Tail(list)[i] = s
      PROVE  In(list, s)
  <2>1. i + 1 \in 1 .. Len(list) /\ list[i + 1] = s
    BY <1>1, <1>2, <1>4
  <2> QED
    BY <1>2, <2>1 DEF In
<1> QED
  BY <1>2, <1>3, <1>4 DEF In

LEMMA TailAppend ==
  ASSUME NEW S, NEW list \in Seq(S), list # <<>>, NEW s \in S
  PROVE  /\ Append(list, s) # <<>>
         /\ Tail(Append(list, s)) = Append(Tail(list), s)
<1> DEFINE longer == Append(list, s)
           tail == Tail(list)
<1>1. /\ longer \in Seq(S)
      /\ Len(longer) = Len(list) + 1
      /\ \A i \in 1 .. Len(list) : longer[i] = list[i]
      /\ longer[Len(list) + 1] = s
  BY AppendProperties
<1>2. Len(list) \in Nat \ {0}
  BY LenProperties, EmptySeq
<1>3. /\ tail \in Seq(S)
      /\ Len(tail) = Len(list) - 1
      /\ \A i \in 1 .. Len(tail) : tail[i] = list[i + 1]
  BY HeadTailProperties
<1>4. longer # <<>>
  <2>1. Len(longer) # 0
    BY <1>1, <1>2
  <2> QED
    BY <1>1, <2>1, EmptySeq
<1> HIDE DEF longer, tail
<1>5. /\ Tail(longer) \in Seq(S)
      /\ Len(Tail(longer)) = Len(longer) - 1
      /\ \A i \in 1 .. Len(Tail(longer)) : Tail(longer)[i] = longer[i + 1]
  BY <1>1, <1>4, HeadTailProperties
<1>6. /\ Append(tail, s) \in Seq(S)
      /\ Len(Append(tail, s)) = Len(tail) + 1
      /\ \A i \in 1 .. Len(tail) : Append(tail, s)[i] = tail[i]
      /\ Append(tail, s)[Len(tail) + 1] = s
  BY <1>3, AppendProperties
<1>7. Len(Tail(longer)) = Len(list) /\ Len(Append(tail, s)) = Len(list)
  BY <1>1, <1>2, <1>3, <1>5, <1>6
<1>8. ASSUME NEW i \in 1 .. Len(list) PROVE Tail(longer)[i] = Append(tail, s)[i]
  <2>1. Tail(longer)[i] = longer[i + 1]
    BY <1>5, <1>7
  <2>2. CASE i = Len(list)
    BY <1>1, <1>2, <1>3, <1>6, <2>1, <2>2
  <2>3. CASE i # Len(list)
    <3>1. i + 1 \in 1 .. Len(list) /\ i \in 1 .. Len(tail)
      BY <1>2, <1>3, <2>3
    <3> QED
      BY <1>1, <1>3, <1>6, <2>1, <3>1
  <2> QED
    BY <2>2, <2>3
<1>9. Tail(longer) = Append(tail, s)
  BY <1>5, <1>6, <1>7, <1>8, SeqEqual
<1> QED
  BY <1>4, <1>9 DEF longer, tail

LEMMA DistinctAppend ==
  ASSUME NEW S, NEW list \in Seq(S), NEW s \in S, Distinct(list), ~In(list, s)
  PROVE  Distinct(Append(list, s))
<1> DEFINE longer == Append(list, s)
<1>1. /\ longer \in Seq(S)
      /\ Len(longer) = Len(list) + 1
      /\ \A i \in 1 .. Len(list) : longer[i] = list[i]
      /\ longer[Len(list) + 1] = s
  BY AppendProperties
<1>2. DOMAIN longer = 1 .. Len(list) + 1 /\ DOMAIN list = 1 .. Len(list) /\ Len(list) \in Nat
  BY <1>1, LenProperties
<1> HIDE DEF longer
<1>3. ASSUME NEW i \in DOMAIN longer, NEW j \in DOMAIN longer, longer[i] = longer[j]
      PROVE  i = j
  BY <1>1, <1>2, <1>3 DEF In, Distinct
<1> QED
  BY <1>3 DEF Distinct, longer

LEMMA DistinctTail ==
  ASSUME NEW S, NEW list \in Seq(S), list # <<>>, Distinct(list)
  PROVE  Distinct(Tail(list)) /\ ~In(Tail(list), Head(list))
<1>1. /\ Tail(list) \in Seq(S)
      /\ Len(Tail(list)) = Len(list) - 1
      /\ \A i \in 1 .. Len(Tail(list)) : Tail(list)[i] = list[i + 1]
  BY HeadTailProperties
<1>2. /\ DOMAIN Tail(list) = 1 .. Len(list) - 1
      /\ DOMAIN list = 1 .. Len(list)
      /\ Len(list) \in Nat \ {0}
      /\ Head(list) = list[1]
  BY <1>1, LenProperties, EmptySeq
<1>3. ASSUME NEW i \in 1 .. Len(list) - 1, NEW j \in 1 .. Len(list) - 1,
             Tail(list)[i] = Tail(list)[j]
      PROVE  i = j
  <2>1. i + 1 \in DOMAIN list /\ j + 1 \in DOMAIN list /\ list[i + 1] = list[j + 1]
    BY <1>1, <1>2, <1>3
  <2>2. i + 1 = j + 1
    BY <2>1 DEF Distinct
  <2> QED
    BY <2>2
<1>4. ASSUME NEW i \in 1 .. Len(list) - 1, Tail(list)[i] = Head(list)
      PROVE  FALSE
  <2>1. i + 1 \in DOMAIN list /\ 1 \in DOMAIN list /\ list[i + 1] = list[1]
    BY <1>1, <1>2, <1>4
  <2>2. i + 1 = 1
    BY <2>1 DEF Distinct
  <2> QED
    BY <2>2
<1> QED
  BY <1>2, <1>3, <1>4 DEF Distinct, In

(* The k elements of a list that follow its first j.                       *)
LEMMA Stretch ==
  ASSUME NEW S, NEW list \in Seq(S), NEW j \in Nat, NEW k \in Nat, j + k <= Len(list)
  PROVE  /\ SubSeq(list, j + 1, j + k) \in Seq(S)
         /\ Len(SubSeq(list, j + 1, j + k)) = k
         /\ \A i \in 1 .. k : SubSeq(list, j + 1, j + k)[i] = list[j + i]
<1> DEFINE m == j + 1
           n == j + k
<1>1. m \in Int /\ n \in Int /\ Len(list) \in Nat
  BY LenProperties
<1>2. \A i \in m .. n : list[i] \in S
  BY ElementOfSeq
<1>3. /\ SubSeq(list, m, n) \in Seq(S)
      /\ Len(SubSeq(list, m, n)) = IF m <= n THEN n - m + 1 ELSE 0
      /\ \A i \in 1 .. n - m + 1 : SubSeq(list, m, n)[i] = list[m + i - 1]
  <2> HIDE DEF m, n
  <2> QED
    BY <1>1, <1>2, SubSeqProperties
<1>4. Len(SubSeq(list, m, n)) = k
  <2>1. CASE m <= n
    <3>1. Len(SubSeq(list, m, n)) = n - m + 1
      BY <1>3, <2>1
    <3> QED
      BY <3>1
  <2>2. CASE ~(m <= n)
    <3>1. Len(SubSeq(list, m, n)) = 0
      BY <1>3, <2>2
    <3>2. k = 0
      BY <2>2
    <3> QED
      BY <3>1, <3>2
  <2> QED
    BY <2>1, <2>2
<1>5. ASSUME NEW i \in 1 .. k PROVE SubSeq(list, m, n)[i] = list[j + i]
  <2>1. i \in 1 .. n - m + 1 /\ m + i - 1 = j + i
    OBVIOUS
  <2>2. SubSeq(list, m, n)[i] = list[m + i - 1]
    BY <1>3, <2>1
  <2> QED
    BY <2>1, <2>2
<1> QED
  BY <1>3, <1>4, <1>5
===============================================================================
