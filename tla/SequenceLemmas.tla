--------------------------- MODULE SequenceLemmas ---------------------------
(***************************************************************************)
(* What the operators on sequences that the modules use return.            *)
(***************************************************************************)
EXTENDS Integers, Sequences, SequencesExt, TLAPS

\* The two parts a sequence is cut into.
LEMMA CutFacts ==
    ASSUME NEW S, NEW s \in Seq(S), NEW n \in 0 .. Len(s)
    PROVE  /\ SubSeq(s, 1, n) \in Seq(S) /\ Len(SubSeq(s, 1, n)) = n
           /\ SubSeq(s, n + 1, Len(s)) \in Seq(S)
           /\ Len(SubSeq(s, n + 1, Len(s))) = Len(s) - n
           /\ \A k \in 1 .. n : SubSeq(s, 1, n)[k] = s[k]
           /\ \A k \in 1 .. Len(s) - n : SubSeq(s, n + 1, Len(s))[k] = s[n + k]
OBVIOUS

\* The elements of a sequence.
LEMMA ElementFacts ==
    ASSUME NEW S, NEW s \in Seq(S)
    PROVE  /\ Len(s) \in Nat
           /\ \A x : x \in ToSet(s) <=> \E k \in 1 .. Len(s) : s[k] = x
           /\ \A k \in 1 .. Len(s) : s[k] \in S
           /\ ToSet(s) \subseteq S
BY DEF ToSet

\* A sequence without one of its elements.
LEMMA RemoveFacts ==
    ASSUME NEW S, NEW s \in Seq(S), NEW i \in 1 .. Len(s)
    PROVE  /\ RemoveAt(s, i) \in Seq(S) /\ Len(RemoveAt(s, i)) = Len(s) - 1
           /\ \A k \in 1 .. Len(s) - 1 :
                 RemoveAt(s, i)[k] = IF k < i THEN s[k] ELSE s[k + 1]
<1>1. /\ SubSeq(s, 1, i - 1) \in Seq(S) /\ Len(SubSeq(s, 1, i - 1)) = i - 1
      /\ \A k \in 1 .. i - 1 : SubSeq(s, 1, i - 1)[k] = s[k]
    OBVIOUS
<1>2. /\ SubSeq(s, i + 1, Len(s)) \in Seq(S) /\ Len(SubSeq(s, i + 1, Len(s))) = Len(s) - i
      /\ \A k \in 1 .. Len(s) - i : SubSeq(s, i + 1, Len(s))[k] = s[i + k]
    OBVIOUS
<1> DEFINE a == SubSeq(s, 1, i - 1)
           b == SubSeq(s, i + 1, Len(s))
<1>3. RemoveAt(s, i) = a \o b
    BY DEF RemoveAt
<1> HIDE DEF a, b
<1>4. a \in Seq(S) /\ b \in Seq(S) /\ Len(a) = i - 1 /\ Len(b) = Len(s) - i /\ Len(s) \in Nat
    BY <1>1, <1>2 DEF a, b
<1>5. a \o b \in Seq(S) /\ Len(a \o b) = Len(s) - 1
    BY <1>4
<1>6. ASSUME NEW k \in 1 .. Len(s) - 1
      PROVE  (a \o b)[k] = IF k < i THEN s[k] ELSE s[k + 1]
    <2>1. CASE k < i
        <3>1. (a \o b)[k] = a[k]
            BY <1>4, <2>1
        <3> QED
            BY <1>1, <2>1, <3>1 DEF a
    <2>2. CASE ~(k < i)
        <3>1. (a \o b)[k] = b[k - Len(a)] /\ k - Len(a) \in 1 .. Len(s) - i
            BY <1>4, <2>2
        <3> QED
            BY <1>2, <1>4, <2>2, <3>1 DEF b
    <2> QED
        BY <2>1, <2>2
<1> QED
    BY <1>3, <1>5, <1>6

\* Without its first element a sequence is its tail.
LEMMA WithoutHead ==
    ASSUME NEW S, NEW x \in S, NEW s \in Seq(S)
    PROVE  RemoveAt(<<x>> \o s, 1) = s
<1> DEFINE t == <<x>> \o s
           r == RemoveAt(t, 1)
<1>1. /\ t \in Seq(S) /\ Len(t) = Len(s) + 1 /\ Len(s) \in Nat
      /\ \A k \in 1 .. Len(s) : t[k + 1] = s[k]
    OBVIOUS
<1> HIDE DEF t
<1>2. 1 \in 1 .. Len(t)
    BY <1>1
<1>3. /\ r \in Seq(S) /\ Len(r) = Len(t) - 1
      /\ \A k \in 1 .. Len(t) - 1 : r[k] = IF k < 1 THEN t[k] ELSE t[k + 1]
    BY <1>1, <1>2, RemoveFacts
<1> HIDE DEF r
<1>4. r \in Seq(S) /\ Len(r) = Len(s)
    BY <1>1, <1>3
<1>5. ASSUME NEW k \in 1 .. Len(s)
      PROVE  r[k] = s[k]
    <2>1. k \in 1 .. Len(t) - 1 /\ ~(k < 1)
        BY <1>1
    <2> QED
        BY <1>1, <1>3, <2>1
<1>6. r = s
    BY <1>4, <1>5
<1> QED
    BY <1>6 DEF r, t

\* What is put in front of a sequence comes first.
LEMMA PrependFacts ==
    ASSUME NEW S, NEW x \in S, NEW s \in Seq(S)
    PROVE  /\ <<x>> \o s \in Seq(S) /\ Len(<<x>> \o s) = Len(s) + 1
           /\ Tail(<<x>> \o s) = s /\ (<<x>> \o s)[1] = x
           /\ ToSet(<<x>> \o s) = {x} \union ToSet(s)
<1>1. <<x>> \o s \in Seq(S) /\ Len(<<x>> \o s) = Len(s) + 1
      /\ (<<x>> \o s)[1] = x /\ \A k \in 1 .. Len(s) : (<<x>> \o s)[k + 1] = s[k]
    OBVIOUS
<1>2. Tail(<<x>> \o s) = s
    OBVIOUS
<1>3. ToSet(<<x>> \o s) = {x} \union ToSet(s)
    <2>1. ASSUME NEW k \in 1 .. Len(s) + 1
          PROVE  (<<x>> \o s)[k] = x \/ \E l \in 1 .. Len(s) : (<<x>> \o s)[k] = s[l]
        <3>1. CASE k = 1
            BY <1>1, <3>1
        <3>2. CASE k # 1
            <4>1. k - 1 \in 1 .. Len(s) /\ (k - 1) + 1 = k
                BY <3>2
            <4> QED
                BY <1>1, <4>1
        <3> QED
            BY <3>1, <3>2
    <2>2. ASSUME NEW l \in 1 .. Len(s)
          PROVE  \E k \in 1 .. Len(s) + 1 : (<<x>> \o s)[k] = s[l]
        <3>1. Len(s) \in Nat /\ l + 1 \in 1 .. Len(s) + 1
            OBVIOUS
        <3>2. (<<x>> \o s)[l + 1] = s[l]
            BY <1>1
        <3> QED
            BY <3>1, <3>2
    <2> DEFINE t == <<x>> \o s
    <2>3. t \in Seq(S) /\ Len(t) = Len(s) + 1 /\ t[1] = x /\ 1 \in 1 .. Len(s) + 1
        BY <1>1
    <2> HIDE DEF t
    <2>4. \A y : y \in ToSet(t) <=> \E k \in 1 .. Len(s) + 1 : t[k] = y
        BY <2>3, ElementFacts
    <2>5. \A y : y \in ToSet(s) <=> \E k \in 1 .. Len(s) : s[k] = y
        BY ElementFacts
    <2>6. /\ \A k \in 1 .. Len(s) + 1 : t[k] = x \/ \E l \in 1 .. Len(s) : t[k] = s[l]
          /\ \A l \in 1 .. Len(s) : \E k \in 1 .. Len(s) + 1 : t[k] = s[l]
        BY <2>1, <2>2 DEF t
    <2>7. ToSet(t) = {x} \union ToSet(s)
        BY <2>3, <2>4, <2>5, <2>6
    <2> QED
        BY <2>7 DEF t
<1> QED
    BY <1>1, <1>2, <1>3

\* Two elements put in front of a sequence.
LEMMA PairFacts ==
    ASSUME NEW S, NEW x \in S, NEW y \in S, NEW s \in Seq(S)
    PROVE  /\ <<x, y>> \o s \in Seq(S) /\ Len(<<x, y>> \o s) = Len(s) + 2
           /\ (<<x, y>> \o s)[1] = x /\ (<<x, y>> \o s)[2] = y
           /\ \A k \in 1 .. Len(s) + 2 :
                 k = 1 \/ k = 2 \/ (k - 2 \in 1 .. Len(s) /\ (<<x, y>> \o s)[k] = s[k - 2])
<1>1. <<x, y>> \in Seq(S) /\ Len(<<x, y>>) = 2 /\ Len(s) \in Nat
    OBVIOUS
<1>2. /\ <<x, y>> \o s \in Seq(S) /\ Len(<<x, y>> \o s) = Len(s) + 2
      /\ (<<x, y>> \o s)[1] = x /\ (<<x, y>> \o s)[2] = y
    BY <1>1
<1>3. ASSUME NEW k \in 1 .. Len(s) + 2, k # 1, k # 2
      PROVE  k - 2 \in 1 .. Len(s) /\ (<<x, y>> \o s)[k] = s[k - 2]
    <2>1. k - 2 \in 1 .. Len(s) /\ k > 2
        BY <1>1, <1>3
    <2> QED
        BY <1>1, <2>1
<1> QED
    BY <1>2, <1>3

\* What is appended comes last.
LEMMA AppendFacts ==
    ASSUME NEW S, NEW x \in S, NEW s \in Seq(S)
    PROVE  /\ Append(s, x) \in Seq(S) /\ Len(Append(s, x)) = Len(s) + 1
           /\ Append(s, x)[Len(s) + 1] = x
           /\ \A k \in 1 .. Len(s) : Append(s, x)[k] = s[k]
           /\ ToSet(Append(s, x)) = ToSet(s) \union {x}
<1> DEFINE t == Append(s, x)
<1>1. /\ t \in Seq(S) /\ Len(t) = Len(s) + 1 /\ t[Len(s) + 1] = x
      /\ \A k \in 1 .. Len(s) : t[k] = s[k]
    OBVIOUS
<1> HIDE DEF t
<1>2. /\ \A y : y \in ToSet(t) <=> \E k \in 1 .. Len(s) + 1 : t[k] = y
      /\ \A y : y \in ToSet(s) <=> \E k \in 1 .. Len(s) : s[k] = y
    BY <1>1, ElementFacts
<1>3. Len(s) \in Nat /\ \A k \in 1 .. Len(s) + 1 : k \in 1 .. Len(s) \/ k = Len(s) + 1
    OBVIOUS
<1>4. ToSet(t) = ToSet(s) \union {x}
    BY <1>1, <1>2, <1>3
<1> QED
    BY <1>1, <1>4 DEF t

\* The first element of a sequence and the others.
LEMMA TailFacts ==
    ASSUME NEW S, NEW s \in Seq(S), s # <<>>
    PROVE  /\ Head(s) \in S /\ Tail(s) \in Seq(S) /\ Len(Tail(s)) = Len(s) - 1
           /\ Len(s) \in Nat /\ Len(s) > 0 /\ Head(s) = s[1]
           /\ \A k \in 1 .. Len(s) - 1 : Tail(s)[k] = s[k + 1]
           /\ s = <<Head(s)>> \o Tail(s)
           /\ ToSet(s) = {Head(s)} \union ToSet(Tail(s))
<1>1. /\ Head(s) \in S /\ Tail(s) \in Seq(S) /\ Len(Tail(s)) = Len(s) - 1
      /\ Len(s) \in Nat /\ Len(s) > 0 /\ Head(s) = s[1]
      /\ \A k \in 1 .. Len(s) - 1 : Tail(s)[k] = s[k + 1]
    OBVIOUS
<1>2. s = <<Head(s)>> \o Tail(s)
    OBVIOUS
<1>3. ToSet(<<Head(s)>> \o Tail(s)) = {Head(s)} \union ToSet(Tail(s))
    BY <1>1, PrependFacts
<1> QED
    BY <1>1, <1>2, <1>3

\* The parts of a sequence have no other elements.
LEMMA PartsSubset ==
    ASSUME NEW S, NEW s \in Seq(S)
    PROVE  /\ \A n \in 0 .. Len(s) : ToSet(SubSeq(s, 1, n)) \subseteq ToSet(s)
           /\ \A n \in 0 .. Len(s) : ToSet(SubSeq(s, n + 1, Len(s))) \subseteq ToSet(s)
           /\ \A i \in 1 .. Len(s) : ToSet(RemoveAt(s, i)) \subseteq ToSet(s)
<1>1. Len(s) \in Nat /\ \A k \in 1 .. Len(s) : s[k] \in ToSet(s)
    BY ElementFacts
<1>2. ASSUME NEW n \in 0 .. Len(s)
      PROVE  /\ ToSet(SubSeq(s, 1, n)) \subseteq ToSet(s)
             /\ ToSet(SubSeq(s, n + 1, Len(s))) \subseteq ToSet(s)
    <2> DEFINE a == SubSeq(s, 1, n)
               b == SubSeq(s, n + 1, Len(s))
    <2>1. /\ a \in Seq(S) /\ Len(a) = n /\ b \in Seq(S) /\ Len(b) = Len(s) - n
          /\ \A k \in 1 .. n : a[k] = s[k]
          /\ \A k \in 1 .. Len(s) - n : b[k] = s[n + k]
        BY CutFacts
    <2> HIDE DEF a, b
    <2>2. \A x : x \in ToSet(a) <=> \E k \in 1 .. n : a[k] = x
        <3>1. \A x : x \in ToSet(a) <=> \E k \in 1 .. Len(a) : a[k] = x
            BY <2>1, ElementFacts
        <3> QED
            BY <2>1, <3>1
    <2>3. \A x : x \in ToSet(b) <=> \E k \in 1 .. Len(s) - n : b[k] = x
        <3>1. \A x : x \in ToSet(b) <=> \E k \in 1 .. Len(b) : b[k] = x
            BY <2>1, ElementFacts
        <3> QED
            BY <2>1, <3>1
    <2>4. \A k \in 1 .. n : k \in 1 .. Len(s)
        BY <1>1
    <2>5. \A k \in 1 .. Len(s) - n : n + k \in 1 .. Len(s)
        BY <1>1
    <2>6. \A x \in ToSet(a) : x \in ToSet(s)
        BY <1>1, <2>1, <2>2, <2>4
    <2>7. \A x \in ToSet(b) : x \in ToSet(s)
        BY <1>1, <2>1, <2>3, <2>5
    <2>8. ToSet(a) \subseteq ToSet(s) /\ ToSet(b) \subseteq ToSet(s)
        BY <2>6, <2>7
    <2> QED
        BY <2>8 DEF a, b
<1>3. ASSUME NEW i \in 1 .. Len(s)
      PROVE  ToSet(RemoveAt(s, i)) \subseteq ToSet(s)
    <2> DEFINE a == RemoveAt(s, i)
    <2>1. /\ a \in Seq(S) /\ Len(a) = Len(s) - 1
          /\ \A k \in 1 .. Len(s) - 1 : a[k] = IF k < i THEN s[k] ELSE s[k + 1]
        BY RemoveFacts
    <2> HIDE DEF a
    <2>2. \A x : x \in ToSet(a) <=> \E k \in 1 .. Len(s) - 1 : a[k] = x
        BY <2>1, ElementFacts
    <2>3. ToSet(a) \subseteq ToSet(s)
        BY <1>1, <2>1, <2>2
    <2> QED
        BY <2>3 DEF a
<1> QED
    BY <1>2, <1>3

=============================================================================
