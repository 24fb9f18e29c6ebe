-------------------------- MODULE BatchStoreProofs --------------------------
(***************************************************************************)
(* Theorems about BatchStore, for every limit, any number of batches and   *)
(* any depth of the path.                                                  *)
(***************************************************************************)
EXTENDS BatchStoreProperties, SequenceLemmas, WellFoundedInduction, TLAPS

---------------------------------------------------------------------------
(* How many events a sequence of records has *)

\* Induction, over a set instead of a predicate.
LEMMA SetInduction ==
    ASSUME NEW S, 0 \in S, \A n \in S : n + 1 \in S
    PROVE  Nat \subseteq S
<1> DEFINE T == Nat \ S
           R == {p \in Nat \X Nat : p[1] < p[2]}
<1>1. IsWellFoundedOn(R, Nat)
    <2>1. OpToRel(<, Nat) = R
        BY DEF OpToRel
    <2> QED
        BY <2>1, NatLessThanWellFounded
<1>2. CASE T # {}
    <2>1. PICK x \in T : \A y \in T : ~ (<<y, x>> \in R)
        <3> HIDE DEF R
        <3> QED
            BY <1>1, <1>2, WFMin
    <2>2. x \in Nat /\ x \notin S /\ x - 1 \in Nat
        OBVIOUS
    <2>3. <<x - 1, x>> \in R
        BY <2>2
    <2>4. x - 1 \in S
        BY <2>1, <2>2, <2>3
    <2>5. x - 1 + 1 = x
        BY <2>2
    <2> QED
        BY <2>2, <2>4, <2>5
<1> QED
    BY <1>2

\* the sums of the first 0, 1, 2, ... records
IsSum(f, s) ==
    f = [n \in 0 .. Len(s) |-> IF n = 0 THEN 0 ELSE f[n - 1] + s[n].count]

LEMMA RecordFacts == \A r \in Records : r.id \in Batches /\ r.count \in Nat \ {0} /\ r.until \in Untils
BY StoreAssumption DEF Records

LEMMA CountFacts ==
    ASSUME NEW s \in Seq(Records)
    PROVE  Len(s) \in Nat /\ \A i \in 1 .. Len(s) : s[i] \in Records /\ s[i].count \in Nat
<1>1. \A i \in 1 .. Len(s) : s[i] \in Records
    OBVIOUS
<1> QED
    BY <1>1, RecordFacts

LEMMA TotalDef == ASSUME NEW s PROVE Total(s) = (CHOOSE f : IsSum(f, s))[Len(s)]
BY DEF Total, IsSum

\* They are determined by that.
LEMMA SumUnique ==
    ASSUME NEW s \in Seq(Records), NEW f, NEW g, IsSum(f, s), IsSum(g, s)
    PROVE  f = g
<1> DEFINE S == {n \in Nat : n \in 0 .. Len(s) => f[n] = g[n]}
<1>1. 0 \in S
    BY DEF IsSum
<1>2. ASSUME NEW n \in S PROVE n + 1 \in S
    <2>1. CASE n + 1 \in 0 .. Len(s)
        <3>1. f[n + 1] = f[n] + s[n + 1].count /\ g[n + 1] = g[n] + s[n + 1].count
            BY <2>1 DEF IsSum
        <3> QED
            BY <2>1, <3>1
    <2> QED
        BY <2>1
<1>3. \A n \in 0 .. Len(s) : f[n] = g[n]
    <2>1. Nat \subseteq S
        <3> HIDE DEF S
        <3> QED
            BY <1>1, <1>2, SetInduction
    <2> QED
        BY <2>1
<1> QED
    BY <1>3 DEF IsSum

\* And they exist.
LEMMA SumExists ==
    ASSUME NEW s \in Seq(Records)
    PROVE  \E f \in [0 .. Len(s) -> Nat] : IsSum(f, s)
<1> DEFINE Sums(f, n) == /\ f \in [0 .. n -> Nat] /\ f[0] = 0
                         /\ \A i \in 1 .. n : f[i] = f[i - 1] + s[i].count
           S == {n \in Nat : n \in 0 .. Len(s) => \E f : Sums(f, n)}
<1>1. 0 \in S
    <2>1. Sums([i \in 0 .. 0 |-> 0], 0)
        OBVIOUS
    <2> QED
        BY <2>1
<1>2. ASSUME NEW n \in S PROVE n + 1 \in S
    <2>1. CASE n + 1 \in 0 .. Len(s)
        <3>1. PICK f : Sums(f, n)
            BY <2>1
        <3>2. s[n + 1].count \in Nat
            BY <2>1, CountFacts
        <3> DEFINE g == [i \in 0 .. n + 1 |-> IF i = n + 1 THEN f[n] + s[n + 1].count ELSE f[i]]
        <3>3. g \in [0 .. n + 1 -> Nat] /\ g[0] = 0
            BY <3>1, <3>2
        <3>4. \A i \in 1 .. n + 1 : g[i] = g[i - 1] + s[i].count
            BY <3>1
        <3>5. Sums(g, n + 1)
            BY <3>3, <3>4
        <3> HIDE DEF g, Sums
        <3> QED
            BY <3>5
    <2> HIDE DEF Sums
    <2> QED
        BY <2>1
<1>3. \E f : Sums(f, Len(s))
    <2> HIDE DEF Sums
    <2>1. Nat \subseteq S
        <3> HIDE DEF S
        <3> QED
            BY <1>1, <1>2, SetInduction
    <2> QED
        BY <2>1
<1> QED
    BY <1>3 DEF IsSum

\* Total is the last of them, however they are written.
LEMMA TotalIs ==
    ASSUME NEW s \in Seq(Records), NEW f \in [0 .. Len(s) -> Int], f[0] = 0,
           \A i \in 1 .. Len(s) : f[i] = f[i - 1] + s[i].count
    PROVE  Total(s) = f[Len(s)]
<1>1. IsSum(f, s)
    BY DEF IsSum
<1>2. IsSum(CHOOSE g : IsSum(g, s), s)
    BY <1>1
<1> QED
    BY <1>1, <1>2, SumUnique, TotalDef

LEMMA TotalSums ==
    ASSUME NEW s \in Seq(Records)
    PROVE  \E f \in [0 .. Len(s) -> Nat] :
              /\ f[0] = 0 /\ \A i \in 1 .. Len(s) : f[i] = f[i - 1] + s[i].count
              /\ Total(s) = f[Len(s)]
<1>1. PICK f \in [0 .. Len(s) -> Nat] : IsSum(f, s)
    BY SumExists
<1>2. f[0] = 0 /\ \A i \in 1 .. Len(s) : f[i] = f[i - 1] + s[i].count
    BY <1>1, CountFacts DEF IsSum
<1>3. Total(s) = f[Len(s)]
    BY <1>2, TotalIs
<1> QED
    BY <1>2, <1>3

LEMMA TotalEmpty == Total(<<>>) = 0
<1> DEFINE s == <<>>
           f == [n \in 0 .. 0 |-> 0]
<1>1. s \in Seq(Records) /\ Len(s) = 0
    OBVIOUS
<1>2. f \in [0 .. 0 -> Int] /\ f[0] = 0
    OBVIOUS
<1> HIDE DEF s, f
<1>3. Total(s) = f[Len(s)]
    <2>1. f \in [0 .. Len(s) -> Int] /\ 1 .. Len(s) = {}
        BY <1>1, <1>2
    <2> QED
        BY <1>1, <1>2, <2>1, TotalIs
<1> QED
    BY <1>1, <1>2, <1>3 DEF s

LEMMA TotalNat == ASSUME NEW s \in Seq(Records) PROVE Total(s) \in Nat
<1>1. PICK f \in [0 .. Len(s) -> Nat] : Total(s) = f[Len(s)]
    BY TotalSums
<1> QED
    BY <1>1

\* Only the counts matter.
LEMMA TotalSame ==
    ASSUME NEW s \in Seq(Records), NEW t \in Seq(Records), Len(s) = Len(t),
           \A i \in 1 .. Len(s) : s[i].count = t[i].count
    PROVE  Total(s) = Total(t)
<1>1. PICK f \in [0 .. Len(s) -> Nat] :
         /\ f[0] = 0 /\ \A i \in 1 .. Len(s) : f[i] = f[i - 1] + s[i].count
         /\ Total(s) = f[Len(s)]
    BY TotalSums
<1> QED
    BY <1>1, TotalIs

LEMMA TotalAppend ==
    ASSUME NEW s \in Seq(Records), NEW r \in Records
    PROVE  Total(Append(s, r)) = Total(s) + r.count
<1>1. PICK f \in [0 .. Len(s) -> Nat] :
         /\ f[0] = 0 /\ \A i \in 1 .. Len(s) : f[i] = f[i - 1] + s[i].count
         /\ Total(s) = f[Len(s)]
    BY TotalSums
<1> DEFINE t == Append(s, r)
           n == Len(s) + 1
           g == [i \in 0 .. n |-> IF i = n THEN f[Len(s)] + r.count ELSE f[i]]
<1>2. /\ t \in Seq(Records) /\ Len(t) = n /\ t[n] = r
      /\ \A i \in 1 .. Len(s) : t[i] = s[i]
    BY AppendFacts
<1>3. r.count \in Nat /\ Len(s) \in Nat
    BY StoreAssumption DEF Records
<1>4. g \in [0 .. n -> Int] /\ g[0] = 0 /\ g[n] = f[Len(s)] + r.count
    BY <1>1, <1>3
<1>5. ASSUME NEW i \in 1 .. n PROVE g[i] = g[i - 1] + t[i].count
    <2>1. CASE i = n
        BY <1>2, <1>3, <2>1
    <2>2. CASE i # n
        BY <1>1, <1>2, <1>3, <2>2
    <2> QED
        BY <2>1, <2>2
<1> HIDE DEF t, g
<1>6. Total(t) = g[n]
    BY <1>2, <1>4, <1>5, TotalIs
<1> QED
    BY <1>1, <1>4, <1>6 DEF t

LEMMA TotalRemove ==
    ASSUME NEW s \in Seq(Records), NEW k \in 1 .. Len(s)
    PROVE  Total(RemoveAt(s, k)) = Total(s) - s[k].count
<1>1. PICK f \in [0 .. Len(s) -> Nat] :
         /\ f[0] = 0 /\ \A i \in 1 .. Len(s) : f[i] = f[i - 1] + s[i].count
         /\ Total(s) = f[Len(s)]
    BY TotalSums
<1> DEFINE t == RemoveAt(s, k)
           n == Len(s) - 1
           c == s[k].count
           g == [i \in 0 .. n |-> IF i < k THEN f[i] ELSE f[i + 1] - c]
<1>2. /\ t \in Seq(Records) /\ Len(t) = n
      /\ \A i \in 1 .. n : t[i] = IF i < k THEN s[i] ELSE s[i + 1]
    BY RemoveFacts
<1>3. c \in Nat /\ Len(s) \in Nat
    BY CountFacts
<1> HIDE DEF c
<1>4. g \in [0 .. n -> Int] /\ g[0] = 0
    BY <1>1, <1>3
<1>5. f[k] = f[k - 1] + c
    BY <1>1 DEF c
<1>6. g[n] = f[Len(s)] - c
    BY <1>1, <1>3, <1>5
<1>7. ASSUME NEW i \in 1 .. n PROVE g[i] = g[i - 1] + t[i].count
    <2>1. CASE i < k
        <3>1. f[i] = f[i - 1] + s[i].count /\ i \in 1 .. Len(s)
            BY <1>1, <1>3
        <3> QED
            BY <1>2, <1>3, <2>1, <3>1
    <2>2. CASE i = k
        <3>1. f[k + 1] = f[k] + s[k + 1].count
            BY <1>1, <1>3, <2>2
        <3>2. s[k + 1].count \in Nat /\ f[k - 1] \in Nat
            BY <1>1, <1>3, <2>2, CountFacts
        <3> QED
            BY <1>2, <1>3, <1>5, <2>2, <3>1, <3>2
    <2>3. CASE i > k
        <3>1. f[i + 1] = f[i] + s[i + 1].count
            <4>1. i + 1 \in 1 .. Len(s) /\ i + 1 - 1 = i
                BY <1>3
            <4> QED
                BY <1>1, <4>1
        <3>2. s[i + 1].count \in Nat /\ f[i] \in Nat
            BY <1>1, <1>3, CountFacts
        <3> QED
            BY <1>2, <1>3, <2>3, <3>1, <3>2
    <2> QED
        BY <2>1, <2>2, <2>3
<1> HIDE DEF t, g
<1>8. Total(t) = g[n]
    BY <1>2, <1>4, <1>7, TotalIs
<1> QED
    BY <1>1, <1>6, <1>8 DEF t, c

---------------------------------------------------------------------------
(* What writeLocked writes *)

\* The order and the records, of which Content is made.
LEMMA ContentFacts ==
    ASSUME StoreTypeOK, DOMAIN records = ToSet(order)
    PROVE  /\ Content \in Seq(Records) /\ Len(Content) = Len(order) /\ Len(order) \in Nat
           /\ \A i \in 1 .. Len(order) :
                 /\ order[i] \in Batches /\ order[i] \in DOMAIN records
                 /\ records[order[i]] \in Entries
                 /\ Content[i] = [id |-> order[i], count |-> records[order[i]].count,
                                  until |-> records[order[i]].until]
                 /\ Content[i].id = order[i]
           /\ BatchesOf(Content) = DOMAIN records
<1>1. /\ Len(order) \in Nat
      /\ \A i \in 1 .. Len(order) : order[i] \in Batches /\ order[i] \in DOMAIN records
    BY ElementFacts DEF StoreTypeOK
<1>2. \A i \in 1 .. Len(order) : records[order[i]] \in Entries
    BY <1>1 DEF StoreTypeOK
<1>3. \A i \in 1 .. Len(order) :
         [id |-> order[i], count |-> records[order[i]].count,
          until |-> records[order[i]].until] \in Records
    BY <1>1, <1>2 DEF Entries, Records
<1>4. Content \in Seq(Records) /\ Len(Content) = Len(order)
    BY <1>1, <1>3 DEF Content
<1>5. \A i \in 1 .. Len(order) :
         /\ Content[i] = [id |-> order[i], count |-> records[order[i]].count,
                          until |-> records[order[i]].until]
         /\ Content[i].id = order[i]
    BY DEF Content
<1>6. BatchesOf(Content) = DOMAIN records
    <2>1. \A i \in 1 .. Len(order) : Content[i].id = order[i]
        BY <1>5
    <2>2. BatchesOf(Content) = {order[i] : i \in 1 .. Len(order)}
        BY <1>4, <2>1 DEF BatchesOf
    <2> QED
        BY <2>2, ElementFacts DEF StoreTypeOK
<1> QED
    BY <1>1, <1>2, <1>4, <1>5, <1>6

Version(o, q) ==
    [i \in 1 .. Len(o) |-> [id |-> o[i], count |-> q[o[i]].count, until |-> q[o[i]].until]]

\* Order and records that make a given version.
LEMMA ContentIs ==
    ASSUME NEW v \in Seq(Records), NEW o, NEW q, Len(o) = Len(v),
           \A i \in 1 .. Len(v) : /\ o[i] = v[i].id /\ q[v[i].id].count = v[i].count
                                  /\ q[v[i].id].until = v[i].until
    PROVE  Version(o, q) = v
<1> DEFINE w == Version(o, q)
<1>1. ASSUME NEW i \in 1 .. Len(v) PROVE w[i] = v[i]
    <2>1. v[i] \in Records
        OBVIOUS
    <2>2. v[i] = [id |-> v[i].id, count |-> v[i].count, until |-> v[i].until]
        BY <2>1 DEF Records
    <2>3. w[i] = [id |-> v[i].id, count |-> v[i].count, until |-> v[i].until]
        BY DEF Version
    <2> QED
        BY <2>2, <2>3
<1>2. w \in Seq(Records) /\ Len(w) = Len(v)
    <2>1. \A i \in 1 .. Len(v) : w[i] \in Records
        BY <1>1
    <2>2. w = [i \in 1 .. Len(v) |-> w[i]]
        BY DEF Version
    <2> HIDE DEF w
    <2> QED
        BY <2>1, <2>2
<1> HIDE DEF w
<1>3. w = v
    BY <1>1, <1>2
<1> QED
    BY <1>3 DEF w

\* One that is distinct names each batch once, and what memory holds is as
\* distinct as the order.
LEMMA DistinctFacts ==
    ASSUME StoreTypeOK, MemoryOK
    PROVE  Distinct(Content) /\ Loads(Content) /\ IsLog(Content)
<1>1. Distinct(Content)
    <2>1. \A i \in 1 .. Len(order) : Content[i].id = order[i]
        BY ContentFacts DEF MemoryOK
    <2>2. Len(Content) = Len(order)
        BY ContentFacts DEF MemoryOK
    <2> QED
        BY <2>1, <2>2 DEF MemoryOK, Distinct
<1> QED
    BY <1>1, ContentFacts DEF StoreTypeOK, MemoryOK, Loads, IsLog

\* Memory that holds a given version.
LEMMA MemoryIs ==
    ASSUME NEW v \in Seq(Records), Distinct(v), NEW o, o \in Seq(Batches), NEW q,
           q = [b \in DOMAIN q |-> q[b]], Len(o) = Len(v), DOMAIN q = BatchesOf(v),
           \A i \in 1 .. Len(v) : /\ o[i] = v[i].id
                                  /\ q[v[i].id] = [count |-> v[i].count, until |-> v[i].until]
    PROVE  /\ DOMAIN q \subseteq Batches /\ q \in [DOMAIN q -> Entries]
           /\ DOMAIN q = ToSet(o)
           /\ \A i, j \in 1 .. Len(o) : o[i] = o[j] => i = j
           /\ Version(o, q) = v
<1>1. \A i \in 1 .. Len(v) :
         /\ v[i] \in Records /\ v[i].id \in Batches
         /\ [count |-> v[i].count, until |-> v[i].until] \in Entries
    <2>1. \A r \in Records : r.id \in Batches /\ [count |-> r.count, until |-> r.until] \in Entries
        BY DEF Records, Entries
    <2> QED
        BY <2>1
<1>2. ASSUME NEW b \in DOMAIN q PROVE b \in Batches /\ q[b] \in Entries
    <2>1. PICK i \in 1 .. Len(v) : v[i].id = b
        BY DEF BatchesOf
    <2> QED
        BY <1>1, <2>1
<1>3. q \in [DOMAIN q -> Entries]
    BY <1>2
<1>4. DOMAIN q = ToSet(o)
    <2>1. \A i \in 1 .. Len(o) : o[i] = v[i].id
        OBVIOUS
    <2>2. BatchesOf(v) = {o[i] : i \in 1 .. Len(o)}
        BY <2>1 DEF BatchesOf
    <2>3. \A b : b \in BatchesOf(v) <=> \E i \in 1 .. Len(o) : o[i] = b
        BY <2>2
    <2> QED
        BY <2>3, ElementFacts
<1>5. \A i, j \in 1 .. Len(o) : o[i] = o[j] => i = j
    BY DEF Distinct
<1>6. ASSUME NEW i \in 1 .. Len(v)
      PROVE  q[v[i].id].count = v[i].count /\ q[v[i].id].until = v[i].until
    <2>1. q[v[i].id] = [count |-> v[i].count, until |-> v[i].until]
        OBVIOUS
    <2> QED
        BY <2>1
<1>7. Version(o, q) = v
    BY <1>6, ContentIs
<1> QED
    BY <1>2, <1>3, <1>4, <1>5, <1>7

LEMMA NoOpFacts ==
    /\ NoOp \in Operations /\ NoOp.name = "none" /\ NoOp.step = "none" /\ NoOp.parents = {}
BY StoreAssumption DEF NoOp, Operations, Untils

\* Two sequences, one after the other.
LEMMA ConcatFacts ==
    ASSUME NEW S, NEW s \in Seq(S), NEW t \in Seq(S)
    PROVE  /\ s \o t \in Seq(S) /\ Len(s \o t) = Len(s) + Len(t)
           /\ \A i \in 1 .. Len(s) + Len(t) : (s \o t)[i] = IF i <= Len(s) THEN s[i] ELSE t[i - Len(s)]
OBVIOUS

\* An element put into a sequence.
LEMMA InsertFacts ==
    ASSUME NEW S, NEW s \in Seq(S), NEW x \in S, NEW k \in 1 .. Len(s) + 1
    PROVE  /\ InsertAt(s, k, x) \in Seq(S) /\ Len(InsertAt(s, k, x)) = Len(s) + 1
           /\ \A i \in 1 .. Len(s) + 1 :
                 InsertAt(s, k, x)[i] = IF i < k THEN s[i] ELSE IF i = k THEN x ELSE s[i - 1]
<1> DEFINE a == SubSeq(s, 1, k - 1)
           b == SubSeq(s, k, Len(s))
<1>1. k - 1 \in 0 .. Len(s) /\ k - 1 + 1 = k /\ Len(s) \in Nat
    OBVIOUS
<1>2. /\ a \in Seq(S) /\ Len(a) = k - 1 /\ \A i \in 1 .. k - 1 : a[i] = s[i]
      /\ b \in Seq(S) /\ Len(b) = Len(s) - (k - 1)
      /\ \A i \in 1 .. Len(s) - (k - 1) : b[i] = s[k - 1 + i]
    BY <1>1, CutFacts
<1>3. InsertAt(s, k, x) = a \o <<x>> \o b
    BY DEF InsertAt
<1> HIDE DEF a, b
<1> DEFINE c == a \o <<x>>
<1>4. /\ c \in Seq(S) /\ Len(c) = k /\ c[k] = x /\ \A i \in 1 .. k - 1 : c[i] = s[i]
    <2>1. c = Append(a, x)
        BY <1>2
    <2> HIDE DEF c
    <2> QED
        BY <1>1, <1>2, <2>1, AppendFacts
<1>5. InsertAt(s, k, x) = c \o b
    BY <1>3
<1> HIDE DEF c
<1>6. /\ c \o b \in Seq(S) /\ Len(c \o b) = Len(s) + 1
      /\ \A i \in 1 .. Len(s) + 1 : (c \o b)[i] = IF i <= k THEN c[i] ELSE b[i - k]
    <2>1. Len(c) = k /\ Len(c) + Len(b) = Len(s) + 1
        BY <1>1, <1>2, <1>4
    <2>2. c \in Seq(S) /\ b \in Seq(S)
        BY <1>2, <1>4
    <2>3. /\ c \o b \in Seq(S) /\ Len(c \o b) = Len(c) + Len(b)
          /\ \A i \in 1 .. Len(c) + Len(b) :
                (c \o b)[i] = IF i <= Len(c) THEN c[i] ELSE b[i - Len(c)]
        BY <2>2, ConcatFacts
    <2> QED
        BY <2>1, <2>3
<1>8. \A i \in 1 .. Len(s) - (k - 1) : b[i] = s[k - 1 + i]
    BY <1>2
<1>7. ASSUME NEW i \in 1 .. Len(s) + 1
      PROVE  (c \o b)[i] = IF i < k THEN s[i] ELSE IF i = k THEN x ELSE s[i - 1]
    <2>1. CASE i <= k
        BY <1>4, <1>6, <2>1
    <2>2. CASE i > k
        <3>1. i - k \in 1 .. Len(s) - (k - 1) /\ k - 1 + (i - k) = i - 1
            BY <1>1, <2>2
        <3>2. b[i - k] = s[i - 1]
            BY <1>8, <3>1
        <3> QED
            BY <1>1, <1>6, <2>2, <3>2
    <2>3. i <= k \/ i > k
        BY <1>1
    <2> QED
        BY <2>1, <2>2, <2>3
<1> QED
    BY <1>5, <1>6, <1>7

---------------------------------------------------------------------------
(* How an operation ends *)

\* Facts of the file, whose records are distinct.
LEMMA FileFacts ==
    ASSUME StoreTypeOK
    PROVE  /\ file \in Seq(Records) /\ Len(file) \in Nat /\ Distinct(file)
           /\ Total(file) \in 0 .. Limit
           /\ \A i \in 1 .. Len(file) :
                 /\ file[i] \in Records /\ file[i].id \in Batches
                 /\ file[i].id \in BatchesOf(file)
           /\ \A b \in BatchesOf(file) : \E i \in 1 .. Len(file) : file[i].id = b
<1>1. file \in Seq(Records) /\ Len(file) \in Nat /\ Distinct(file) /\ Total(file) <= Limit
    BY DEF StoreTypeOK, IsLog, Loads
<1>2. \A r \in Records : r.id \in Batches
    BY DEF Records
<1> QED
    BY <1>1, <1>2, TotalNat, StoreAssumption DEF BatchesOf

\* A failed put leaves the order and the records without the new one.
LEMMA UndoPut ==
    ASSUME StoreTypeOK, MemoryOK, NEW r, r = [id |-> op.batch, count |-> op.old.count, until |-> op.old.until],
           Content = Append(file, r)
    PROVE  /\ Front(order) \in Seq(Batches) /\ Len(Front(order)) = Len(file)
           /\ DOMAIN Without(op.batch) = BatchesOf(file)
           /\ \A i \in 1 .. Len(file) :
                 /\ Front(order)[i] = file[i].id
                 /\ Without(op.batch)[file[i].id] = [count |-> file[i].count, until |-> file[i].until]
           /\ pending - op.old.count = Total(file)
<1>1. /\ Len(Content) = Len(order) /\ Len(order) \in Nat /\ BatchesOf(Content) = DOMAIN records
      /\ Content \in Seq(Records)
    BY ContentFacts DEF MemoryOK
<1>2. file \in Seq(Records) /\ Len(file) \in Nat
    BY FileFacts
<1>3. Len(Content) = Len(file) + 1 /\ Content[Len(file) + 1] = r
      /\ \A i \in 1 .. Len(file) : Content[i] = file[i]
    BY <1>2
<1>4. r \in Records /\ r.id = op.batch /\ r.count = op.old.count
    BY <1>1, <1>3
<1>5. \A i \in 1 .. Len(order) : order[i] = Content[i].id
    BY ContentFacts DEF MemoryOK
<1>6. Front(order) \in Seq(Batches) /\ Len(Front(order)) = Len(file)
      /\ \A i \in 1 .. Len(file) : Front(order)[i] = order[i]
    <2>1. order \in Seq(Batches) /\ Len(order) - 1 = Len(file) /\ Len(file) \in 0 .. Len(order)
        BY <1>1, <1>2, <1>3 DEF StoreTypeOK
    <2> QED
        BY <2>1, CutFacts DEF Front
<1>7. \A i \in 1 .. Len(file) : order[i] = file[i].id /\ order[i] # op.batch
    <2>1. order[Len(file) + 1] = op.batch
        BY <1>1, <1>2, <1>3, <1>4, <1>5
    <2> QED
        BY <1>1, <1>2, <1>3, <1>5, <2>1 DEF MemoryOK
<1>8. BatchesOf(file) = DOMAIN records \ {op.batch}
    <2>1. \A b : b \in BatchesOf(Content) <=> b \in BatchesOf(file) \/ b = op.batch
        <3>1. \A i \in 1 .. Len(file) + 1 : i \in 1 .. Len(file) \/ i = Len(file) + 1
            BY <1>2
        <3>2. \A i \in 1 .. Len(file) : i \in 1 .. Len(file) + 1 /\ Content[i].id = file[i].id
            BY <1>2, <1>3
        <3>3. Content[Len(file) + 1].id = op.batch /\ Len(file) + 1 \in 1 .. Len(file) + 1
            BY <1>2, <1>3, <1>4
        <3> QED
            BY <1>3, <3>1, <3>2, <3>3 DEF BatchesOf
    <2>2. op.batch \notin BatchesOf(file)
        BY <1>7 DEF BatchesOf
    <2> QED
        BY <1>1, <2>1, <2>2
<1>9. ASSUME NEW i \in 1 .. Len(file)
      PROVE  Without(op.batch)[file[i].id] = [count |-> file[i].count, until |-> file[i].until]
    <2>1. i \in 1 .. Len(order) /\ order[i] = file[i].id /\ order[i] # op.batch
        BY <1>1, <1>2, <1>3, <1>7
    <2>2. file[i] = [id |-> order[i], count |-> records[order[i]].count,
                     until |-> records[order[i]].until] /\ records[order[i]] \in Entries
          /\ order[i] \in DOMAIN records
        BY <1>3, <2>1, ContentFacts DEF MemoryOK
    <2>3. Without(op.batch)[order[i]] = records[order[i]]
        BY <2>1, <2>2 DEF Without
    <2>4. records[order[i]] = [count |-> records[order[i]].count, until |-> records[order[i]].until]
        BY <2>2 DEF Entries
    <2>5. file[i].count = records[order[i]].count /\ file[i].until = records[order[i]].until
        BY <2>2
    <2> QED
        BY <2>1, <2>3, <2>4, <2>5
<1>10. pending - op.old.count = Total(file)
    <2>1. Total(Content) = Total(file) + r.count
        BY <1>2, <1>4, TotalAppend
    <2>2. Total(file) \in Nat /\ r.count \in Nat
        BY <1>2, <1>4, TotalNat, RecordFacts
    <2>3. pending = Total(file) + r.count
        BY <2>1 DEF MemoryOK
    <2> QED
        BY <1>4, <2>2, <2>3
<1> QED
    BY <1>6, <1>7, <1>8, <1>9, <1>10 DEF Without

\* A failed acknowledge puts the batch back into its place.
LEMMA UndoAcknowledge ==
    ASSUME StoreTypeOK, MemoryOK, NEW r, r = [id |-> op.batch, count |-> op.old.count, until |-> op.old.until],
           op.index \in 1 .. Len(file), file[op.index] = r, Content = RemoveAt(file, op.index)
    PROVE  /\ Reinserted \in Seq(Batches) /\ Len(Reinserted) = Len(file)
           /\ DOMAIN With(op.batch, op.old) = BatchesOf(file)
           /\ \A i \in 1 .. Len(file) :
                 /\ Reinserted[i] = file[i].id
                 /\ With(op.batch, op.old)[file[i].id] = [count |-> file[i].count, until |-> file[i].until]
           /\ pending + op.old.count = Total(file)
<1> DEFINE k == op.index
           q == With(op.batch, op.old)
<1>1. /\ Len(Content) = Len(order) /\ Len(order) \in Nat /\ BatchesOf(Content) = DOMAIN records
      /\ order \in Seq(Batches)
    BY ContentFacts DEF MemoryOK, StoreTypeOK
<1>2. file \in Seq(Records) /\ Len(file) \in Nat /\ k \in 1 .. Len(file)
    BY FileFacts
<1>3. Len(Content) = Len(file) - 1
      /\ \A i \in 1 .. Len(file) - 1 : Content[i] = IF i < k THEN file[i] ELSE file[i + 1]
    BY <1>2, RemoveFacts
<1>4. r \in Records /\ r.id = op.batch /\ r.count = op.old.count /\ op.batch \in Batches
    BY <1>2, FileFacts
<1>5. \A i \in 1 .. Len(order) : order[i] = Content[i].id
    BY ContentFacts DEF MemoryOK
<1>6. /\ Reinserted \in Seq(Batches) /\ Len(Reinserted) = Len(file)
      /\ \A i \in 1 .. Len(file) :
            Reinserted[i] = IF i < k THEN order[i] ELSE IF i = k THEN op.batch ELSE order[i - 1]
    <2>1. Len(order) + 1 = Len(file) /\ k \in 1 .. Len(order) + 1
        BY <1>1, <1>2, <1>3
    <2>2. /\ Reinserted \in Seq(Batches) /\ Len(Reinserted) = Len(order) + 1
          /\ \A i \in 1 .. Len(order) + 1 :
                Reinserted[i] = IF i < k THEN order[i] ELSE IF i = k THEN op.batch ELSE order[i - 1]
        <3>1. order \in Seq(Batches) /\ op.batch \in Batches
            BY <1>1, <1>4
        <3> HIDE DEF k
        <3>2. /\ InsertAt(order, k, op.batch) \in Seq(Batches)
              /\ Len(InsertAt(order, k, op.batch)) = Len(order) + 1
              /\ \A i \in 1 .. Len(order) + 1 :
                    InsertAt(order, k, op.batch)[i] =
                        IF i < k THEN order[i] ELSE IF i = k THEN op.batch ELSE order[i - 1]
            BY <2>1, <3>1, InsertFacts
        <3>3. Reinserted = InsertAt(order, k, op.batch)
            BY DEF Reinserted, k
        <3> QED
            BY <3>2, <3>3
    <2> QED
        BY <2>1, <2>2
<1>7. ASSUME NEW i \in 1 .. Len(file), i # k
      PROVE  \E j \in 1 .. Len(order) : Content[j] = file[i] /\ Reinserted[i] = order[j]
    <2>1. CASE i < k
        BY <1>1, <1>2, <1>3, <1>6, <2>1
    <2>2. CASE i > k
        <3>1. i - 1 \in 1 .. Len(order) /\ ~(i - 1 < k) /\ i - 1 + 1 = i
            BY <1>1, <1>2, <1>3, <2>2
        <3>2. Content[i - 1] = file[i]
            BY <1>1, <1>3, <3>1
        <3>3. Reinserted[i] = order[i - 1]
            BY <1>2, <1>6, <2>2
        <3> QED
            BY <3>1, <3>2, <3>3
    <2> QED
        BY <1>2, <1>7, <2>1, <2>2
<1>8. ASSUME NEW i \in 1 .. Len(file)
      PROVE  Reinserted[i] = file[i].id /\ q[file[i].id] = [count |-> file[i].count, until |-> file[i].until]
    <2>1. CASE i = k
        <3>1. Reinserted[i] = op.batch /\ file[i].id = op.batch
            BY <1>2, <1>4, <1>6, <2>1
        <3>2. q[op.batch] = op.old
            BY DEF With
        <3>3. op.old = [count |-> op.old.count, until |-> op.old.until]
            BY DEF StoreTypeOK, Operations
        <3>4. file[i].count = op.old.count /\ file[i].until = op.old.until
            BY <2>1
        <3> QED
            BY <3>1, <3>2, <3>3, <3>4
    <2>2. CASE i # k
        <3>1. PICK j \in 1 .. Len(order) : Content[j] = file[i] /\ Reinserted[i] = order[j]
            BY <1>7, <2>2
        <3>2. order[j] = file[i].id
            BY <1>5, <3>1
        <3>3. file[i].id # op.batch
            BY <1>2, <1>4, <2>2, FileFacts DEF Distinct
        <3>4. /\ file[i] = [id |-> order[j], count |-> records[order[j]].count,
                            until |-> records[order[j]].until]
              /\ records[order[j]] \in Entries /\ order[j] \in DOMAIN records
            BY <3>1, ContentFacts DEF MemoryOK
        <3>5. q[order[j]] = records[order[j]]
            BY <3>2, <3>3, <3>4 DEF With
        <3>6. records[order[j]] = [count |-> records[order[j]].count, until |-> records[order[j]].until]
            BY <3>4 DEF Entries
        <3>7. file[i].count = records[order[j]].count /\ file[i].until = records[order[j]].until
            BY <3>4
        <3> QED
            BY <3>1, <3>2, <3>5, <3>6, <3>7
    <2> QED
        BY <2>1, <2>2
<1>9. DOMAIN q = BatchesOf(file)
    <2>1. DOMAIN q = DOMAIN records \union {op.batch}
        BY DEF With
    <2>2. ASSUME NEW b \in DOMAIN records PROVE b \in BatchesOf(file)
        <3>1. PICK j \in 1 .. Len(Content) : Content[j].id = b
            BY <1>1 DEF BatchesOf
        <3>2. PICK i \in 1 .. Len(file) : Content[j] = file[i]
            BY <1>2, <1>3, <3>1
        <3> QED
            BY <3>1, <3>2 DEF BatchesOf
    <2>3. op.batch \in BatchesOf(file)
        BY <1>2, <1>4 DEF BatchesOf
    <2>4. ASSUME NEW i \in 1 .. Len(file), i # k PROVE file[i].id \in DOMAIN records
        <3>1. PICK j \in 1 .. Len(order) : Content[j] = file[i]
            BY <1>7, <2>4
        <3> QED
            BY <1>1, <3>1 DEF BatchesOf
    <2>5. BatchesOf(file) \subseteq DOMAIN records \union {op.batch}
        BY <1>4, <2>4, FileFacts
    <2> HIDE DEF q
    <2> QED
        BY <2>1, <2>2, <2>3, <2>5
<1>10. pending + op.old.count = Total(file)
    <2>1. Total(Content) = Total(file) - r.count
        BY <1>2, <1>4, TotalRemove
    <2>2. Total(file) \in Nat /\ r.count \in Nat
        BY <1>2, <1>4, TotalNat, RecordFacts
    <2>3. pending = Total(file) - r.count
        BY <2>1 DEF MemoryOK
    <2> QED
        BY <1>4, <2>2, <2>3
<1> QED
    BY <1>6, <1>8, <1>9, <1>10

\* A failed pause puts the former one back.
LEMMA UndoPause ==
    ASSUME StoreTypeOK, MemoryOK, NEW r, r = [id |-> op.batch, count |-> op.old.count, until |-> op.old.until],
           op.index \in 1 .. Len(file), file[op.index] = r,
           NEW u, Content = [file EXCEPT ![op.index].until = u]
    PROVE  /\ Len(order) = Len(file)
           /\ DOMAIN Unpaused = BatchesOf(file)
           /\ \A i \in 1 .. Len(file) :
                 /\ order[i] = file[i].id
                 /\ Unpaused[file[i].id] = [count |-> file[i].count, until |-> file[i].until]
           /\ pending = Total(file)
<1>1. /\ Len(Content) = Len(order) /\ Len(order) \in Nat /\ BatchesOf(Content) = DOMAIN records
      /\ Content \in Seq(Records)
    BY ContentFacts DEF MemoryOK
<1>2. file \in Seq(Records) /\ Len(file) \in Nat
    BY FileFacts
<1>3. Len(Content) = Len(file)
    BY <1>2
<1>4. ASSUME NEW i \in 1 .. Len(file)
      PROVE  Content[i].id = file[i].id /\ Content[i].count = file[i].count
             /\ (i # op.index => Content[i] = file[i])
    <2>1. Content[i] = IF i = op.index THEN [file[i] EXCEPT !.until = u] ELSE file[i]
        BY <1>2
    <2>2. file[i] \in Records
        BY <1>2
    <2> QED
        BY <2>1, <2>2 DEF Records
<1>5. \A i \in 1 .. Len(file) : order[i] = file[i].id
    BY <1>1, <1>3, <1>4, ContentFacts DEF MemoryOK
<1>6. BatchesOf(file) = DOMAIN records
    <2>1. \A i \in 1 .. Len(file) : Content[i].id = file[i].id
        BY <1>4
    <2>2. BatchesOf(file) = BatchesOf(Content)
        BY <1>3, <2>1 DEF BatchesOf
    <2> QED
        BY <1>1, <2>2
<1>7. pending = Total(file)
    <2>1. Total(Content) = Total(file)
        BY <1>1, <1>2, <1>3, <1>4, TotalSame
    <2> QED
        BY <2>1 DEF MemoryOK
<1>8. DOMAIN Unpaused = DOMAIN records
    BY DEF Unpaused
<1>9. ASSUME NEW i \in 1 .. Len(file)
      PROVE  Unpaused[file[i].id] = [count |-> file[i].count, until |-> file[i].until]
    <2>1. order[i] = file[i].id /\ order[i] \in DOMAIN records /\ records[order[i]] \in Entries
          /\ Content[i] = [id |-> order[i], count |-> records[order[i]].count,
                           until |-> records[order[i]].until]
        BY <1>1, <1>3, <1>5, ContentFacts DEF MemoryOK
    <2>2. CASE i = op.index
        <3>1. file[i].id = op.batch /\ file[i].count = op.old.count /\ file[i].until = op.old.until
            BY <2>2
        <3>2. Unpaused[op.batch] = op.old
            BY <2>1, <3>1 DEF Unpaused
        <3>3. op.old = [count |-> op.old.count, until |-> op.old.until]
            BY DEF StoreTypeOK, Operations
        <3> QED
            BY <3>1, <3>2, <3>3
    <2>3. CASE i # op.index
        <3>1. file[op.index].id = op.batch
            OBVIOUS
        <3>2. file[i].id # op.batch
            BY <2>3, <3>1, FileFacts DEF Distinct
        <3>3. Unpaused[order[i]] = records[order[i]]
            BY <2>1, <3>2 DEF Unpaused
        <3>4. records[order[i]] = [count |-> records[order[i]].count, until |-> records[order[i]].until]
            BY <2>1 DEF Entries
        <3>5. Content[i] = file[i]
            BY <1>4, <2>3
        <3>6. file[i].count = records[order[i]].count /\ file[i].until = records[order[i]].until
            BY <2>1, <3>5
        <3> QED
            BY <2>1, <3>3, <3>4, <3>6
    <2> QED
        BY <2>2, <2>3
<1> QED
    BY <1>1, <1>3, <1>5, <1>6, <1>7, <1>8, <1>9

\* Memory that holds just what a version does.
MemoryHolds(o, q, p, v) ==
    /\ o \in Seq(Batches)
    /\ DOMAIN q \subseteq Batches /\ q \in [DOMAIN q -> Entries]
    /\ DOMAIN q = ToSet(o) /\ DOMAIN q = BatchesOf(v)
    /\ \A i, j \in 1 .. Len(o) : o[i] = o[j] => i = j
    /\ Version(o, q) = v
    /\ p = Total(v)

LEMMA AbortMemory ==
    ASSUME StoreInv, op.step \in {"write", "parents"}, Abort
    PROVE  MemoryHolds(order', records', pending', file)
<1> DEFINE r == [id |-> op.batch, count |-> op.old.count, until |-> op.old.until]
<1>1. StoreTypeOK /\ MemoryOK /\ AheadOfFile
    BY DEF StoreInv, OperationOK
<1>2. file \in Seq(Records) /\ Distinct(file)
    BY <1>1, FileFacts
<1>3. SUFFICES /\ order' \in Seq(Batches) /\ Len(order') = Len(file)
               /\ records' = [b \in DOMAIN records' |-> records'[b]]
               /\ DOMAIN records' = BatchesOf(file)
               /\ \A i \in 1 .. Len(file) :
                     /\ order'[i] = file[i].id
                     /\ records'[file[i].id] = [count |-> file[i].count, until |-> file[i].until]
               /\ pending' = Total(file)
    BY <1>2, MemoryIs DEF MemoryHolds
<1>4. CASE op.name = "put"
    <2>1. Content = Append(file, r)
        BY <1>1, <1>4 DEF AheadOfFile
    <2>2. order' = Front(order) /\ records' = Without(op.batch) /\ pending' = pending - op.old.count
        BY <1>4 DEF Abort
    <2>3. Without(op.batch) = [b \in DOMAIN Without(op.batch) |-> Without(op.batch)[b]]
        BY DEF Without
    <2> HIDE DEF r
    <2> QED
        BY <1>1, <2>1, <2>2, <2>3, UndoPut DEF r
<1>5. CASE op.name = "acknowledge"
    <2>1. op.index \in 1 .. Len(file) /\ file[op.index] = r /\ Content = RemoveAt(file, op.index)
        BY <1>1, <1>5 DEF AheadOfFile
    <2>2. order' = Reinserted /\ records' = With(op.batch, op.old) /\ pending' = pending + op.old.count
        BY <1>5 DEF Abort
    <2>3. With(op.batch, op.old) = [b \in DOMAIN With(op.batch, op.old) |-> With(op.batch, op.old)[b]]
        BY DEF With
    <2> HIDE DEF r
    <2> QED
        BY <1>1, <2>1, <2>2, <2>3, UndoAcknowledge DEF r
<1>6. CASE op.name = "pause"
    <2>1. /\ op.index \in 1 .. Len(file) /\ file[op.index] = r
          /\ \E u \in Untils : Content = [file EXCEPT ![op.index].until = u]
        BY <1>1, <1>6 DEF AheadOfFile
    <2>2. PICK u \in Untils : Content = [file EXCEPT ![op.index].until = u]
        BY <2>1
    <2>3. order' = order /\ records' = Unpaused /\ pending' = pending
        BY <1>6 DEF Abort
    <2>4. Unpaused = [b \in DOMAIN Unpaused |-> Unpaused[b]] /\ order \in Seq(Batches)
        BY <1>1 DEF Unpaused, StoreTypeOK
    <2> HIDE DEF r
    <2> QED
        BY <1>1, <2>1, <2>2, <2>3, <2>4, UndoPause DEF r
<1> QED
    BY <1>4, <1>5, <1>6 DEF Abort

\* Memory and file when no operation is under way.
LEMMA AtRest ==
    ASSUME StoreTypeOK, MemoryHolds(order', records', pending', file'), op' = NoOp, up' = TRUE,
           file' = file, \A b \in BatchesOf(file) : b < next', \A b \in acked' : b < next'
    PROVE  /\ order' \in Seq(Batches)
           /\ DOMAIN records' \subseteq Batches /\ records' \in [DOMAIN records' -> Entries]
           /\ pending' \in 0 .. Limit /\ op' \in Operations /\ up' \in BOOLEAN
           /\ MemoryOK' /\ OperationOK'
           /\ \A b \in DOMAIN records' \union acked' : b < next'
<1>1. Content' = file
    BY DEF Content, Version, MemoryHolds
<1>2. pending' = Total(Content)'
    BY <1>1 DEF MemoryHolds
<1>3. MemoryOK'
    BY <1>2 DEF MemoryHolds, MemoryOK
<1>4. OperationOK'
    BY <1>1, NoOpFacts DEF OperationOK
<1> QED
    BY <1>3, <1>4, FileFacts, NoOpFacts DEF MemoryHolds

\* What is said of the disk alone.
LEMMA DiskKept ==
    ASSUME StoreInv, UNCHANGED <<file, exposed>>, next' \in next .. MaxBatches + 1,
           acked' \subseteq acked, promised' \subseteq promised,
           dirs' \in [Levels -> {"absent", "volatile", "durable"}],
           (\E i \in Levels : dirs'[i] = "absent") => file = <<>>,
           op'.step = "parents" => \A i \in Levels : dirs'[i] # "absent"
    PROVE  /\ IsLog(file') /\ \A v \in exposed' : IsLog(v)
           /\ dirs' \in [Levels -> {"absent", "volatile", "durable"}]
           /\ next' \in 1 .. MaxBatches + 1
           /\ promised' \subseteq Batches /\ acked' \subseteq Batches
           /\ \A v \in exposed' : \A b \in BatchesOf(v) : b < next'
           /\ \A b \in acked' : b < next'
           /\ DiskOK' /\ PutSurvives' /\ AcknowledgedStaysGone'
<1>1. /\ IsLog(file') /\ \A v \in exposed' : IsLog(v)
      /\ next \in Nat /\ next' \in 1 .. MaxBatches + 1
      /\ promised' \subseteq Batches /\ acked' \subseteq Batches
    BY StoreAssumption DEF StoreInv, StoreTypeOK
<1>2. \A b \in acked' : b < next'
    BY <1>1 DEF StoreInv, FreshOK, Batches
<1>5. ASSUME NEW v \in exposed', NEW b \in BatchesOf(v) PROVE b < next'
    <2>1. b < next /\ v \in Seq(Records)
        BY DEF StoreInv, FreshOK, StoreTypeOK, IsLog
    <2>2. b \in Batches
        BY <2>1, RecordFacts DEF BatchesOf
    <2> QED
        BY <1>1, <2>1, <2>2 DEF Batches
<1>3. DiskOK'
    BY DEF StoreInv, DiskOK
<1>4. PutSurvives' /\ AcknowledgedStaysGone'
    BY DEF StoreInv, PutSurvives, AcknowledgedStaysGone
<1> QED
    BY <1>1, <1>2, <1>3, <1>4, <1>5

\* An error before the commit point.
LEMMA AbortInv ==
    ASSUME StoreInv, up, op.step \in {"write", "parents"}, Abort,
           dirs' \in [Levels -> {"absent", "volatile", "durable"}],
           (\E i \in Levels : dirs'[i] = "absent") => file = <<>>
    PROVE  StoreInv'
<1>1. UNCHANGED <<up, file, exposed, next, promised, acked>> /\ op' = NoOp
      /\ next' \in next .. MaxBatches + 1
    BY StoreAssumption DEF Abort, history, StoreInv, StoreTypeOK
<1>2. MemoryHolds(order', records', pending', file')
    BY <1>1, AbortMemory
<1>3. /\ IsLog(file') /\ \A v \in exposed' : IsLog(v)
      /\ dirs' \in [Levels -> {"absent", "volatile", "durable"}]
      /\ next' \in 1 .. MaxBatches + 1
      /\ promised' \subseteq Batches /\ acked' \subseteq Batches
      /\ \A v \in exposed' : \A b \in BatchesOf(v) : b < next'
      /\ \A b \in acked' : b < next'
      /\ DiskOK' /\ PutSurvives' /\ AcknowledgedStaysGone'
    BY <1>1, NoOpFacts, DiskKept
<1>4. \A b \in BatchesOf(file) : b < next'
    BY <1>1, <1>3 DEF DiskOK
<1>5. /\ order' \in Seq(Batches)
      /\ DOMAIN records' \subseteq Batches /\ records' \in [DOMAIN records' -> Entries]
      /\ pending' \in 0 .. Limit /\ op' \in Operations /\ up' \in BOOLEAN
      /\ MemoryOK' /\ OperationOK'
      /\ \A b \in DOMAIN records' \union acked' : b < next'
    BY <1>1, <1>2, <1>3, <1>4, AtRest DEF StoreInv, StoreTypeOK
<1> QED
    BY <1>3, <1>5 DEF StoreInv, StoreTypeOK, FreshOK

---------------------------------------------------------------------------
(* How an operation begins *)

\* Memory ahead of the file.
LEMMA BeginInv ==
    ASSUME StoreInv, Idle, NEW v, MemoryHolds(order', records', pending', v), Total(v) <= Limit,
           v \in Seq(Records), AheadOfFile', op' \in Operations, op'.step = "write", op'.name # "none",
           op'.batch \in Batches, op'.batch < next', op'.name = "put" => op'.batch \notin acked,
           UNCHANGED <<up, disk, promised, acked>>, next' \in next .. MaxBatches + 1,
           \A b \in BatchesOf(v) : b < next'
    PROVE  StoreInv'
<1>1. Content' = v /\ pending' = Total(v) /\ Total(v) \in Nat
    BY TotalNat DEF Content, Version, MemoryHolds
<1>2. MemoryOK'
    BY <1>1 DEF MemoryHolds, MemoryOK, Idle
<1>3. OperationOK'
    BY DEF OperationOK
<1>4. /\ dirs \in [Levels -> {"absent", "volatile", "durable"}]
      /\ (\E i \in Levels : dirs[i] = "absent") => file = <<>>
      /\ up \in BOOLEAN
    BY DEF StoreInv, StoreTypeOK, DiskOK
<1>5. UNCHANGED <<file, exposed, dirs>>
    BY DEF disk
<1>6. /\ IsLog(file') /\ \A w \in exposed' : IsLog(w)
      /\ dirs' \in [Levels -> {"absent", "volatile", "durable"}]
      /\ next' \in 1 .. MaxBatches + 1
      /\ promised' \subseteq Batches /\ acked' \subseteq Batches
      /\ \A w \in exposed' : \A b \in BatchesOf(w) : b < next'
      /\ \A b \in acked' : b < next'
      /\ DiskOK' /\ PutSurvives' /\ AcknowledgedStaysGone'
    BY <1>4, <1>5, DiskKept
<1>7. /\ order' \in Seq(Batches)
      /\ DOMAIN records' \subseteq Batches /\ records' \in [DOMAIN records' -> Entries]
      /\ \A b \in DOMAIN records' : b < next'
    BY DEF MemoryHolds
<1>8. pending' \in 0 .. Limit
    BY <1>1, StoreAssumption
<1> QED
    BY <1>2, <1>3, <1>4, <1>6, <1>7, <1>8 DEF StoreInv, StoreTypeOK, FreshOK

\* Memory and file between two operations.
LEMMA IdleFacts ==
    ASSUME StoreInv, Idle
    PROVE  /\ Content = file /\ pending = Total(file) /\ file \in Seq(Records)
           /\ order \in Seq(Batches) /\ Len(order) = Len(file) /\ Len(order) \in Nat
           /\ DOMAIN records = BatchesOf(file) /\ DOMAIN records = ToSet(order)
           /\ records = [b \in DOMAIN records |-> records[b]]
           /\ Distinct(file)
           /\ \A i \in 1 .. Len(file) :
                 /\ order[i] = file[i].id /\ order[i] \in DOMAIN records
                 /\ records[order[i]] = [count |-> file[i].count, until |-> file[i].until]
           /\ \A b \in BatchesOf(file) : b \in Batches /\ b < next
<1>1. Content = file
    BY NoOpFacts DEF StoreInv, OperationOK, Idle
<1>2. StoreTypeOK /\ MemoryOK
    BY DEF StoreInv
<1>3. ASSUME NEW i \in 1 .. Len(order)
      PROVE  /\ order[i] = file[i].id /\ order[i] \in DOMAIN records
             /\ records[order[i]] = [count |-> file[i].count, until |-> file[i].until]
    <2>1. /\ order[i] \in DOMAIN records /\ records[order[i]] \in Entries
          /\ file[i] = [id |-> order[i], count |-> records[order[i]].count,
                        until |-> records[order[i]].until]
        BY <1>1, <1>2, ContentFacts DEF MemoryOK
    <2>2. records[order[i]] = [count |-> records[order[i]].count, until |-> records[order[i]].until]
        BY <2>1 DEF Entries
    <2>3. file[i].id = order[i] /\ file[i].count = records[order[i]].count
          /\ file[i].until = records[order[i]].until
        BY <2>1
    <2> QED
        BY <2>1, <2>2, <2>3
<1>4. /\ Len(order) = Len(file) /\ Len(order) \in Nat /\ DOMAIN records = BatchesOf(file)
    BY <1>1, <1>2, ContentFacts DEF MemoryOK
<1> QED
    BY <1>1, <1>2, <1>3, <1>4, FileFacts DEF MemoryOK, StoreTypeOK, StoreInv, FreshOK

LEMMA PutInv == ASSUME StoreInv, Put PROVE StoreInv'
<1>1. PICK count \in 1 .. MaxEvents :
         /\ pending + count <= Limit
         /\ records' = With(next, [count |-> count, until |-> 0])
         /\ pending' = pending + count
         /\ Begin("put", next, Len(order) + 1, [count |-> count, until |-> 0])
    BY DEF Put, Fits
<1> DEFINE r == [id |-> next, count |-> count, until |-> 0]
           v == Append(file, r)
<1>2. Idle /\ order' = Append(order, next) /\ next' = next + 1 /\ next <= MaxBatches
    BY <1>1 DEF Put, Begin
<1>3. next \in Batches /\ next' \in next .. MaxBatches + 1 /\ count \in Nat
    BY <1>2, StoreAssumption DEF StoreInv, StoreTypeOK, Batches
<1>4. r \in Records /\ r.id = next /\ r.count = count
    BY <1>3 DEF Records, Untils
<1> HIDE DEF r
<1>5. /\ v \in Seq(Records) /\ Len(v) = Len(file) + 1 /\ v[Len(file) + 1] = r
      /\ \A i \in 1 .. Len(file) : v[i] = file[i]
    BY <1>2, <1>4, IdleFacts, AppendFacts
<1>6. /\ order' \in Seq(Batches) /\ Len(order') = Len(order) + 1 /\ order'[Len(order) + 1] = next
      /\ \A i \in 1 .. Len(order) : order'[i] = order[i]
    BY <1>2, <1>3, IdleFacts, AppendFacts
<1>7. Total(v) = Total(file) + count
    BY <1>2, <1>4, IdleFacts, TotalAppend
<1> HIDE DEF v
<1>8. next \notin DOMAIN records /\ \A i \in 1 .. Len(file) : file[i].id # next
    <2>1. \A b \in DOMAIN records : b \in Batches /\ b < next
        BY <1>2, IdleFacts
    <2>2. \A i \in 1 .. Len(file) : file[i].id \in DOMAIN records
        BY <1>2, IdleFacts
    <2> QED
        BY <1>3, <2>1, <2>2 DEF Batches
<1>9. \A i \in 1 .. Len(v) : i \in 1 .. Len(file) \/ i = Len(file) + 1
    BY <1>2, <1>5, IdleFacts
<1>10. ASSUME NEW i \in 1 .. Len(v)
       PROVE  /\ order'[i] = v[i].id
              /\ records'[v[i].id] = [count |-> v[i].count, until |-> v[i].until]
    <2>1. CASE i = Len(file) + 1
        <3>1. records'[next] = [count |-> count, until |-> 0]
            BY <1>1 DEF With
        <3>2. r.until = 0
            BY DEF r
        <3> QED
            BY <1>2, <1>4, <1>5, <1>6, <2>1, <3>1, <3>2, IdleFacts
    <2>2. CASE i \in 1 .. Len(file)
        <3>1. /\ order[i] = file[i].id /\ order[i] \in DOMAIN records
              /\ records[order[i]] = [count |-> file[i].count, until |-> file[i].until]
              /\ i \in 1 .. Len(order)
            BY <1>2, <2>2, IdleFacts
        <3>2. records'[order[i]] = records[order[i]]
            BY <1>1, <1>8, <3>1 DEF With
        <3> QED
            BY <1>5, <1>6, <2>2, <3>1, <3>2
    <2> QED
        BY <1>9, <2>1, <2>2
<1>11. BatchesOf(v) = DOMAIN records \union {next}
    <2>1. \A b : b \in BatchesOf(v) <=> \E i \in 1 .. Len(v) : v[i].id = b
        BY DEF BatchesOf
    <2>2. \A i \in 1 .. Len(file) : v[i].id = file[i].id /\ i \in 1 .. Len(v)
        BY <1>2, <1>5, IdleFacts
    <2>3. v[Len(file) + 1].id = next /\ Len(file) + 1 \in 1 .. Len(v)
        BY <1>2, <1>4, <1>5, IdleFacts
    <2>4. \A b : b \in DOMAIN records <=> \E i \in 1 .. Len(file) : file[i].id = b
        BY <1>2, IdleFacts DEF BatchesOf
    <2> QED
        BY <1>9, <2>1, <2>2, <2>3, <2>4
<1>12. Distinct(v)
    <2> SUFFICES ASSUME NEW i \in 1 .. Len(v), NEW j \in 1 .. Len(v), v[i].id = v[j].id
                 PROVE  i = j
        BY DEF Distinct
    <2> QED
        BY <1>2, <1>4, <1>5, <1>8, <1>9, IdleFacts DEF Distinct
<1>13. /\ DOMAIN records' = DOMAIN records \union {next}
       /\ records' = [b \in DOMAIN records' |-> records'[b]]
    BY <1>1 DEF With
<1>14. pending' = Total(v)
    BY <1>1, <1>2, <1>7, IdleFacts
<1>15. MemoryHolds(order', records', pending', v)
    <2>1. Len(order') = Len(v)
        BY <1>2, <1>5, <1>6, IdleFacts
    <2>2. order' \in Seq(Batches) /\ DOMAIN records' = BatchesOf(v) /\ v \in Seq(Records)
        BY <1>5, <1>6, <1>11, <1>13
    <2>3. records' = [b \in DOMAIN records' |-> records'[b]]
        BY <1>13
    <2>4. /\ DOMAIN records' \subseteq Batches /\ records' \in [DOMAIN records' -> Entries]
          /\ DOMAIN records' = ToSet(order')
          /\ \A i, j \in 1 .. Len(order') : order'[i] = order'[j] => i = j
          /\ Version(order', records') = v
        BY <1>10, <1>12, <2>1, <2>2, <2>3, MemoryIs
    <2> QED
        BY <1>14, <2>2, <2>4 DEF MemoryHolds
<1>16. /\ op' = [NoOp EXCEPT !.name = "put", !.step = "write", !.batch = next,
                            !.index = Len(order) + 1, !.old = [count |-> count, until |-> 0]]
       /\ UNCHANGED <<up, disk, promised, acked>>
    BY <1>1 DEF Begin
<1>17. /\ op' \in Operations /\ op'.step = "write" /\ op'.name = "put" /\ op'.batch = next
       /\ op'.old.count = count /\ op'.old.until = 0
    <2>1. Len(order) + 1 \in Nat /\ [count |-> count, until |-> 0] \in [count : 0 .. MaxEvents, until : Untils]
        BY <1>2, StoreAssumption, IdleFacts DEF Untils
    <2>2. next \in 0 .. MaxBatches
        BY <1>3 DEF Batches
    <2> QED
        BY <1>16, <2>1, <2>2 DEF NoOp, Operations
<1>18. AheadOfFile'
    <2>1. Content' = v /\ file' = file
        BY <1>15, <1>16 DEF Content, Version, MemoryHolds, disk
    <2> QED
        BY <1>17, <2>1 DEF AheadOfFile, v, r
<1>19. \A b \in BatchesOf(v) : b < next'
    <2>1. \A b \in DOMAIN records : b \in Batches /\ b < next
        BY <1>2, IdleFacts
    <2> QED
        BY <1>2, <1>3, <1>11, <2>1 DEF Batches
<1>20. next \notin acked
    BY <1>3 DEF StoreInv, FreshOK, Batches
<1>21. Total(v) <= Limit
    BY <1>1, <1>14
<1>22. op'.batch \in Batches /\ op'.batch < next'
    BY <1>2, <1>3, <1>17 DEF Batches
<1> QED
    BY <1>2, <1>3, <1>5, <1>15, <1>16, <1>17, <1>18, <1>19, <1>20, <1>21, <1>22, BeginInv

LEMMA AcknowledgeInv == ASSUME StoreInv, Acknowledge PROVE StoreInv'
<1>1. PICK k \in 1 .. Len(order) :
         /\ order' = RemoveAt(order, k)
         /\ records' = Without(order[k])
         /\ pending' = pending - records[order[k]].count
         /\ Begin("acknowledge", order[k], k, records[order[k]])
    BY DEF Acknowledge
<1> DEFINE v == RemoveAt(file, k)
           b == order[k]
<1>2. Idle /\ next' = next
    BY <1>1 DEF Acknowledge, Begin
<1>3. /\ file \in Seq(Records) /\ order \in Seq(Batches) /\ Len(order) = Len(file)
      /\ Len(file) \in Nat /\ k \in 1 .. Len(file)
    BY <1>2, IdleFacts
<1>4. /\ v \in Seq(Records) /\ Len(v) = Len(file) - 1
      /\ \A i \in 1 .. Len(file) - 1 : v[i] = IF i < k THEN file[i] ELSE file[i + 1]
    BY <1>3, RemoveFacts
<1>5. /\ order' \in Seq(Batches) /\ Len(order') = Len(file) - 1
      /\ \A i \in 1 .. Len(file) - 1 : order'[i] = IF i < k THEN order[i] ELSE order[i + 1]
    BY <1>1, <1>3, RemoveFacts
<1>6. Total(v) = Total(file) - file[k].count
    BY <1>3, TotalRemove
<1> HIDE DEF v
<1>7. ASSUME NEW i \in 1 .. Len(v)
      PROVE  \E j \in 1 .. Len(file) : /\ j # k /\ v[i] = file[j] /\ order'[i] = order[j]
                                       /\ j = IF i < k THEN i ELSE i + 1
    <2>1. CASE i < k
        BY <1>3, <1>4, <1>5, <2>1
    <2>2. CASE ~(i < k)
        BY <1>3, <1>4, <1>5, <2>2
    <2> QED
        BY <2>1, <2>2
<1>8. \A j \in 1 .. Len(file) : /\ order[j] = file[j].id /\ order[j] \in DOMAIN records
                                /\ (j # k => file[j].id # b)
    BY <1>2, <1>3, IdleFacts DEF Distinct
<1>9. records[b] = [count |-> file[k].count, until |-> file[k].until] /\ b = file[k].id
    BY <1>2, <1>3, IdleFacts
<1>10. ASSUME NEW i \in 1 .. Len(v)
       PROVE  /\ order'[i] = v[i].id
              /\ records'[v[i].id] = [count |-> v[i].count, until |-> v[i].until]
    <2>1. PICK j \in 1 .. Len(file) : j # k /\ v[i] = file[j] /\ order'[i] = order[j]
        BY <1>7
    <2>2. records'[order[j]] = records[order[j]]
        BY <1>1, <1>8, <2>1 DEF Without
    <2>3. records[order[j]] = [count |-> file[j].count, until |-> file[j].until]
        BY <1>2, IdleFacts
    <2> QED
        BY <1>8, <2>1, <2>2, <2>3
<1>11. BatchesOf(v) = DOMAIN records \ {b}
    <2>1. \A c : c \in BatchesOf(v) <=> \E i \in 1 .. Len(v) : v[i].id = c
        BY DEF BatchesOf
    <2>2. \A c : c \in DOMAIN records <=> \E j \in 1 .. Len(file) : file[j].id = c
        BY <1>2, IdleFacts DEF BatchesOf
    <2>3. ASSUME NEW i \in 1 .. Len(v) PROVE v[i].id \in DOMAIN records \ {b}
        <3>1. PICK j \in 1 .. Len(file) : j # k /\ v[i] = file[j]
            BY <1>7
        <3> QED
            BY <1>8, <3>1
    <2>4. ASSUME NEW j \in 1 .. Len(file), file[j].id # b
          PROVE  \E i \in 1 .. Len(v) : v[i].id = file[j].id
        <3>1. j # k
            BY <1>9, <2>4
        <3>2. CASE j < k
            <4>1. j \in 1 .. Len(v) /\ v[j] = file[j]
                BY <1>3, <1>4, <3>2
            <4> QED
                BY <4>1
        <3>3. CASE j > k
            <4>1. j - 1 \in 1 .. Len(v) /\ j - 1 + 1 = j /\ ~(j - 1 < k)
                BY <1>3, <1>4, <3>3
            <4>2. v[j - 1] = file[j]
                BY <1>4, <4>1
            <4> QED
                BY <4>1, <4>2
        <3> QED
            BY <1>3, <3>1, <3>2, <3>3
    <2> QED
        BY <2>1, <2>2, <2>3, <2>4
<1>12. Distinct(v)
    <2> SUFFICES ASSUME NEW i \in 1 .. Len(v), NEW j \in 1 .. Len(v), v[i].id = v[j].id
                 PROVE  i = j
        BY DEF Distinct
    <2>1. PICK x \in 1 .. Len(file) : v[i] = file[x] /\ x = IF i < k THEN i ELSE i + 1
        BY <1>7
    <2>2. PICK y \in 1 .. Len(file) : v[j] = file[y] /\ y = IF j < k THEN j ELSE j + 1
        BY <1>7
    <2>3. x = y
        BY <1>2, <2>1, <2>2, IdleFacts DEF Distinct
    <2> QED
        BY <1>3, <1>4, <2>1, <2>2, <2>3
<1>13. DOMAIN records' = DOMAIN records \ {b} /\ records' = [c \in DOMAIN records' |-> records'[c]]
    BY <1>1 DEF Without
<1>14. pending' = Total(v)
    <2>1. records[b].count = file[k].count
        BY <1>9
    <2> QED
        BY <1>1, <1>2, <1>6, <2>1, IdleFacts
<1>15. MemoryHolds(order', records', pending', v)
    <2>1. Len(order') = Len(v) /\ order' \in Seq(Batches) /\ DOMAIN records' = BatchesOf(v)
          /\ v \in Seq(Records)
        BY <1>4, <1>5, <1>11, <1>13
    <2>2. records' = [c \in DOMAIN records' |-> records'[c]]
        BY <1>13
    <2>3. /\ DOMAIN records' \subseteq Batches /\ records' \in [DOMAIN records' -> Entries]
          /\ DOMAIN records' = ToSet(order')
          /\ \A i, j \in 1 .. Len(order') : order'[i] = order'[j] => i = j
          /\ Version(order', records') = v
        BY <1>10, <1>12, <2>1, <2>2, MemoryIs
    <2> QED
        BY <1>14, <2>1, <2>3 DEF MemoryHolds
<1>16. /\ op' = [NoOp EXCEPT !.name = "acknowledge", !.step = "write", !.batch = b,
                            !.index = k, !.old = records[b]]
       /\ UNCHANGED <<up, disk, promised, acked>>
    BY <1>1 DEF Begin
<1>17. /\ op' \in Operations /\ op'.step = "write" /\ op'.name = "acknowledge" /\ op'.batch = b
       /\ op'.index = k /\ op'.old = records[b]
    <2>1. records[b] \in [count : 0 .. MaxEvents, until : Untils]
        <3>1. b \in DOMAIN records /\ records[b] \in Entries
            BY <1>3, <1>8 DEF StoreInv, StoreTypeOK
        <3>2. 1 .. MaxEvents \subseteq 0 .. MaxEvents
            BY StoreAssumption
        <3> QED
            BY <3>1, <3>2 DEF Entries
    <2>2. b \in 0 .. MaxBatches /\ k \in Nat
        BY <1>3, StoreAssumption DEF Batches
    <2> QED
        BY <1>16, <2>1, <2>2 DEF NoOp, Operations
<1>18. AheadOfFile'
    <2>1. Content' = v /\ file' = file
        BY <1>15, <1>16 DEF Content, Version, MemoryHolds, disk
    <2>2. file[k] = [id |-> b, count |-> records[b].count, until |-> records[b].until]
        <3>1. file[k] \in Records
            BY <1>3
        <3>2. file[k] = [id |-> file[k].id, count |-> file[k].count, until |-> file[k].until]
            BY <3>1 DEF Records
        <3>3. records[b].count = file[k].count /\ records[b].until = file[k].until
            BY <1>9
        <3> QED
            BY <1>9, <3>2, <3>3
    <2> QED
        BY <1>3, <1>17, <2>1, <2>2 DEF AheadOfFile, v
<1>19. \A c \in BatchesOf(v) : c < next'
    BY <1>2, <1>11, IdleFacts
<1>20. next' \in next .. MaxBatches + 1
    BY <1>2, StoreAssumption DEF StoreInv, StoreTypeOK
<1>21. Total(v) <= Limit
    <2>1. file[k].count \in Nat /\ Total(file) \in 0 .. Limit
        BY <1>3, RecordFacts, FileFacts DEF StoreInv
    <2> QED
        BY <1>6, <2>1, StoreAssumption
<1>22. op'.batch \in Batches /\ op'.batch < next'
    BY <1>2, <1>3, <1>8, <1>17, IdleFacts
<1> QED
    BY <1>2, <1>4, <1>15, <1>16, <1>17, <1>18, <1>19, <1>20, <1>21, <1>22, BeginInv

LEMMA PauseInv == ASSUME StoreInv, Pause PROVE StoreInv'
<1>1. PICK k \in 1 .. Len(order), until \in Untils :
         /\ records' = [records EXCEPT ![order[k]].until = until]
         /\ Begin("pause", order[k], k, records[order[k]])
    BY DEF Pause
<1> DEFINE v == [file EXCEPT ![k].until = until]
           b == order[k]
<1>2. Idle /\ next' = next /\ order' = order /\ pending' = pending
    BY <1>1 DEF Pause, Begin
<1>3. /\ file \in Seq(Records) /\ order \in Seq(Batches) /\ Len(order) = Len(file)
      /\ Len(file) \in Nat /\ k \in 1 .. Len(file)
    BY <1>2, IdleFacts
<1>4. Len(v) = Len(file)
      /\ \A i \in 1 .. Len(file) : v[i] = IF i = k THEN [file[i] EXCEPT !.until = until] ELSE file[i]
    BY <1>3
<1>5. ASSUME NEW i \in 1 .. Len(file)
      PROVE  /\ v[i] \in Records /\ v[i].id = file[i].id /\ v[i].count = file[i].count
             /\ v[i].until = IF i = k THEN until ELSE file[i].until
    <2>1. file[i] \in Records /\ until \in Untils
        BY <1>3
    <2> QED
        BY <1>4, <2>1 DEF Records
<1>6. v \in Seq(Records)
    <2>1. DOMAIN file = 1 .. Len(file)
        BY <1>3
    <2>2. v = [i \in DOMAIN file |-> v[i]]
        OBVIOUS
    <2> HIDE DEF v
    <2> QED
        BY <1>3, <1>5, <2>1, <2>2
<1> HIDE DEF v
<1>7. Total(v) = Total(file)
    BY <1>3, <1>4, <1>5, <1>6, TotalSame
<1>8. \A j \in 1 .. Len(file) : /\ order[j] = file[j].id /\ order[j] \in DOMAIN records
                                /\ (j # k => file[j].id # b)
                                /\ records[order[j]] = [count |-> file[j].count, until |-> file[j].until]
    BY <1>2, <1>3, IdleFacts DEF Distinct
<1>9. ASSUME NEW i \in 1 .. Len(v)
      PROVE  /\ order'[i] = v[i].id
             /\ records'[v[i].id] = [count |-> v[i].count, until |-> v[i].until]
    <2>1. i \in 1 .. Len(file) /\ order[i] = file[i].id /\ order[i] \in DOMAIN records
        BY <1>4, <1>8
    <2>2. CASE i = k
        <3>1. records'[b] = [records[b] EXCEPT !.until = until]
            BY <1>1, <2>1, <2>2
        <3>2. records[b] = [count |-> file[i].count, until |-> file[i].until]
            BY <1>8, <2>1, <2>2
        <3>3. records'[b] = [count |-> file[i].count, until |-> until]
            BY <3>1, <3>2
        <3> QED
            BY <1>2, <1>5, <2>1, <2>2, <3>3
    <2>3. CASE i # k
        <3>1. records'[order[i]] = records[order[i]]
            BY <1>1, <1>8, <2>1, <2>3
        <3> QED
            BY <1>2, <1>5, <1>8, <2>1, <2>3, <3>1
    <2> QED
        BY <2>2, <2>3
<1>10. BatchesOf(v) = DOMAIN records
    <2>1. \A i \in 1 .. Len(file) : v[i].id = file[i].id
        BY <1>5
    <2>2. BatchesOf(v) = BatchesOf(file)
        BY <1>4, <2>1 DEF BatchesOf
    <2> QED
        BY <1>2, <2>2, IdleFacts
<1>11. Distinct(v)
    BY <1>2, <1>4, <1>5, IdleFacts DEF Distinct
<1>12. MemoryHolds(order', records', pending', v)
    <2>1. Len(order') = Len(v) /\ order' \in Seq(Batches) /\ DOMAIN records' = BatchesOf(v)
        BY <1>1, <1>2, <1>3, <1>4, <1>10
    <2>2. records' = [c \in DOMAIN records' |-> records'[c]]
        BY <1>1, <1>2, IdleFacts
    <2>3. /\ DOMAIN records' \subseteq Batches /\ records' \in [DOMAIN records' -> Entries]
          /\ DOMAIN records' = ToSet(order')
          /\ \A i, j \in 1 .. Len(order') : order'[i] = order'[j] => i = j
          /\ Version(order', records') = v
        BY <1>6, <1>9, <1>11, <2>1, <2>2, MemoryIs
    <2>4. pending' = Total(v)
        BY <1>2, <1>7, IdleFacts
    <2> QED
        BY <2>1, <2>3, <2>4 DEF MemoryHolds
<1>13. /\ op' = [NoOp EXCEPT !.name = "pause", !.step = "write", !.batch = b,
                            !.index = k, !.old = records[b]]
       /\ UNCHANGED <<up, disk, promised, acked>>
    BY <1>1 DEF Begin
<1>14. /\ op' \in Operations /\ op'.step = "write" /\ op'.name = "pause" /\ op'.batch = b
       /\ op'.index = k /\ op'.old = records[b]
    <2>1. records[b] \in [count : 0 .. MaxEvents, until : Untils]
        <3>1. b \in DOMAIN records /\ records[b] \in Entries
            BY <1>3, <1>8 DEF StoreInv, StoreTypeOK
        <3>2. 1 .. MaxEvents \subseteq 0 .. MaxEvents
            BY StoreAssumption
        <3> QED
            BY <3>1, <3>2 DEF Entries
    <2>2. b \in 0 .. MaxBatches /\ k \in Nat
        BY <1>3, StoreAssumption DEF Batches
    <2> QED
        BY <1>13, <2>1, <2>2 DEF NoOp, Operations
<1>15. AheadOfFile'
    <2>1. Content' = v /\ file' = file
        BY <1>12, <1>13 DEF Content, Version, MemoryHolds, disk
    <2>2. file[k] = [id |-> b, count |-> records[b].count, until |-> records[b].until]
        <3>1. file[k] \in Records
            BY <1>3
        <3>2. file[k] = [id |-> file[k].id, count |-> file[k].count, until |-> file[k].until]
            BY <3>1 DEF Records
        <3>3. records[b] = [count |-> file[k].count, until |-> file[k].until] /\ b = file[k].id
            BY <1>3, <1>8
        <3>4. records[b].count = file[k].count /\ records[b].until = file[k].until
            BY <3>3
        <3> QED
            BY <3>2, <3>3, <3>4
    <2> QED
        BY <1>1, <1>3, <1>14, <2>1, <2>2 DEF AheadOfFile, v
<1>16. \A c \in BatchesOf(v) : c < next'
    BY <1>2, <1>10, IdleFacts
<1>17. next' \in next .. MaxBatches + 1
    BY <1>2, StoreAssumption DEF StoreInv, StoreTypeOK
<1>18. Total(v) <= Limit
    BY <1>7, FileFacts, StoreAssumption DEF StoreInv
<1>19. op'.batch \in Batches /\ op'.batch < next'
    BY <1>2, <1>3, <1>8, <1>14, IdleFacts
<1> QED
    BY <1>2, <1>6, <1>12, <1>13, <1>14, <1>15, <1>16, <1>17, <1>18, <1>19, BeginInv

\* A put over the limit uses up a number.
LEMMA PutOverLimitInv == ASSUME StoreInv, PutOverLimit PROVE StoreInv'
<1>1. UNCHANGED <<up, order, records, pending, op, file, exposed, dirs, promised, acked>>
      /\ next' = next + 1 /\ next <= MaxBatches /\ up /\ op = NoOp
    BY DEF PutOverLimit, memory, disk, Idle
<1>2. next' \in next .. MaxBatches + 1 /\ next \in Nat
    BY <1>1, StoreAssumption DEF StoreInv, StoreTypeOK
<1>3. MemoryOK' /\ OperationOK'
    <2>1. Content' = Content
        BY <1>1 DEF Content
    <2> QED
        BY <1>1, <2>1, NoOpFacts DEF StoreInv, MemoryOK, OperationOK
<1>4. /\ IsLog(file') /\ \A v \in exposed' : IsLog(v)
      /\ dirs' \in [Levels -> {"absent", "volatile", "durable"}]
      /\ next' \in 1 .. MaxBatches + 1
      /\ promised' \subseteq Batches /\ acked' \subseteq Batches
      /\ \A v \in exposed' : \A b \in BatchesOf(v) : b < next'
      /\ \A b \in acked' : b < next'
      /\ DiskOK' /\ PutSurvives' /\ AcknowledgedStaysGone'
    BY <1>1, <1>2, NoOpFacts, DiskKept DEF StoreInv, StoreTypeOK, DiskOK
<1>5. \A b \in DOMAIN records' : b < next'
    BY <1>1, <1>2 DEF StoreInv, StoreTypeOK, FreshOK, Batches
<1> QED
    BY <1>1, <1>3, <1>4, <1>5 DEF StoreInv, StoreTypeOK, FreshOK

---------------------------------------------------------------------------
(* writeLocked *)

\* Which batches the new version has.
LEMMA AheadBatches ==
    ASSUME StoreTypeOK, MemoryOK, AheadOfFile
    PROVE  \/ op.name = "put" /\ BatchesOf(Content) = BatchesOf(file) \union {op.batch}
           \/ op.name = "acknowledge" /\ BatchesOf(Content) = BatchesOf(file) \ {op.batch}
           \/ op.name = "pause" /\ BatchesOf(Content) = BatchesOf(file)
<1> DEFINE r == [id |-> op.batch, count |-> op.old.count, until |-> op.old.until]
<1>1. BatchesOf(Content) = DOMAIN records
    BY ContentFacts DEF MemoryOK
<1>2. file \in Seq(Records) /\ Len(file) \in Nat
    BY FileFacts
<1>3. CASE op.name = "put" /\ Content = Append(file, r)
    <2>1. DOMAIN Without(op.batch) = BatchesOf(file)
        BY <1>3, UndoPut
    <2>2. op.batch \in BatchesOf(Content)
        <3>1. Len(Content) = Len(file) + 1 /\ Content[Len(file) + 1].id = op.batch
            BY <1>2, <1>3
        <3> QED
            BY <1>2, <3>1 DEF BatchesOf
    <2> QED
        BY <1>1, <1>3, <2>1, <2>2 DEF Without
<1>4. CASE /\ op.index \in 1 .. Len(file) /\ file[op.index] = r
           /\ op.name = "acknowledge" /\ Content = RemoveAt(file, op.index)
    <2>1. DOMAIN With(op.batch, op.old) = BatchesOf(file)
        BY <1>4, UndoAcknowledge
    <2>2. op.batch \notin BatchesOf(Content)
        <3> SUFFICES ASSUME NEW j \in 1 .. Len(Content), Content[j].id = op.batch
                     PROVE  FALSE
            BY DEF BatchesOf
        <3>1. PICK i \in 1 .. Len(file) : i # op.index /\ Content[j] = file[i]
            <4>1. Len(Content) = Len(file) - 1
                  /\ \A i \in 1 .. Len(file) - 1 :
                        Content[i] = IF i < op.index THEN file[i] ELSE file[i + 1]
                BY <1>2, <1>4, RemoveFacts
            <4>2. CASE j < op.index
                BY <1>2, <1>4, <4>1, <4>2
            <4>3. CASE ~(j < op.index)
                BY <1>2, <1>4, <4>1, <4>3
            <4> QED
                BY <4>2, <4>3
        <3>2. file[op.index].id = op.batch
            BY <1>4
        <3> QED
            BY <1>4, <3>1, <3>2, FileFacts DEF Distinct
    <2> QED
        BY <1>1, <1>4, <2>1, <2>2 DEF With
<1>5. CASE /\ op.index \in 1 .. Len(file) /\ file[op.index] = r
           /\ op.name = "pause" /\ \E u \in Untils : Content = [file EXCEPT ![op.index].until = u]
    <2>1. PICK u \in Untils : Content = [file EXCEPT ![op.index].until = u]
        BY <1>5
    <2>2. DOMAIN Unpaused = BatchesOf(file)
        BY <1>5, <2>1, UndoPause
    <2> QED
        BY <1>1, <1>5, <2>2 DEF Unpaused
<1> QED
    BY <1>3, <1>4, <1>5 DEF AheadOfFile

\* The two properties, in terms of the batches of a version.
LEMMA Surviving ==
    /\ PutSurvives <=> \A b \in promised, v \in exposed \union {file} : b \in BatchesOf(v)
    /\ AcknowledgedStaysGone <=> \A b \in acked, v \in exposed \union {file} : b \notin BatchesOf(v)
BY DEF PutSurvives, AcknowledgedStaysGone, BatchesOf

LEMMA CommitInv ==
    ASSUME StoreInv, op.step \in {"write", "parents"}, Commit(Content), Proceed("sync"),
           (\E i \in Levels : dirs[i] = "absent") => Content = <<>>
    PROVE  StoreInv'
<1>1. StoreTypeOK /\ MemoryOK /\ AheadOfFile /\ FreshOK /\ OperationOK /\ DiskOK
      /\ PutSurvives /\ AcknowledgedStaysGone
    BY DEF StoreInv, OperationOK
<1>2. /\ UNCHANGED <<up, order, records, pending, dirs, next, acked>>
      /\ op' = [op EXCEPT !.step = "sync"]
      /\ file' = Content /\ exposed' = exposed \union {Content}
      /\ promised' = IF op.name = "acknowledge" THEN promised \ {op.batch} ELSE promised
    BY DEF Commit, Proceed, memory
<1>3. /\ op' \in Operations /\ op'.step = "sync" /\ op'.name = op.name /\ op'.batch = op.batch
    BY <1>1, <1>2 DEF StoreTypeOK, Operations
<1>4. Content' = Content
    BY <1>2 DEF Content
<1>5. BatchesOf(Content) = DOMAIN records /\ IsLog(Content)
    BY <1>1, ContentFacts, DistinctFacts DEF MemoryOK
<1>6. StoreTypeOK'
    BY <1>1, <1>2, <1>3, <1>5 DEF StoreTypeOK
<1>7. up
    <2>1. op # NoOp
        BY NoOpFacts
    <2> QED
        BY <1>1, <2>1 DEF MemoryOK, StoreTypeOK
<1>8. MemoryOK'
    BY <1>1, <1>2, <1>4, <1>7 DEF MemoryOK
<1>9. FreshOK'
    <2>1. ASSUME NEW v \in exposed', NEW b \in BatchesOf(v) PROVE b < next
        BY <1>1, <1>2, <1>5, <2>1 DEF FreshOK
    <2> QED
        BY <1>1, <1>2, <2>1 DEF FreshOK
<1>10. OperationOK'
    <2>1. op.name = "put" => op.batch \in BatchesOf(Content)
        BY <1>1, AheadBatches
    <2>2. op.name = "acknowledge" => op.batch \notin BatchesOf(Content)
        BY <1>1, AheadBatches
    <2>3. /\ op.name # "none" /\ (op.name = "put" => op.batch \notin acked)
          /\ op.batch \in Batches /\ op.batch < next
        BY <1>1 DEF OperationOK
    <2> QED
        BY <1>2, <1>3, <1>4, <2>1, <2>2, <2>3 DEF OperationOK
<1>11. DiskOK'
    BY <1>1, <1>2, <1>3 DEF DiskOK
<1>12. PutSurvives'
    <2>1. \A b \in promised, v \in exposed \union {file} : b \in BatchesOf(v)
        BY <1>1, Surviving
    <2>2. \A b \in promised' : b \in promised /\ b \in BatchesOf(Content)
        BY <1>1, <1>2, <2>1, AheadBatches
    <2>3. \A b \in promised', v \in exposed' \union {file'} : b \in BatchesOf(v)
        BY <1>2, <2>1, <2>2
    <2> QED
        BY <2>3 DEF PutSurvives, BatchesOf
<1>13. AcknowledgedStaysGone'
    <2>1. \A b \in acked, v \in exposed \union {file} : b \notin BatchesOf(v)
        BY <1>1, Surviving
    <2>2. \A b \in acked : b \notin BatchesOf(Content)
        BY <1>1, <2>1, AheadBatches DEF OperationOK
    <2>3. \A b \in acked', v \in exposed' \union {file'} : b \notin BatchesOf(v)
        BY <1>2, <2>1, <2>2
    <2> QED
        BY <2>3 DEF AcknowledgedStaysGone, BatchesOf
<1> QED
    BY <1>6, <1>8, <1>9, <1>10, <1>11, <1>12, <1>13 DEF StoreInv

\* Without records there is nothing to write.
LEMMA EmptyContent ==
    ASSUME StoreInv, records = <<>>
    PROVE  Content = <<>>
<1>1. DOMAIN records = {}
    OBVIOUS
<1>2. \A i \in 1 .. Len(order) : order[i] \in DOMAIN records
    BY ContentFacts DEF StoreInv, MemoryOK
<1>3. Content \in Seq(Records) /\ Len(Content) = 0
    BY <1>1, <1>2, ContentFacts DEF StoreInv, MemoryOK
<1> QED
    BY <1>3

\* The directories change, memory and file do not.
LEMMA DirectoriesInv ==
    ASSUME StoreInv, UNCHANGED <<up, order, records, pending, file, exposed, next, promised, acked>>,
           op.step \in {"write", "parents"}, NEW parents \in SUBSET Levels,
           op' = [op EXCEPT !.step = "parents", !.parents = parents],
           dirs' \in [Levels -> {"absent", "volatile", "durable"}],
           \A i \in Levels : dirs'[i] # "absent"
    PROVE  StoreInv'
<1>1. StoreTypeOK /\ MemoryOK /\ AheadOfFile /\ FreshOK /\ OperationOK /\ DiskOK
      /\ PutSurvives /\ AcknowledgedStaysGone
    BY DEF StoreInv, OperationOK
<1>2. /\ op' \in Operations /\ op'.step = "parents" /\ op'.name = op.name /\ op'.batch = op.batch
      /\ op'.index = op.index /\ op'.old = op.old
    BY <1>1 DEF StoreTypeOK, Operations
<1>3. Content' = Content
    BY DEF Content
<1>4. up
    <2>1. op # NoOp
        BY NoOpFacts
    <2> QED
        BY <1>1, <2>1 DEF MemoryOK, StoreTypeOK
<1>5. StoreTypeOK'
    BY <1>1, <1>2 DEF StoreTypeOK
<1>6. MemoryOK' /\ FreshOK'
    BY <1>1, <1>3, <1>4 DEF MemoryOK, FreshOK
<1>7. OperationOK'
    <2>1. AheadOfFile'
        BY <1>1, <1>2, <1>3 DEF AheadOfFile
    <2> QED
        BY <1>1, <1>2, <2>1 DEF OperationOK
<1>8. DiskOK' /\ PutSurvives' /\ AcknowledgedStaysGone'
    BY <1>1 DEF DiskOK, PutSurvives, AcknowledgedStaysGone
<1> QED
    BY <1>5, <1>6, <1>7, <1>8 DEF StoreInv

LEMMA WriteInv == ASSUME StoreInv, WriteLocked PROVE StoreInv'
<1>1. CASE RemoveFile
    <2>1. Content = <<>> /\ op.step = "write" /\ Commit(Content) /\ Proceed("sync")
        BY <1>1, EmptyContent DEF RemoveFile, At
    <2> QED
        BY <2>1, CommitInv
<1>2. CASE RemoveFails
    <2>1. Abort /\ op.step = "write" /\ up /\ dirs' = dirs
        BY <1>2 DEF RemoveFails, At
    <2> QED
        BY <2>1, AbortInv DEF StoreInv, StoreTypeOK, DiskOK
<1>3. CASE MakeDirectories
    <2>1. /\ op.step = "write" /\ Missing \in SUBSET Levels
          /\ op' = [op EXCEPT !.step = "parents", !.parents = Missing]
          /\ UNCHANGED <<up, order, records, pending, file, exposed, next, promised, acked>>
          /\ dirs' = [i \in Levels |-> IF i \in Missing THEN "volatile" ELSE dirs[i]]
        BY <1>3 DEF MakeDirectories, At, memory, history, Missing
    <2>2. dirs' \in [Levels -> {"absent", "volatile", "durable"}]
          /\ \A i \in Levels : dirs'[i] # "absent"
        BY <2>1 DEF StoreInv, StoreTypeOK, Missing
    <2> QED
        BY <2>1, <2>2, DirectoriesInv
<1>4. CASE MakeDirectoriesFails
    <2>1. Abort /\ op.step = "write" /\ up
          /\ \E k \in Levels :
                /\ k \in Missing
                /\ dirs' = [i \in Levels |-> IF i \in Missing /\ i < k THEN "volatile" ELSE dirs[i]]
        BY <1>4 DEF MakeDirectoriesFails, At
    <2>2. PICK k \in Levels :
             /\ k \in Missing
             /\ dirs' = [i \in Levels |-> IF i \in Missing /\ i < k THEN "volatile" ELSE dirs[i]]
        BY <2>1
    <2>3. dirs' \in [Levels -> {"absent", "volatile", "durable"}]
        BY <2>2 DEF StoreInv, StoreTypeOK
    <2>4. file = <<>>
        BY <2>2 DEF StoreInv, DiskOK, Missing
    <2> QED
        BY <2>1, <2>3, <2>4, AbortInv
<1>5. CASE SyncParent
    <2>1. /\ op.step = "parents"
          /\ op' = [op EXCEPT !.parents = @ \ {Outermost}]
          /\ UNCHANGED <<up, order, records, pending, file, exposed, next, promised, acked>>
          /\ dirs' = [dirs EXCEPT ![Outermost] = "durable"]
        BY <1>5 DEF SyncParent, At, memory, history
    <2>2. op.parents \ {Outermost} \in SUBSET Levels
          /\ op' = [op EXCEPT !.step = "parents", !.parents = op.parents \ {Outermost}]
        BY <2>1 DEF StoreInv, StoreTypeOK, Operations
    <2>3. dirs' \in [Levels -> {"absent", "volatile", "durable"}]
          /\ \A i \in Levels : dirs'[i] # "absent"
        BY <2>1 DEF StoreInv, StoreTypeOK, DiskOK
    <2> QED
        BY <2>1, <2>2, <2>3, DirectoriesInv
<1>6. CASE SyncParentFails \/ ReplaceFails
    <2>1. Abort /\ op.step = "parents" /\ up /\ dirs' = dirs
        BY <1>6 DEF SyncParentFails, ReplaceFails, At
    <2> QED
        BY <2>1, AbortInv DEF StoreInv, StoreTypeOK, DiskOK
<1>7. CASE Replace
    <2>1. op.step = "parents" /\ Commit(Content) /\ Proceed("sync")
        BY <1>7 DEF Replace, At
    <2>2. \A i \in Levels : dirs[i] # "absent"
        BY <2>1 DEF StoreInv, DiskOK
    <2> QED
        BY <2>1, <2>2, CommitInv
<1>8. CASE SyncFile \/ SyncFileFails
    <2>1. /\ op.step = "sync" /\ up /\ op' = NoOp
          /\ UNCHANGED <<up, order, records, pending, file, dirs, next>>
          /\ \/ UNCHANGED <<exposed, promised, acked>>
             \/ /\ exposed' = {file}
                /\ promised' = IF op.name = "put" THEN promised \union {op.batch} ELSE promised
                /\ acked' = IF op.name = "acknowledge" THEN acked \union {op.batch} ELSE acked
        BY <1>8 DEF SyncFile, SyncFileFails, At, Succeed, memory, disk, history
    <2>2. StoreTypeOK /\ MemoryOK /\ FreshOK /\ OperationOK /\ DiskOK
          /\ PutSurvives /\ AcknowledgedStaysGone
        BY DEF StoreInv
    <2>3. exposed' \subseteq exposed /\ file \in exposed'
        BY <2>1, <2>2 DEF DiskOK
    <2>4. Content' = Content /\ Content = file
        BY <2>1, <2>2 DEF Content, OperationOK
    <2>5. promised' \subseteq promised \union {op.batch} /\ acked' \subseteq acked \union {op.batch}
        BY <2>1
    <2>6. op.batch \in Batches /\ op.batch < next
        BY <2>1, <2>2 DEF OperationOK
    <2>7. StoreTypeOK'
        BY <2>1, <2>2, <2>3, <2>5, <2>6, NoOpFacts DEF StoreTypeOK
    <2>8. MemoryOK'
        BY <2>1, <2>2, <2>4 DEF MemoryOK
    <2>9. FreshOK'
        BY <2>1, <2>2, <2>3, <2>5, <2>6 DEF FreshOK
    <2>10. OperationOK' /\ DiskOK'
        BY <2>1, <2>2, <2>3, <2>4, NoOpFacts DEF OperationOK, DiskOK
    <2>11. PutSurvives'
        <3>1. \A b \in promised, v \in exposed \union {file} : b \in BatchesOf(v)
            BY <2>2, Surviving
        <3>2. \A b \in promised', v \in exposed' \union {file'} : b \in BatchesOf(v)
            BY <2>1, <2>2, <3>1 DEF OperationOK
        <3> QED
            BY <3>2 DEF PutSurvives, BatchesOf
    <2>12. AcknowledgedStaysGone'
        <3>1. \A b \in acked, v \in exposed \union {file} : b \notin BatchesOf(v)
            BY <2>2, Surviving
        <3>2. \A b \in acked', v \in exposed' \union {file'} : b \notin BatchesOf(v)
            BY <2>1, <2>2, <3>1 DEF OperationOK
        <3> QED
            BY <3>2 DEF AcknowledgedStaysGone, BatchesOf
    <2> QED
        BY <2>7, <2>8, <2>9, <2>10, <2>11, <2>12 DEF StoreInv
<1> QED
    BY <1>1, <1>2, <1>3, <1>4, <1>5, <1>6, <1>7, <1>8 DEF WriteLocked

---------------------------------------------------------------------------
(* The environment, and every step *)

\* A process that is down has no memory.
LEMMA DownFacts ==
    ASSUME up' = FALSE, order' = <<>>, records' = <<>>, pending' = 0, op' = NoOp
    PROVE  /\ up' \in BOOLEAN /\ order' \in Seq(Batches)
           /\ DOMAIN records' \subseteq Batches /\ records' \in [DOMAIN records' -> Entries]
           /\ pending' \in 0 .. Limit /\ op' \in Operations /\ MemoryOK' /\ OperationOK'
           /\ DOMAIN records' = {}
<1>1. DOMAIN records' = {} /\ Len(order') = 0 /\ order' \in Seq(Batches) /\ ToSet(order') = {}
    BY DEF ToSet
<1>2. Content' = <<>>
    <2>1. 1 .. Len(order') = {}
        BY <1>1
    <2>2. Content' = [i \in {} |-> 0]
        BY <2>1 DEF Content
    <2> QED
        BY <2>2
<1>3. MemoryOK'
    BY <1>1, <1>2, TotalEmpty DEF MemoryOK
<1>4. OperationOK'
    BY NoOpFacts DEF OperationOK
<1>5. records' \in [DOMAIN records' -> Entries]
    BY <1>1
<1>6. pending' \in 0 .. Limit
    BY StoreAssumption
<1>7. op' \in Operations /\ up' \in BOOLEAN
    BY NoOpFacts
<1>8. DOMAIN records' \subseteq Batches
    BY <1>1
<1> QED
    BY <1>1, <1>3, <1>4, <1>5, <1>6, <1>7, <1>8

LEMMA CrashInv == ASSUME StoreInv, Crash PROVE StoreInv'
<1>1. /\ UNCHANGED <<file, exposed, dirs, promised, next, acked>>
      /\ up' = FALSE /\ order' = <<>> /\ records' = <<>> /\ pending' = 0 /\ op' = NoOp
    BY DEF Crash, Down, disk
<1> QED
    BY <1>1, DownFacts, NoOpFacts DEF StoreInv, StoreTypeOK, FreshOK, DiskOK, PutSurvives,
       AcknowledgedStaysGone

LEMMA PowerLossInv == ASSUME StoreInv, PowerLoss PROVE StoreInv'
<1>1. /\ UNCHANGED <<next, acked>>
      /\ up' = FALSE /\ order' = <<>> /\ records' = <<>> /\ pending' = 0 /\ op' = NoOp
      /\ exposed' = {file'}
    BY DEF PowerLoss, Down
<1>2. PICK k \in 0 .. Depth :
         /\ dirs' = [i \in Levels |-> IF i <= k THEN "durable" ELSE "absent"]
         /\ file' \in (IF k = Depth THEN exposed ELSE {<<>>})
         /\ promised' = IF k = Depth THEN promised ELSE {}
    BY DEF PowerLoss
<1>3. BatchesOf(<<>>) = {} /\ IsLog(<<>>)
    <2>1. IsLog(<<>>)
        BY TotalEmpty, StoreAssumption DEF IsLog, Loads, Distinct
    <2> QED
        BY <2>1 DEF BatchesOf
<1>4. file' \in exposed \/ (file' = <<>> /\ promised' = {})
    BY <1>2
<1>5. IsLog(file') /\ \A b \in BatchesOf(file') : b < next'
    BY <1>1, <1>3, <1>4 DEF StoreInv, StoreTypeOK, FreshOK
<1>6. dirs' \in [Levels -> {"absent", "volatile", "durable"}] /\ promised' \subseteq promised
    BY <1>2
<1>7. DiskOK'
    <2>1. CASE k = Depth
        BY <1>1, <1>2, <2>1, NoOpFacts, StoreAssumption DEF DiskOK, Levels
    <2>2. CASE k # Depth
        BY <1>1, <1>2, <2>2, NoOpFacts DEF DiskOK
    <2> QED
        BY <2>1, <2>2
<1>8. PutSurvives'
    <2>1. \A b \in promised, v \in exposed \union {file} : b \in BatchesOf(v)
        BY Surviving DEF StoreInv
    <2>2. \A b \in promised', v \in exposed' \union {file'} : b \in BatchesOf(v)
        BY <1>1, <1>4, <1>6, <2>1
    <2> QED
        BY <2>2 DEF PutSurvives, BatchesOf
<1>9. AcknowledgedStaysGone'
    <2>1. \A b \in acked, v \in exposed \union {file} : b \notin BatchesOf(v)
        BY Surviving DEF StoreInv
    <2>2. \A b \in acked', v \in exposed' \union {file'} : b \notin BatchesOf(v)
        BY <1>1, <1>3, <1>4, <2>1
    <2> QED
        BY <2>2 DEF AcknowledgedStaysGone, BatchesOf
<1>10. /\ up' \in BOOLEAN /\ order' \in Seq(Batches)
       /\ DOMAIN records' \subseteq Batches /\ records' \in [DOMAIN records' -> Entries]
       /\ pending' \in 0 .. Limit /\ op' \in Operations /\ MemoryOK' /\ OperationOK'
       /\ DOMAIN records' = {}
    BY <1>1, DownFacts
<1> QED
    BY <1>1, <1>5, <1>6, <1>7, <1>8, <1>9, <1>10 DEF StoreInv, StoreTypeOK, FreshOK

LEMMA RestartInv == ASSUME StoreInv, Restart PROVE StoreInv'
<1>1. /\ UNCHANGED <<op, file, exposed, dirs, next, promised, acked>> /\ ~up /\ up' = TRUE
      /\ order' = [i \in 1 .. Len(file) |-> file[i].id]
      /\ records' = [b \in {file[i].id : i \in 1 .. Len(file)} |->
                       LET r == CHOOSE r \in {file[i] : i \in 1 .. Len(file)} : r.id = b
                       IN [count |-> r.count, until |-> r.until]]
      /\ pending' = Total(file)
    BY DEF Restart, disk, history
<1>2. op = NoOp
    BY <1>1 DEF StoreInv, MemoryOK
<1>3. /\ file \in Seq(Records) /\ Len(file) \in Nat /\ Distinct(file)
      /\ \A i \in 1 .. Len(file) : file[i].id \in Batches
    BY FileFacts DEF StoreInv
<1>4. order' \in Seq(Batches) /\ Len(order') = Len(file)
      /\ \A i \in 1 .. Len(file) : order'[i] = file[i].id
    BY <1>1, <1>3
<1>5. DOMAIN records' = BatchesOf(file) /\ records' = [b \in DOMAIN records' |-> records'[b]]
    BY <1>1 DEF BatchesOf
<1>6. ASSUME NEW i \in 1 .. Len(file)
      PROVE  records'[file[i].id] = [count |-> file[i].count, until |-> file[i].until]
    <2> DEFINE r == CHOOSE r \in {file[j] : j \in 1 .. Len(file)} : r.id = file[i].id
    <2>1. r \in {file[j] : j \in 1 .. Len(file)} /\ r.id = file[i].id
        <3>1. \E x \in {file[j] : j \in 1 .. Len(file)} : x.id = file[i].id
            OBVIOUS
        <3> QED
            BY <3>1
    <2>2. records'[file[i].id] = [count |-> r.count, until |-> r.until]
        BY <1>1
    <2> HIDE DEF r
    <2>3. PICK j \in 1 .. Len(file) : r = file[j]
        BY <2>1
    <2>4. j = i
        BY <1>3, <2>1, <2>3 DEF Distinct
    <2> QED
        BY <2>2, <2>3, <2>4
<1>7. MemoryHolds(order', records', pending', file')
    <2>1. /\ DOMAIN records' \subseteq Batches /\ records' \in [DOMAIN records' -> Entries]
          /\ DOMAIN records' = ToSet(order')
          /\ \A i, j \in 1 .. Len(order') : order'[i] = order'[j] => i = j
          /\ Version(order', records') = file
        <3>1. \A i \in 1 .. Len(file) :
                 /\ order'[i] = file[i].id
                 /\ records'[file[i].id] = [count |-> file[i].count, until |-> file[i].until]
            BY <1>4, <1>6
        <3> QED
            BY <1>3, <1>4, <1>5, <3>1, MemoryIs
    <2> QED
        BY <1>1, <1>4, <1>5, <2>1 DEF MemoryHolds
<1>8. \A b \in BatchesOf(file) : b < next'
    BY <1>1 DEF StoreInv, FreshOK, DiskOK
<1>9. \A b \in acked' : b < next'
    BY <1>1 DEF StoreInv, FreshOK
<1>10. /\ order' \in Seq(Batches)
       /\ DOMAIN records' \subseteq Batches /\ records' \in [DOMAIN records' -> Entries]
       /\ pending' \in 0 .. Limit /\ op' \in Operations /\ up' \in BOOLEAN
       /\ MemoryOK' /\ OperationOK'
       /\ \A b \in DOMAIN records' \union acked' : b < next'
    BY <1>1, <1>2, <1>7, <1>8, <1>9, AtRest DEF StoreInv
<1> QED
    BY <1>1, <1>10 DEF StoreInv, StoreTypeOK, FreshOK, DiskOK, PutSurvives, AcknowledgedStaysGone

LEMMA InitInv == ASSUME StoreInit PROVE StoreInv
<1>1. /\ up = TRUE /\ order = <<>> /\ records = <<>> /\ pending = 0 /\ op = NoOp
      /\ file = <<>> /\ exposed = {<<>>} /\ next = 1 /\ promised = {} /\ acked = {}
    BY DEF StoreInit
<1>2. dirs \in [Levels -> {"absent", "volatile", "durable"}]
    BY DEF StoreInit
<1>3. DOMAIN records = {} /\ Len(order) = 0 /\ order \in Seq(Batches) /\ ToSet(order) = {}
    BY <1>1 DEF ToSet
<1>4. Content = <<>>
    <2>1. 1 .. Len(order) = {}
        BY <1>3
    <2>2. Content = [i \in {} |-> 0]
        BY <2>1 DEF Content
    <2> QED
        BY <2>2
<1>5. BatchesOf(<<>>) = {} /\ IsLog(<<>>)
    <2>1. IsLog(<<>>)
        BY TotalEmpty, StoreAssumption DEF IsLog, Loads, Distinct
    <2> QED
        BY <2>1 DEF BatchesOf
<1>6. StoreTypeOK
    <2>1. records \in [DOMAIN records -> Entries] /\ DOMAIN records \subseteq Batches
        BY <1>1, <1>3
    <2>2. pending \in 0 .. Limit /\ next \in 1 .. MaxBatches + 1
        BY <1>1, StoreAssumption
    <2> QED
        BY <1>1, <1>2, <1>3, <1>5, <2>1, <2>2, NoOpFacts DEF StoreTypeOK
<1>7. MemoryOK
    BY <1>1, <1>3, <1>4, TotalEmpty DEF MemoryOK
<1>8. FreshOK
    BY <1>1, <1>3, <1>5 DEF FreshOK
<1>9. OperationOK /\ DiskOK
    BY <1>1, <1>4, NoOpFacts DEF OperationOK, DiskOK
<1>10. PutSurvives /\ AcknowledgedStaysGone
    BY <1>1 DEF PutSurvives, AcknowledgedStaysGone
<1> QED
    BY <1>6, <1>7, <1>8, <1>9, <1>10 DEF StoreInv

LEMMA StutterInv == ASSUME StoreInv, UNCHANGED storeVars PROVE StoreInv'
<1>1. UNCHANGED <<up, order, records, pending, op, file, exposed, dirs, next, promised, acked>>
    BY DEF storeVars, memory, disk, history
<1>2. Content' = Content
    BY <1>1 DEF Content
<1>3. AheadOfFile' = AheadOfFile
    BY <1>1, <1>2 DEF AheadOfFile
<1>4. MemoryOK' /\ OperationOK'
    BY <1>1, <1>2, <1>3 DEF StoreInv, MemoryOK, OperationOK
<1> QED
    BY <1>1, <1>4 DEF StoreInv, StoreTypeOK, FreshOK, DiskOK, PutSurvives, AcknowledgedStaysGone

LEMMA StepInv == ASSUME StoreInv, [StoreNext]_storeVars PROVE StoreInv'
<1>1. CASE PutOverLimit
    BY <1>1, PutOverLimitInv
<1>2. CASE Put
    BY <1>2, PutInv
<1>3. CASE Acknowledge
    BY <1>3, AcknowledgeInv
<1>4. CASE Pause
    BY <1>4, PauseInv
<1>5. CASE WriteLocked
    BY <1>5, WriteInv
<1>6. CASE Crash
    BY <1>6, CrashInv
<1>7. CASE PowerLoss
    BY <1>7, PowerLossInv
<1>8. CASE Restart
    BY <1>8, RestartInv
<1>9. CASE UNCHANGED storeVars
    BY <1>9, StutterInv
<1> QED
    BY <1>1, <1>2, <1>3, <1>4, <1>5, <1>6, <1>7, <1>8, <1>9 DEF StoreNext, Operation

---------------------------------------------------------------------------
(* The theorems *)

\* The inductive invariant holds in every reachable state (persistence.go:99-279).
THEOREM StoreInvariance == StoreSpec => []StoreInv
<1> QED
    BY InitInv, StepInv, PTL DEF StoreSpec

\* Every variable keeps its type, and neither the file nor anything a power loss
\* may leave of it is refused at a restart (persistence.go:81-95, 117-137).
THEOREM StoreTypeCorrect == StoreSpec => []StoreTypeOK
<1>1. StoreInv => StoreTypeOK
    BY DEF StoreInv
<1> QED
    BY <1>1, StoreInvariance, PTL

\* Between two operations memory and file agree, whichever operations failed and
\* wherever they did (persistence.go:138-143, 166-176, 193-196).
THEOREM MemoryCorrect == StoreSpec => []MemoryMatchesFile
<1>1. StoreInv => MemoryMatchesFile
    <2> SUFFICES ASSUME StoreInv, Idle
                 PROVE  DOMAIN records = ToSet(order) /\ Content = file /\ pending = Total(file)
        BY DEF MemoryMatchesFile
    <2>1. Content = file
        BY NoOpFacts DEF StoreInv, OperationOK, Idle
    <2> QED
        BY <2>1 DEF StoreInv, MemoryOK
<1> QED
    BY <1>1, StoreInvariance, PTL

\* A batch whose put returned nil stays in all that a power loss may leave of the
\* file, until it is acknowledged or its directory lost (persistence.go:256-272).
THEOREM PutCorrect == StoreSpec => []PutSurvives
<1>1. StoreInv => PutSurvives
    BY DEF StoreInv
<1> QED
    BY <1>1, StoreInvariance, PTL

\* A batch whose acknowledge returned nil is in nothing that a power loss may
\* leave of the file (persistence.go:147-178, 222-235).
THEOREM GoneCorrect == StoreSpec => []AcknowledgedStaysGone
<1>1. StoreInv => AcknowledgedStaysGone
    BY DEF StoreInv
<1> QED
    BY <1>1, StoreInvariance, PTL

---------------------------------------------------------------------------
(* The store implements the durable log *)

Volatile == \E i \in Levels : dirs[i] = "volatile"
Versions == exposed \union (IF Losable THEN {<<>>} ELSE {})

\* The empty version is there anyhow when there is no file.
LEMMA VersionsAre ==
    ASSUME DiskOK
    PROVE  Versions = exposed \union (IF Volatile THEN {<<>>} ELSE {})
BY DEF Versions, Losable, Volatile, DiskOK

\* Steps that leave the disk alone, or only make directories for a file that does
\* not exist.
LEMMA Stutters ==
    ASSUME DiskOK, UNCHANGED <<file, exposed>>, dirs' = dirs \/ file = <<>>
    PROVE  UNCHANGED <<file, Versions>>
<1>1. file \in exposed
    BY DEF DiskOK
<1>2. CASE dirs' = dirs
    <2>1. Losable' = Losable
        BY <1>2 DEF Losable
    <2> QED
        BY <2>1 DEF Versions
<1>3. CASE file = <<>>
    <2>1. Losable /\ Losable'
        BY <1>3 DEF Losable
    <2> QED
        BY <2>1 DEF Versions
<1> QED
    BY <1>2, <1>3

\* The commit point changes one record.
LEMMA CommitMutates ==
    ASSUME StoreInv, op.step \in {"write", "parents"}, Commit(Content), DiskOK'
    PROVE  Log!Mutate
<1>1. /\ file' = Content /\ exposed' = exposed \union {Content} /\ dirs' = dirs
    BY DEF Commit
<1>2. StoreTypeOK /\ MemoryOK /\ AheadOfFile /\ DiskOK
    BY DEF StoreInv, OperationOK
<1>3. Versions' = Versions \union {file'}
    <2>1. Versions = exposed \union (IF Volatile THEN {<<>>} ELSE {})
        BY <1>2, VersionsAre
    <2>2. Versions' = exposed' \union (IF Volatile' THEN {<<>>} ELSE {})
        BY VersionsAre DEF DiskOK, Versions, Losable, Volatile
    <2>3. Volatile' = Volatile
        BY <1>1 DEF Volatile
    <2> QED
        BY <1>1, <2>1, <2>2, <2>3
<1>4. Log!Exposed
    BY <1>3 DEF Log!Exposed, Versions
<1> DEFINE r == [id |-> op.batch, count |-> op.old.count, until |-> op.old.until]
<1>5. CASE op.name = "put" /\ op.old.until = 0 /\ Content = Append(file, r)
    <2>1. r \in [id : Batches, count : 1 .. MaxEvents, until : {0}]
        <3>1. file \in Seq(Records) /\ Len(file) \in Nat
            BY <1>2, FileFacts
        <3>2. Content \in Seq(Records) /\ Len(Content) = Len(file) + 1
              /\ Content[Len(file) + 1] = r
            BY <1>2, <1>5, <3>1, ContentFacts DEF MemoryOK
        <3>3. r \in Records
            BY <3>1, <3>2
        <3> QED
            BY <1>5, <3>3 DEF Records
    <2>2. \A i \in 1 .. Len(file) : file[i].id # r.id
        <3>1. DOMAIN Without(op.batch) = BatchesOf(file)
            BY <1>2, <1>5, UndoPut
        <3>2. op.batch \notin BatchesOf(file)
            BY <3>1 DEF Without
        <3> QED
            BY <3>2 DEF BatchesOf
    <2>3. Log!AppendRecord(r)
        BY <1>1, <1>5, <2>2 DEF Log!AppendRecord
    <2> HIDE DEF r
    <2> QED
        BY <1>4, <2>1, <2>3 DEF Log!Mutate
<1>6. CASE op.index \in 1 .. Len(file) /\ op.name = "acknowledge" /\ Content = RemoveAt(file, op.index)
    <2>1. Log!RemoveRecord(op.index)
        BY <1>1, <1>6 DEF Log!RemoveRecord, Log!RemoveAt, RemoveAt
    <2> QED
        BY <1>4, <1>6, <2>1 DEF Log!Mutate
<1>7. CASE op.index \in 1 .. Len(file)
           /\ \E u \in Untils : Content = [file EXCEPT ![op.index].until = u]
    <2>1. PICK u \in Untils : Content = [file EXCEPT ![op.index].until = u]
        BY <1>7
    <2>2. Log!MarkRecord(op.index, u)
        BY <1>1, <2>1 DEF Log!MarkRecord
    <2> QED
        BY <1>4, <1>7, <2>2 DEF Log!Mutate
<1> QED
    BY <1>2, <1>5, <1>6, <1>7 DEF AheadOfFile

\* A sync rules versions out, never the visible one.
LEMMA SyncSyncs ==
    ASSUME DiskOK, file' = file, exposed' \subseteq exposed, file \in exposed',
           \A i \in Levels : dirs'[i] = "volatile" => dirs[i] = "volatile"
    PROVE  Log!Sync
<1>1. Losable' => Losable
    BY DEF Losable
<1>2. Versions' \subseteq Versions /\ file \in Versions'
    BY <1>1 DEF Versions
<1> QED
    BY <1>2 DEF Log!Sync, Versions

LEMMA PowerLossLoses == ASSUME StoreInv, PowerLoss PROVE Log!PowerLoss
<1>1. PICK k \in 0 .. Depth :
         /\ k < Depth => dirs[k + 1] # "durable"
         /\ dirs' = [i \in Levels |-> IF i <= k THEN "durable" ELSE "absent"]
         /\ file' \in (IF k = Depth THEN exposed ELSE {<<>>})
    BY DEF PowerLoss
<1>2. exposed' = {file'}
    BY DEF PowerLoss
<1>3. file' \in Versions
    <2>1. CASE k = Depth
        BY <1>1, <2>1 DEF Versions
    <2>2. CASE k < Depth
        <3>1. k + 1 \in Levels
            BY <2>2, StoreAssumption DEF Levels
        <3>2. dirs[k + 1] = "volatile" \/ dirs[k + 1] = "absent"
            BY <1>1, <2>2, <3>1 DEF StoreInv, StoreTypeOK
        <3>3. Losable
            BY <3>1, <3>2 DEF Losable, StoreInv, DiskOK
        <3>4. file' = <<>>
            BY <1>1, <2>2
        <3> QED
            BY <3>3, <3>4 DEF Versions
    <2> QED
        BY <2>1, <2>2, StoreAssumption
<1>4. Versions' = {file'}
    <2>1. \A i \in Levels : dirs'[i] # "volatile"
        BY <1>1
    <2>2. Losable' => file' = <<>>
        BY <2>1 DEF Losable
    <2> QED
        BY <1>2, <2>2 DEF Versions
<1> QED
    BY <1>3, <1>4 DEF Log!PowerLoss, Log!Synced, Versions

LEMMA WriteRefines ==
    ASSUME StoreInv, StoreInv', WriteLocked
    PROVE  Log!Mutate \/ Log!Sync \/ UNCHANGED <<file, Versions>>
<1>1. StoreTypeOK /\ DiskOK /\ DiskOK'
    BY DEF StoreInv
<1>2. CASE RemoveFile
    <2>1. Content = <<>> /\ op.step = "write" /\ Commit(Content)
        BY <1>2, EmptyContent DEF RemoveFile, At
    <2> QED
        BY <1>1, <2>1, CommitMutates
<1>3. CASE Replace
    <2>1. op.step = "parents" /\ Commit(Content)
        BY <1>3 DEF Replace, At
    <2> QED
        BY <1>1, <2>1, CommitMutates
<1>4. CASE RemoveFails \/ SyncParentFails \/ ReplaceFails
    <2>1. UNCHANGED <<file, exposed, dirs>>
        BY <1>4 DEF RemoveFails, SyncParentFails, ReplaceFails, Abort
    <2> QED
        BY <1>1, <2>1, Stutters
<1>5. CASE MakeDirectories
    <2>1. UNCHANGED <<file, exposed>>
          /\ dirs' = [i \in Levels |-> IF i \in Missing THEN "volatile" ELSE dirs[i]]
        BY <1>5 DEF MakeDirectories
    <2>2. dirs' = dirs \/ file = <<>>
        <3>1. CASE Missing = {}
            BY <1>1, <2>1, <3>1 DEF StoreTypeOK
        <3>2. CASE Missing # {}
            BY <1>1, <3>2 DEF Missing, DiskOK
        <3> QED
            BY <3>1, <3>2
    <2> QED
        BY <1>1, <2>1, <2>2, Stutters
<1>6. CASE MakeDirectoriesFails
    <2>1. UNCHANGED <<file, exposed>> /\ \E k \in Levels : k \in Missing
        BY <1>6 DEF MakeDirectoriesFails, Abort
    <2>2. file = <<>>
        BY <1>1, <2>1 DEF Missing, DiskOK
    <2> QED
        BY <1>1, <2>1, <2>2, Stutters
<1>7. CASE SyncParent
    <2>1. UNCHANGED <<file, exposed>> /\ dirs' = [dirs EXCEPT ![Outermost] = "durable"]
        BY <1>7 DEF SyncParent
    <2>2. \A i \in Levels : dirs'[i] = "volatile" => dirs[i] = "volatile"
        BY <1>1, <2>1 DEF StoreTypeOK
    <2> QED
        BY <1>1, <2>1, <2>2, SyncSyncs DEF DiskOK
<1>8. CASE SyncFile
    <2>1. UNCHANGED <<file, dirs>> /\ exposed' = {file}
        BY <1>8 DEF SyncFile
    <2> QED
        BY <1>1, <2>1, SyncSyncs DEF DiskOK
<1>9. CASE SyncFileFails
    <2>1. UNCHANGED <<file, exposed, dirs>>
        BY <1>9 DEF SyncFileFails, disk
    <2> QED
        BY <1>1, <2>1, Stutters
<1> QED
    BY <1>2, <1>3, <1>4, <1>5, <1>6, <1>7, <1>8, <1>9 DEF WriteLocked

LEMMA StepRefines ==
    ASSUME StoreInv, StoreInv', [StoreNext]_storeVars
    PROVE  [Log!LogNext]_(Log!logVars)
<1>1. DiskOK
    BY DEF StoreInv
<1>2. CASE Operation
    <2>1. UNCHANGED <<file, exposed, dirs>>
        BY <1>2 DEF Operation, PutOverLimit, Put, Acknowledge, Pause, Begin, disk
    <2> QED
        BY <1>1, <2>1, Stutters DEF Log!logVars, Versions
<1>3. CASE WriteLocked
    <2>1. Log!Mutate \/ Log!Sync \/ UNCHANGED <<file, Versions>>
        BY <1>3, WriteRefines
    <2> QED
        BY <2>1 DEF Log!LogNext, Log!logVars, Versions
<1>4. CASE PowerLoss
    BY <1>4, PowerLossLoses DEF Log!LogNext
<1>5. CASE Crash \/ Restart \/ UNCHANGED storeVars
    <2>1. UNCHANGED <<file, exposed, dirs>>
        BY <1>5 DEF Crash, Restart, disk, storeVars
    <2> QED
        BY <1>1, <2>1, Stutters DEF Log!logVars, Versions
<1> QED
    BY <1>2, <1>3, <1>4, <1>5 DEF StoreNext

\* The store implements the durable log: whatever file-system call fails and
\* wherever the process or the power does, each operation takes effect on one
\* record at one instant or not at all, and what a sync has settled stays
\* (persistence.go:99-279).
THEOREM StoreRefines == StoreSpec => RefinesDurableLog
<1>1. StoreInit => Log!LogInit
    BY DEF StoreInit, Log!LogInit, Losable
<1>2. StoreInv /\ StoreInv' /\ [StoreNext]_storeVars => [Log!LogNext]_(Log!logVars)
    BY StepRefines
<1> QED
    BY <1>1, <1>2, StoreInvariance, PTL DEF StoreSpec, RefinesDurableLog, Log!LogSpec
=============================================================================
