--------------------------- MODULE SequenceLemmas ---------------------------
(***************************************************************************)
(* Facts about the operators on sets of numbers and on sequences that the  *)
(* specifications use and the libraries define without theorems: the least *)
(* and the greatest number of a set, putting an element into a list,       *)
(* taking one out of it, turning it round, and the parts of a list.        *)
(***************************************************************************)
EXTENDS Integers, Sequences, SequencesExt, SequenceTheorems,
        WellFoundedInduction, FiniteSetTheorems, TLAPS

(* A set of natural numbers has a least one, which Min finds.              *)
LEMMA MinNat ==
    ASSUME NEW S \in SUBSET Nat, S # {}
    PROVE  Min(S) \in S /\ \A y \in S : Min(S) <= y
<1> DEFINE Below(x) == 0..(x - 1)
           T == {Below(x) : x \in S}
<1>1. \A x \in S : Below(x) \in SUBSET Nat /\ IsFiniteSet(Below(x))
  BY FS_Interval
<1>2. T \subseteq FiniteSubsetsOf(Nat) /\ T # {}
  BY <1>1 DEF FiniteSubsetsOf
<1>3. \E u \in T : \A v \in T : ~(<<v, u>> \in StrictSubsetOrdering(Nat))
  BY <1>2, FS_StrictSubsetOrderingWellFounded, WFMin
<1>4. PICK x \in S : \A y \in S : ~(<<Below(y), Below(x)>> \in StrictSubsetOrdering(Nat))
  BY <1>3
<1>5. ASSUME NEW y \in S, y < x PROVE FALSE
  <2>1. Below(y) \subseteq Below(x) /\ y \in Below(x) /\ y \notin Below(y)
    BY <1>5
  <2>2. <<Below(y), Below(x)>> \in StrictSubsetOrdering(Nat)
    BY <1>1, <2>1 DEF StrictSubsetOrdering
  <2> QED
    BY <1>4, <2>2
<1>6. \A y \in S : x <= y
  BY <1>5
<1> QED
  BY <1>6 DEF Min

(* A bounded set of natural numbers has a greatest one, which Max finds.   *)
LEMMA MaxNat ==
    ASSUME NEW b \in Nat, NEW S \in SUBSET (0..b), S # {}
    PROVE  Max(S) \in S /\ \A y \in S : y <= Max(S)
<1> DEFINE T == {b - x : x \in S}
<1>1. T \in SUBSET Nat /\ T # {}
  <2>1. \A x \in S : b - x \in Nat
    OBVIOUS
  <2> QED
    BY <2>1
<1>2. Min(T) \in T /\ \A y \in T : Min(T) <= y
  BY <1>1, MinNat
<1>3. PICK x \in S : Min(T) = b - x
  BY <1>2
<1>4. \A y \in S : x >= y
  BY <1>2, <1>3
<1> QED
  BY <1>4 DEF Max

(* The set of a list's elements.                                           *)
LEMMA ToSetIs ==
    ASSUME NEW S, NEW s \in Seq(S)
    PROVE  /\ \A x : x \in ToSet(s) <=> \E i \in 1..Len(s) : s[i] = x
           /\ ToSet(s) \subseteq S
<1>1. DOMAIN s = 1..Len(s) /\ \A i \in 1..Len(s) : s[i] \in S
  BY LenProperties, ElementOfSeq
<1> QED
  BY <1>1 DEF ToSet

(* The set of the elements of a list with one element more.                *)
LEMMA ToSetAppend ==
    ASSUME NEW S, NEW s \in Seq(S), NEW x \in S
    PROVE  ToSet(Append(s, x)) = ToSet(s) \cup {x}
<1>1. /\ Len(s) \in Nat /\ Append(s, x) \in Seq(S) /\ Len(Append(s, x)) = Len(s) + 1
      /\ \A i \in 1..Len(s) : Append(s, x)[i] = s[i]
      /\ Append(s, x)[Len(s) + 1] = x
  BY LenProperties, AppendProperties
<1>2. \A y : y \in ToSet(Append(s, x)) <=> \E i \in 1..(Len(s) + 1) : Append(s, x)[i] = y
  <2>1. \A y : y \in ToSet(Append(s, x))
                  <=> \E i \in 1..Len(Append(s, x)) : Append(s, x)[i] = y
    BY <1>1, ToSetIs
  <2> QED
    BY <1>1, <2>1
<1>3. \A y : y \in ToSet(s) <=> \E i \in 1..Len(s) : s[i] = y
  BY ToSetIs
<1>4. ASSUME NEW y PROVE y \in ToSet(Append(s, x)) <=> y \in ToSet(s) \/ y = x
  <2>1. CASE y = x
    BY <1>1, <1>2, <2>1
  <2>2. CASE y # x
    BY <1>1, <1>2, <1>3, <2>2
  <2> QED
    BY <2>1, <2>2
<1> QED
  BY <1>4

(* A list with an element put in at a place.                               *)
LEMMA InsertAtIs ==
    ASSUME NEW S, NEW s \in Seq(S), NEW i \in 1..(Len(s) + 1), NEW x \in S
    PROVE  /\ InsertAt(s, i, x) \in Seq(S)
           /\ Len(InsertAt(s, i, x)) = Len(s) + 1
           /\ \A j \in 1..(Len(s) + 1) :
                 InsertAt(s, i, x)[j] = IF j < i THEN s[j]
                                        ELSE IF j = i THEN x ELSE s[j - 1]
<1> DEFINE a == SubSeq(s, 1, i - 1)
           b == SubSeq(s, i, Len(s))
<1>0. Len(s) \in Nat /\ \A j \in 1..Len(s) : s[j] \in S
  BY LenProperties, ElementOfSeq
<1>1. a \in Seq(S) /\ Len(a) = i - 1 /\ \A j \in 1..(i - 1) : a[j] = s[j]
  BY <1>0, SubSeqProperties
<1>2. /\ b \in Seq(S) /\ Len(b) = Len(s) - i + 1
      /\ \A j \in 1..(Len(s) - i + 1) : b[j] = s[i + j - 1]
  BY <1>0, SubSeqProperties
<1>3. <<x>> \in Seq(S) /\ Len(<<x>>) = 1 /\ <<x>>[1] = x
  OBVIOUS
<1> HIDE DEF a, b
<1> DEFINE p == a \o <<x>>
<1>4. /\ p \in Seq(S) /\ Len(p) = i
      /\ \A j \in 1..i : p[j] = IF j <= i - 1 THEN a[j] ELSE <<x>>[j - (i - 1)]
  BY <1>1, <1>3, ConcatProperties
<1> HIDE DEF p
<1> DEFINE q == p \o b
<1>q. /\ q \in Seq(S) /\ Len(q) = Len(p) + Len(b)
      /\ \A j \in 1..(Len(p) + Len(b)) : q[j] = IF j <= Len(p) THEN p[j] ELSE b[j - Len(p)]
  BY <1>2, <1>4, ConcatProperties
<1> HIDE DEF q
<1>5. /\ q \in Seq(S) /\ Len(q) = Len(s) + 1
      /\ \A j \in 1..(Len(s) + 1) : q[j] = IF j <= i THEN p[j] ELSE b[j - i]
  <2>1. Len(p) + Len(b) = Len(s) + 1
    BY <1>0, <1>2, <1>4
  <2> QED
    BY <1>4, <1>q, <2>1
<1>6. ASSUME NEW j \in 1..(Len(s) + 1)
      PROVE  q[j] = IF j < i THEN s[j] ELSE IF j = i THEN x ELSE s[j - 1]
  <2>1. CASE j < i
    BY <1>1, <1>4, <1>5, <2>1
  <2>2. CASE j = i
    BY <1>3, <1>4, <1>5, <2>2
  <2>3. CASE j > i
    <3>1. j - i \in 1..(Len(s) - i + 1) /\ i + (j - i) - 1 = j - 1
      BY <1>0, <2>3
    <3>2. b[j - i] = s[i + (j - i) - 1]
      BY <1>2, <3>1
    <3>3. q[j] = b[j - i]
      BY <1>5, <2>3
    <3> QED
      BY <2>3, <3>1, <3>2, <3>3
  <2> QED
    BY <2>1, <2>2, <2>3, <1>0
<1> QED
  BY <1>5, <1>6 DEF InsertAt, a, b, p, q

(* A list with the element of a place taken out.                           *)
LEMMA RemoveAtIs ==
    ASSUME NEW S, NEW s \in Seq(S), NEW i \in 1..Len(s)
    PROVE  /\ RemoveAt(s, i) \in Seq(S)
           /\ Len(RemoveAt(s, i)) = Len(s) - 1
           /\ \A j \in 1..(Len(s) - 1) :
                 RemoveAt(s, i)[j] = IF j < i THEN s[j] ELSE s[j + 1]
<1> DEFINE a == SubSeq(s, 1, i - 1)
           b == SubSeq(s, i + 1, Len(s))
<1>0. Len(s) \in Nat /\ \A j \in 1..Len(s) : s[j] \in S
  BY LenProperties, ElementOfSeq
<1>1. a \in Seq(S) /\ Len(a) = i - 1 /\ \A j \in 1..(i - 1) : a[j] = s[j]
  BY <1>0, SubSeqProperties
<1>2. /\ b \in Seq(S) /\ Len(b) = Len(s) - i
      /\ \A j \in 1..(Len(s) - i) : b[j] = s[i + j]
  BY <1>0, SubSeqProperties
<1> HIDE DEF a, b
<1> DEFINE q == a \o b
<1>q. /\ q \in Seq(S) /\ Len(q) = Len(a) + Len(b)
      /\ \A j \in 1..(Len(a) + Len(b)) : q[j] = IF j <= Len(a) THEN a[j] ELSE b[j - Len(a)]
  BY <1>1, <1>2, ConcatProperties
<1> HIDE DEF q
<1>3. /\ q \in Seq(S) /\ Len(q) = Len(s) - 1
      /\ \A j \in 1..(Len(s) - 1) : q[j] = IF j <= i - 1 THEN a[j] ELSE b[j - (i - 1)]
  <2>1. Len(a) + Len(b) = Len(s) - 1
    BY <1>0, <1>1, <1>2
  <2> QED
    BY <1>1, <1>q, <2>1
<1>4. ASSUME NEW j \in 1..(Len(s) - 1)
      PROVE  q[j] = IF j < i THEN s[j] ELSE s[j + 1]
  <2>1. CASE j < i
    BY <1>1, <1>3, <2>1
  <2>2. CASE j >= i
    <3>1. j - (i - 1) \in 1..(Len(s) - i) /\ i + (j - (i - 1)) = j + 1
      BY <1>0, <2>2
    <3> QED
      BY <1>2, <1>3, <2>2, <3>1
  <2> QED
    BY <2>1, <2>2, <1>0
<1> QED
  BY <1>3, <1>4 DEF RemoveAt, a, b, q

(* A list without repetition, with an element taken out, keeps the others, *)
(* once each.                                                              *)
LEMMA RemoveAtOnce ==
    ASSUME NEW S, NEW s \in Seq(S), NEW i \in 1..Len(s),
           \A j, k \in 1..Len(s) : s[j] = s[k] => j = k
    PROVE  /\ ToSet(RemoveAt(s, i)) = ToSet(s) \ {s[i]}
           /\ \A j, k \in 1..Len(RemoveAt(s, i)) :
                 RemoveAt(s, i)[j] = RemoveAt(s, i)[k] => j = k
<1> DEFINE r == RemoveAt(s, i)
<1>1. /\ Len(s) \in Nat /\ r \in Seq(S) /\ Len(r) = Len(s) - 1
      /\ \A j \in 1..(Len(s) - 1) : r[j] = IF j < i THEN s[j] ELSE s[j + 1]
  BY LenProperties, RemoveAtIs
<1> HIDE DEF r
<1>2. ASSUME NEW x, x \in ToSet(r) PROVE x \in ToSet(s) /\ x # s[i]
  <2>1. PICK j \in 1..(Len(s) - 1) : r[j] = x
    BY <1>1, <1>2, ToSetIs
  <2>2. CASE j < i
    BY <1>1, <2>1, <2>2, ToSetIs
  <2>3. CASE j >= i
    <3>1. j + 1 \in 1..Len(s) /\ j + 1 # i /\ s[j + 1] = x
      BY <1>1, <2>1, <2>3
    <3> QED
      BY <3>1, ToSetIs
  <2> QED
    BY <2>2, <2>3
<1>3. ASSUME NEW x, x \in ToSet(s), x # s[i] PROVE x \in ToSet(r)
  <2>1. PICK j \in 1..Len(s) : s[j] = x
    BY <1>3, ToSetIs
  <2>2. CASE j < i
    <3>1. j \in 1..Len(r) /\ r[j] = x
      BY SMTT(30), <1>1, <2>1, <2>2
    <3> QED
      BY <1>1, <3>1, ToSetIs
  <2>3. CASE j > i
    <3>1. j - 1 \in 1..Len(r) /\ r[j - 1] = s[(j - 1) + 1] /\ (j - 1) + 1 = j
      BY <1>1, <2>3
    <3> QED
      BY <1>1, <2>1, <3>1, ToSetIs
  <2> QED
    BY <1>3, <2>1, <2>2, <2>3
<1>4. \A j, k \in 1..Len(r) : r[j] = r[k] => j = k
  <2> TAKE j, k \in 1..Len(r)
  <2>1. PICK j1 \in {j, j + 1} : r[j] = s[j1] /\ j1 \in 1..Len(s) /\ (j1 = j <=> j < i)
    <3>1. CASE j < i
      BY <1>1, <3>1
    <3>2. CASE ~(j < i)
      BY <1>1, <3>2
    <3> QED
      BY <3>1, <3>2
  <2>2. PICK k1 \in {k, k + 1} : r[k] = s[k1] /\ k1 \in 1..Len(s) /\ (k1 = k <=> k < i)
    <3>1. CASE k < i
      BY <1>1, <3>1
    <3>2. CASE ~(k < i)
      BY <1>1, <3>2
    <3> QED
      BY <3>1, <3>2
  <2>3. r[j] = r[k] => j1 = k1
    BY <2>1, <2>2
  <2>4. j1 = k1 => j = k
    BY <2>1, <2>2
  <2> QED
    BY <2>3, <2>4
<1> QED
  BY <1>2, <1>3, <1>4 DEF r

(* RemoveFirst gives a list again.                                         *)
LEMMA RemoveFirstIs ==
    ASSUME NEW S, NEW s \in Seq(S), NEW x
    PROVE  RemoveFirst(s, x) \in Seq(S)
<1>1. CASE \E i \in 1..Len(s) : s[i] = x
  <2> DEFINE I == {i \in 1..Len(s) : s[i] = x}
  <2>1. I \in SUBSET Nat /\ I # {}
    BY <1>1, LenProperties
  <2>2. Min(I) \in I
    BY <2>1, MinNat
  <2>3. RemoveFirst(s, x) = RemoveAt(s, Min(I))
    BY <1>1, <2>1 DEF RemoveFirst, SelectInSeq
  <2>4. Min(I) \in 1..Len(s)
    BY <2>2
  <2> HIDE DEF I
  <2> QED
    BY <2>3, <2>4, RemoveAtIs
<1>2. CASE ~\E i \in 1..Len(s) : s[i] = x
  BY <1>2 DEF RemoveFirst
<1> QED
  BY <1>1, <1>2

(* RemoveFirst takes an element out of a list without repetition.          *)
LEMMA RemoveFirstOnce ==
    ASSUME NEW S, NEW s \in Seq(S), NEW x,
           \A j, k \in 1..Len(s) : s[j] = s[k] => j = k
    PROVE  /\ RemoveFirst(s, x) \in Seq(S)
           /\ ToSet(RemoveFirst(s, x)) = ToSet(s) \ {x}
           /\ \A j, k \in 1..Len(RemoveFirst(s, x)) :
                 RemoveFirst(s, x)[j] = RemoveFirst(s, x)[k] => j = k
<1>1. CASE \E i \in 1..Len(s) : s[i] = x
  <2> DEFINE I == {i \in 1..Len(s) : s[i] = x}
  <2>1. I \in SUBSET Nat /\ I # {}
    BY <1>1, LenProperties
  <2>2. Min(I) \in I
    BY <2>1, MinNat
  <2>3. RemoveFirst(s, x) = RemoveAt(s, Min(I))
    BY <1>1, <2>1 DEF RemoveFirst, SelectInSeq
  <2>4. Min(I) \in 1..Len(s) /\ s[Min(I)] = x
    BY <2>2
  <2> HIDE DEF I
  <2>5. /\ RemoveAt(s, Min(I)) \in Seq(S)
        /\ ToSet(RemoveAt(s, Min(I))) = ToSet(s) \ {s[Min(I)]}
        /\ \A j, k \in 1..Len(RemoveAt(s, Min(I))) :
              RemoveAt(s, Min(I))[j] = RemoveAt(s, Min(I))[k] => j = k
    BY <2>4, RemoveAtIs, RemoveAtOnce
  <2> QED
    BY <2>3, <2>4, <2>5
<1>2. CASE ~\E i \in 1..Len(s) : s[i] = x
  <2>1. RemoveFirst(s, x) = s /\ x \notin ToSet(s)
    BY <1>2, ToSetIs DEF RemoveFirst
  <2> QED
    BY <2>1
<1> QED
  BY <1>1, <1>2

(* A list turned round.                                                    *)
LEMMA ReverseIs ==
    ASSUME NEW S, NEW s \in Seq(S)
    PROVE  Reverse(s) \in Seq(S) /\ ToSet(Reverse(s)) = ToSet(s)
<1>1. Len(s) \in Nat /\ \A i \in 1..Len(s) : s[i] \in S /\ (Len(s) - i) + 1 \in 1..Len(s)
  BY LenProperties, ElementOfSeq
<1>2. Reverse(s) \in [1..Len(s) -> S]
  BY <1>1 DEF Reverse
<1>3. Reverse(s) \in Seq(S) /\ Len(Reverse(s)) = Len(s)
  BY <1>1, <1>2
<1>4. ASSUME NEW x, x \in ToSet(Reverse(s)) PROVE x \in ToSet(s)
  <2>1. PICK i \in 1..Len(s) : Reverse(s)[i] = x
    BY <1>3, <1>4, ToSetIs
  <2>2. s[(Len(s) - i) + 1] = x
    BY <2>1 DEF Reverse
  <2> QED
    BY <1>1, <2>2, ToSetIs
<1>5. ASSUME NEW x, x \in ToSet(s) PROVE x \in ToSet(Reverse(s))
  <2>1. PICK i \in 1..Len(s) : s[i] = x
    BY <1>5, ToSetIs
  <2>2. (Len(s) - i) + 1 \in 1..Len(s) /\ (Len(s) - ((Len(s) - i) + 1)) + 1 = i
    BY <1>1
  <2>3. Reverse(s)[(Len(s) - i) + 1] = x
    BY <2>1, <2>2 DEF Reverse
  <2> QED
    BY <1>3, <2>2, <2>3, ToSetIs
<1> QED
  BY <1>3, <1>4, <1>5

(* A list is its first n elements and the rest.                            *)
LEMMA Halves ==
    ASSUME NEW S, NEW b \in Seq(S), NEW n \in 0..Len(b)
    PROVE  /\ SubSeq(b, 1, n) \in Seq(S) /\ SubSeq(b, n + 1, Len(b)) \in Seq(S)
           /\ Len(SubSeq(b, 1, n)) = n /\ Len(SubSeq(b, n + 1, Len(b))) = Len(b) - n
           /\ \A i \in 1..n : SubSeq(b, 1, n)[i] = b[i]
           /\ \A i \in 1..(Len(b) - n) : SubSeq(b, n + 1, Len(b))[i] = b[i + n]
           /\ b = SubSeq(b, 1, n) \o SubSeq(b, n + 1, Len(b))
<1> DEFINE u == SubSeq(b, 1, n)
           v == SubSeq(b, n + 1, Len(b))
<1>1. Len(b) \in Nat /\ \A i \in 1..Len(b) : b[i] \in S
  BY LenProperties, ElementOfSeq
<1>2. u \in Seq(S) /\ Len(u) = n /\ \A i \in 1..n : u[i] = b[i]
  BY <1>1, SubSeqProperties
<1>3. v \in Seq(S) /\ Len(v) = Len(b) - n /\ \A i \in 1..(Len(b) - n) : v[i] = b[i + n]
  <2>1. /\ \A i \in (n + 1)..Len(b) : b[i] \in S
        /\ n + 1 \in Int /\ Len(b) \in Int
    BY <1>1
  <2>2. /\ v \in Seq(S) /\ Len(v) = IF n + 1 <= Len(b) THEN Len(b) - (n + 1) + 1 ELSE 0
        /\ \A i \in 1..(Len(b) - (n + 1) + 1) : v[i] = b[(n + 1) + i - 1]
    BY <2>1, SubSeqProperties
  <2>3. Len(b) - (n + 1) + 1 = Len(b) - n /\ n <= Len(b)
        /\ \A i \in 1..(Len(b) - n) : (n + 1) + i - 1 = i + n
    BY <1>1
  <2> HIDE DEF v
  <2>4. Len(v) = Len(b) - n
    <3>1. CASE n + 1 <= Len(b)
      BY <1>1, <2>2, <2>3, <3>1
    <3>2. CASE n = Len(b)
      BY <1>1, <2>2, <3>2
    <3>3. n \in Nat /\ (n + 1 <= Len(b) \/ n = Len(b))
      BY <1>1
    <3> QED
      BY <3>1, <3>2, <3>3
  <2>5. \A i \in 1..(Len(b) - n) : v[i] = b[i + n]
    BY <2>2, <2>3
  <2> QED
    BY <2>2, <2>4, <2>5
<1> HIDE DEF u, v
<1>4. /\ u \o v \in Seq(S) /\ Len(u \o v) = n + (Len(b) - n)
      /\ \A i \in 1..(n + (Len(b) - n)) : (u \o v)[i] = IF i <= n THEN u[i] ELSE v[i - n]
  <2>1. /\ u \o v \in Seq(S) /\ Len(u \o v) = Len(u) + Len(v)
        /\ \A i \in 1..(Len(u) + Len(v)) : (u \o v)[i] = IF i <= Len(u) THEN u[i] ELSE v[i - Len(u)]
    <3>1. u \in Seq(S) /\ v \in Seq(S)
      BY <1>2, <1>3
    <3> QED
      BY <3>1, ConcatProperties
  <2> QED
    BY <1>2, <1>3, <2>1
<1>5. Len(u \o v) = Len(b) /\ \A i \in 1..Len(b) : (u \o v)[i] = b[i]
  <2>0. n + (Len(b) - n) = Len(b)
    BY <1>1
  <2> SUFFICES ASSUME NEW i \in 1..Len(b) PROVE (u \o v)[i] = b[i]
    BY <1>4, <2>0
  <2>u. (u \o v)[i] = IF i <= n THEN u[i] ELSE v[i - n]
    BY <1>4, <2>0
  <2>1. CASE i <= n
    <3>1. i \in 1..n
      BY <1>1, <2>1
    <3> QED
      BY <1>2, <2>u, <2>1, <3>1
  <2>2. CASE i > n
    <3>1. i - n \in 1..(Len(b) - n) /\ (i - n) + n = i
      BY <1>1, <2>2
    <3> QED
      BY <1>1, <1>3, <2>u, <2>2, <3>1
  <2>3. i <= n \/ i > n
    BY <1>1
  <2> QED
    BY <2>1, <2>2, <2>3
<1>6. b = u \o v
  BY <1>4, <1>5, SeqEqual
<1> QED
  BY <1>2, <1>3, <1>6 DEF u, v

(* The places of one list after another                                    *)
LEMMA ConcatPlaces ==
    ASSUME NEW S, NEW v \in Seq(S), NEW w \in Seq(S)
    PROVE  /\ v \o w \in Seq(S)
           /\ \A i \in 1..Len(v \o w) :
                 \/ i \in 1..Len(v) /\ (v \o w)[i] = v[i]
                 \/ i - Len(v) \in 1..Len(w) /\ (v \o w)[i] = w[i - Len(v)]
           /\ \A i \in 1..Len(v) : i \in 1..Len(v \o w) /\ (v \o w)[i] = v[i]
           /\ \A i \in 1..Len(w) : /\ i + Len(v) \in 1..Len(v \o w)
                                   /\ (v \o w)[i + Len(v)] = w[i]
<1> DEFINE r == v \o w
           m == Len(v)
<1>1. /\ m \in Nat /\ Len(w) \in Nat /\ r \in Seq(S) /\ Len(r) = m + Len(w)
      /\ \A i \in 1..(m + Len(w)) : r[i] = IF i <= m THEN v[i] ELSE w[i - m]
  BY LenProperties, ConcatProperties
<1> HIDE DEF r, m
<1>2. ASSUME NEW i \in 1..Len(r)
      PROVE  \/ i \in 1..m /\ r[i] = v[i]
             \/ i - m \in 1..Len(w) /\ r[i] = w[i - m]
  <2>1. CASE i <= m
    BY <1>1, <2>1
  <2>2. CASE i > m
    BY <1>1, <2>2
  <2> QED
    BY <1>1, <2>1, <2>2
<1>3. \A i \in 1..m : i \in 1..Len(r) /\ r[i] = v[i]
  BY <1>1
<1>4. ASSUME NEW i \in 1..Len(w) PROVE i + m \in 1..Len(r) /\ r[i + m] = w[i]
  <2>1. i + m \in 1..(m + Len(w)) /\ ~(i + m <= m) /\ (i + m) - m = i
    BY <1>1
  <2> QED
    BY <1>1, <2>1
<1> QED
  BY <1>1, <1>2, <1>3, <1>4 DEF r, m

(* The same of the list they make, by its name                             *)
LEMMA Joined ==
    ASSUME NEW S, NEW v \in Seq(S), NEW w \in Seq(S), NEW r, r = v \o w
    PROVE  /\ r \in Seq(S)
           /\ \A i \in 1..Len(r) : \/ i \in 1..Len(v) /\ r[i] = v[i]
                                   \/ i - Len(v) \in 1..Len(w) /\ r[i] = w[i - Len(v)]
           /\ \A i \in 1..Len(v) : i \in 1..Len(r) /\ r[i] = v[i]
           /\ \A i \in 1..Len(w) : i + Len(v) \in 1..Len(r) /\ r[i + Len(v)] = w[i]
  BY ConcatPlaces

(* A set that holds the first of a series, and with each the next, holds   *)
(* all of it.                                                              *)
LEMMA Stays ==
    ASSUME NEW S, NEW n \in Nat, NEW f, f[0] \in S,
           \A j \in 1..n : f[j - 1] \in S => f[j] \in S
    PROVE  \A j \in 0..n : f[j] \in S
<1> DEFINE B == {j \in 0..n : f[j] \notin S}
<1> SUFFICES ASSUME B # {} PROVE FALSE
  OBVIOUS
<1>1. B \in SUBSET Nat
  OBVIOUS
<1>2. Min(B) \in B /\ \A y \in B : Min(B) <= y
  BY <1>1, MinNat
<1> DEFINE k == Min(B)
<1> HIDE DEF k
<1>3. k \in B /\ \A y \in B : k <= y
  BY <1>2 DEF k
<1>4. k # 0 /\ k \in 1..n /\ k - 1 \in 0..n /\ ~(k <= k - 1)
  BY <1>3
<1>5. f[k - 1] \in S
  BY <1>3, <1>4
<1> QED
  BY <1>3, <1>4, <1>5

(* how long two lists are that are put together                            *)
LEMMA Adds ==
    ASSUME NEW S, NEW a \in Seq(S), NEW b \in Seq(S), NEW r, r = a \o b
    PROVE  r \in Seq(S) /\ Len(r) = Len(a) + Len(b) /\ Len(a) \in Nat /\ Len(b) \in Nat
  OBVIOUS

(* an element that is not the last one                                     *)
LEMMA Place ==
    ASSUME NEW S, NEW a \in Seq(S), NEW i \in Nat, i < Len(a)
    PROVE  i + 1 \in 1..Len(a) /\ Len(a) \in 1..Len(a) /\ a[i + 1] \in S
  OBVIOUS

(* a list with one element more                                            *)
LEMMA AppendIs ==
    ASSUME NEW X, NEW L \in Seq(X), NEW q \in X
    PROVE  /\ Append(L, q) \in Seq(X) /\ Len(Append(L, q)) = Len(L) + 1
           /\ Len(L) \in Nat /\ Append(L, q)[Len(L) + 1] = q
           /\ \A m \in DOMAIN L : Append(L, q)[m] = L[m] /\ m \in DOMAIN Append(L, q)
           /\ \A m \in DOMAIN Append(L, q) :
                 \/ m \in DOMAIN L /\ Append(L, q)[m] = L[m]
                 \/ m = Len(L) + 1 /\ Append(L, q)[m] = q
           /\ Len(L) + 1 \in DOMAIN Append(L, q)
           /\ \A m \in DOMAIN L : m \in Nat /\ m < Len(L) + 1
  OBVIOUS

(* an element put behind two lists                                         *)
LEMMA AppendsJoin ==
    ASSUME NEW X, NEW g \in Seq(X), NEW o \in Seq(X), NEW q \in X
    PROVE  g \o Append(o, q) = Append(g \o o, q)
  OBVIOUS

(* two lists, and the same with the first element of the second moved      *)
LEMMA MovedIs ==
    ASSUME NEW X, NEW g \in Seq(X), NEW b \in Seq(X), b # <<>>
    PROVE  /\ Append(g, Head(b)) \o Tail(b) = g \o b
           /\ Head(b) \in X /\ Tail(b) \in Seq(X) /\ Append(g, Head(b)) \in Seq(X)
<1>1. PICK h : h = Head(b)
  OBVIOUS
<1>2. PICK t : t = Tail(b)
  OBVIOUS
<1>3. h \in X /\ t \in Seq(X) /\ <<h>> \in Seq(X) /\ b = <<h>> \o t /\ Append(g, h) = g \o <<h>>
  <2>1. h \in X /\ t \in Seq(X) /\ <<h>> \in Seq(X)
    BY <1>1, <1>2
  <2>2. b = <<h>> \o t
    BY <1>1, <1>2
  <2>3. Append(g, h) = g \o <<h>>
    BY <2>1
  <2> QED
    BY <2>1, <2>2, <2>3
<1>4. (g \o <<h>>) \o t = g \o (<<h>> \o t)
  <2>1. g \in Seq(X) /\ <<h>> \in Seq(X) /\ t \in Seq(X)
    BY <1>3
  <2> QED
    BY ONLY <2>1, ConcatAssociative
<1>5. Append(g, h) \in Seq(X)
  BY <1>3
<1> QED
  BY <1>1, <1>2, <1>3, <1>4, <1>5

(* B is the list A without an element h.                                   *)
LeftOut(X, A, B, h) ==
    /\ A \in Seq(X) /\ B \in Seq(X)
    /\ \E k \in 1..Len(A) :
          /\ A[k] = h /\ Len(A) = Len(B) + 1
          /\ \A m \in 1..Len(B) : B[m] = IF m < k THEN A[m] ELSE A[m + 1]

(* two lists, and the same without the first element of the second         *)
LEMMA LeftOutIs ==
    ASSUME NEW X, NEW g \in Seq(X), NEW b \in Seq(X), b # <<>>,
           NEW A, A = g \o b, NEW B, B = g \o Tail(b)
    PROVE  LeftOut(X, A, B, Head(b))
<1>1. PICK x \in Nat : x = Len(g)
  OBVIOUS
<1>2. PICK y \in Nat : y = Len(b) /\ y # 0
  OBVIOUS
<1>3. PICK t : t = Tail(b)
  OBVIOUS
<1>4. /\ t \in Seq(X) /\ Len(t) = y - 1 /\ b[1] = Head(b) /\ y - 1 \in Nat
      /\ \A m \in 1..(y - 1) : t[m] = b[m + 1]
  BY <1>2, <1>3
<1>5. /\ A \in Seq(X) /\ Len(A) = x + y
      /\ \A m \in 1..x : A[m] = g[m]
      /\ \A m \in 1..y : A[m + x] = b[m]
  <2>1. Len(A) = x + y
    BY <1>1, <1>2
  <2>2. /\ A \in Seq(X)
        /\ \A m \in 1..Len(g) : A[m] = g[m]
        /\ \A m \in 1..Len(b) : A[m + Len(g)] = b[m]
    BY Joined
  <2> QED
    BY ONLY <1>1, <1>2, <2>1, <2>2
<1>6. /\ B \in Seq(X) /\ Len(B) = x + (y - 1)
      /\ \A m \in 1..x : B[m] = g[m]
      /\ \A m \in 1..(y - 1) : B[m + x] = t[m]
  <2>0. B = g \o t /\ g \in Seq(X) /\ t \in Seq(X)
    BY <1>3, <1>4
  <2>1. Len(B) = x + (y - 1)
    <3>1. Len(B) = Len(g) + Len(t)
      BY ONLY <2>0, Adds
    <3> QED
      BY <1>1, <1>4, <3>1
  <2>2. /\ B \in Seq(X)
        /\ \A m \in 1..Len(g) : B[m] = g[m]
        /\ \A m \in 1..Len(t) : B[m + Len(g)] = t[m]
    BY ONLY <2>0, Joined
  <2> QED
    BY ONLY <1>1, <1>4, <2>1, <2>2
<1>7. x + 1 \in 1..Len(A) /\ A[x + 1] = Head(b) /\ Len(A) = Len(B) + 1
  <2>1. 1 \in 1..y /\ 1 + x = x + 1 /\ x + y = (x + (y - 1)) + 1 /\ x + 1 \in 1..(x + y)
    BY ONLY x \in Nat, <1>2
  <2> QED
    BY <1>4, <1>5, <1>6, <2>1
<1>8. ASSUME NEW m \in 1..Len(B) PROVE B[m] = IF m < x + 1 THEN A[m] ELSE A[m + 1]
  <2>0. m \in Nat /\ m >= 1 /\ m <= x + (y - 1)
    BY <1>6
  <2>1. CASE m < x + 1
    <3>1. m \in 1..x
      BY ONLY <2>0, <2>1, x \in Nat
    <3> QED
      BY <1>5, <1>6, <2>1, <3>1
  <2>2. CASE ~(m < x + 1)
    <3>1. PICK j \in 1..(y - 1) : j + x = m
      <4>1. m - x \in 1..(y - 1) /\ (m - x) + x = m
        BY ONLY <2>0, <2>2, <1>2, x \in Nat
      <4> QED
        BY <4>1
    <3>2. j + 1 \in 1..y /\ (j + 1) + x = m + 1
      BY ONLY <3>1, <1>2, x \in Nat
    <3>3. B[m] = t[j] /\ t[j] = b[j + 1] /\ A[m + 1] = b[j + 1]
      BY <1>4, <1>5, <1>6, <3>1, <3>2
    <3> QED
      BY <2>2, <3>3
  <2> QED
    BY <2>1, <2>2
<1> QED
  BY <1>5, <1>6, <1>7, <1>8 DEF LeftOut

(* f holds the n states that the step g makes of x                         *)
Series(f, S, x, g, n) ==
    f \in [0..n -> S] /\ f[0] = x /\ \A j \in 1..n : f[j] = g[f[j - 1]]

(* The same of steps that differ: step j is g[j].                          *)
Course(f, S, x, g, n) ==
    f \in [0..n -> S] /\ f[0] = x /\ \A j \in 1..n : f[j] = g[j][f[j - 1]]

(* Whatever the steps make of a state, they can be made one after the      *)
(* other,                                                                  *)
LEMMA Unfolds ==
    ASSUME NEW S, NEW x \in S, NEW n \in Nat, NEW g \in [1..n -> [S -> S]]
    PROVE  \E f : Course(f, S, x, g, n)
<1> DEFINE P(m) == \E f \in [0..m -> S] : f[0] = x /\ \A j \in 1..m : f[j] = g[j][f[j - 1]]
           B == {m \in 0..n : ~P(m)}
<1>1. ASSUME B # {} PROVE FALSE
  <2>1. B \in SUBSET Nat
    OBVIOUS
  <2>2. PICK k \in B : \A y \in B : k <= y
    BY <1>1, <2>1, MinNat
  <2>3. P(0)
    <3> DEFINE f == [j \in 0..0 |-> x]
    <3>1. f \in [0..0 -> S] /\ f[0] = x /\ \A j \in 1..0 : f[j] = g[j][f[j - 1]]
      OBVIOUS
    <3> QED
      BY <3>1
  <2>4. k # 0
    BY <2>2, <2>3
  <2>5. k \in 1..n /\ k - 1 \in 0..n /\ ~(k <= k - 1)
    BY <2>2, <2>4
  <2>6. P(k - 1)
    BY <2>2, <2>5
  <2>7. PICK h \in [0..(k - 1) -> S] : h[0] = x /\ \A j \in 1..(k - 1) : h[j] = g[j][h[j - 1]]
    BY <2>6
  <2> DEFINE f == [j \in 0..k |-> IF j = k THEN g[k][h[k - 1]] ELSE h[j]]
  <2>8. f \in [0..k -> S] /\ f[0] = x
    <3>1. k - 1 \in 0..(k - 1) /\ \A j \in 0..k : j # k => j \in 0..(k - 1)
      BY <2>5
    <3>2. h[k - 1] \in S /\ g[k] \in [S -> S]
      BY <2>5, <2>7, <3>1
    <3>3. g[k][h[k - 1]] \in S
      BY <3>2
    <3> QED
      BY <2>4, <2>5, <2>7, <3>1, <3>3
  <2>9. ASSUME NEW j \in 1..k PROVE f[j] = g[j][f[j - 1]]
    <3>1. f[j - 1] = h[j - 1] /\ (j # k => f[j] = h[j] /\ j \in 1..(k - 1))
      BY <2>5
    <3>2. CASE j = k
      BY <2>5, <3>1, <3>2
    <3>3. CASE j # k
      BY <2>5, <2>7, <3>1, <3>3
    <3> QED
      BY <3>2, <3>3
  <2>10. P(k)
    BY <2>8, <2>9
  <2> QED
    BY <2>2, <2>10
<1>2. P(n)
  <2>1. n \in 0..n /\ n \notin B
    <3>1. B = {}
      BY <1>1
    <3>2. n \in 0..n
      OBVIOUS
    <3> HIDE DEF B
    <3> QED
      BY ONLY <3>1, <3>2
  <2> QED
    BY ONLY <2>1
<1> QED
  BY <1>2 DEF Course

(* and so can one step, again and again.                                   *)
LEMMA Repeats ==
    ASSUME NEW S, NEW x \in S, NEW g \in [S -> S], NEW n \in Nat
    PROVE  \E f : Series(f, S, x, g, n)
<1> DEFINE h == [j \in 1..n |-> g]
<1>1. h \in [1..n -> [S -> S]]
  OBVIOUS
<1>2. \A f : Course(f, S, x, h, n) => Series(f, S, x, g, n)
  BY DEF Course, Series
<1> HIDE DEF h
<1> QED
  BY <1>1, <1>2, Unfolds
=============================================================================
