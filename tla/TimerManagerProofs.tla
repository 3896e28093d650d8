------------------------- MODULE TimerManagerProofs -------------------------
(***************************************************************************)
(* Proofs about module TimerManager, for any number of timers, any         *)
(* intervals and any widths of the integers: the list of timers is sorted  *)
(* and holds no timer twice, a timer runs exactly when the manager knows   *)
(* it, no deleted timer is known, and no handler is called early.          *)
(***************************************************************************)
EXTENDS TimerManager, SequenceLemmas

Item == [timer : Timers, left : Ticks]

-----------------------------------------------------------------------------
(* The list of items.                                                      *)

Sorted(list)   == \A i, j \in 1..Len(list) : i < j => list[i].left <= list[j].left
Distinct(list) == \A i, j \in 1..Len(list) : list[i].timer = list[j].timer => i = j
Has(list, t)   == \E i \in 1..Len(list) : list[i].timer = t

(* Every item ends at the deadline d of its timer.                         *)
DueAt(list, d) == \A i \in 1..Len(list) : list[i].left = d[list[i].timer]

(* A period counted in ticks is a number of ticks.                         *)
LEMMA TicksTyped ==
    /\ Ticks \subseteq Nat /\ 0 \in Ticks
    /\ \A m \in Intervals \cup {0} : m * TicksPerMs \in Ticks
    /\ \A n \in Ticks : Less(n) \in Ticks
<1> DEFINE M == Max(Intervals \cup {0})
<1>1. Modulus - 1 \in Nat /\ Intervals \cup {0} \in SUBSET (0..(Modulus - 1))
  BY WidthAssumption
<1>2. M \in Intervals \cup {0} /\ \A m \in Intervals \cup {0} : m <= M
  BY <1>1, MaxNat
<1> HIDE DEF M
<1>3. M \in Nat /\ TicksPerMs \in Nat
  BY <1>1, <1>2, WidthAssumption
<1>4. \A m \in Intervals \cup {0} : m \in Nat /\ m <= M
  BY <1>1, <1>2
<1>5. \A m, n, k \in Nat : m <= n => m * k \in Nat /\ m * k <= n * k
  OBVIOUS
<1>6. M * TicksPerMs \in Nat
  BY <1>3
<1>7. \A m \in Intervals \cup {0} : m * TicksPerMs \in 0..(M * TicksPerMs)
  BY <1>3, <1>4, <1>5
<1>8. \A n \in 0..(M * TicksPerMs) : Less(n) \in 0..(M * TicksPerMs)
  BY <1>6 DEF Less
<1>9. Ticks = 0..(M * TicksPerMs)
  BY DEF Ticks, M
<1> QED
  BY <1>6, <1>7, <1>8, <1>9

(* What is in a list of items.                                             *)
LEMMA ItemsTyped ==
    ASSUME NEW list \in Seq(Item)
    PROVE  /\ Len(list) \in Nat /\ DOMAIN list = 1..Len(list)
           /\ \A i \in 1..Len(list) : /\ list[i] \in Item /\ list[i].timer \in Timers
                                      /\ list[i].left \in Ticks /\ list[i].left \in Nat
<1>1. \A x \in Item : x.timer \in Timers /\ x.left \in Ticks /\ x.left \in Nat
  BY TicksTyped DEF Item
<1> QED
  BY <1>1, LenProperties, ElementOfSeq

(* TimerManager::start keeps the list sorted, whatever it holds, and adds  *)
(* the item to it.                                                         *)
LEMMA InsertKeeps ==
    ASSUME NEW list \in Seq(Item), NEW x \in Item, Sorted(list)
    PROVE  /\ Insert(list, x) \in Seq(Item)
           /\ Sorted(Insert(list, x))
           /\ \A t : Has(Insert(list, x), t) <=> Has(list, t) \/ t = x.timer
           /\ Distinct(list) /\ ~Has(list, x.timer) => Distinct(Insert(list, x))
           /\ \A d : DueAt(list, d) /\ x.left = d[x.timer] => DueAt(Insert(list, x), d)
<1> DEFINE later == {i \in DOMAIN list : list[i].left > x.left}
           p == IF later = {} THEN Len(list) + 1 ELSE Min(later)
           s == Insert(list, x)
           n == Len(list)
<1>0. /\ n \in Nat /\ DOMAIN list = 1..n
      /\ \A i \in 1..n : list[i] \in Item /\ list[i].left \in Nat
      /\ x.left \in Nat
  BY ItemsTyped, TicksTyped DEF Item
<1>1. /\ p \in 1..(n + 1)
      /\ \A i \in 1..n : i < p => list[i].left <= x.left
      /\ \A i \in 1..n : i >= p => x.left < list[i].left
  <2>1. CASE later = {}
    <3>1. \A i \in 1..n : list[i].left <= x.left
      BY <1>0, <2>1
    <3> QED
      BY <1>0, <2>1, <3>1
  <2>2. CASE later # {}
    <3>1. later \in SUBSET Nat
      BY <1>0
    <3>2. p \in later /\ \A i \in later : p <= i
      BY <2>2, <3>1, MinNat
    <3> HIDE DEF p
    <3>3. p \in 1..n /\ x.left < list[p].left
      BY <1>0, <3>2
    <3>4. ASSUME NEW i \in 1..n, i < p PROVE list[i].left <= x.left
      <4>1. i \notin later
        BY <3>2, <3>3, <3>4
      <4>2. ~(list[i].left > x.left)
        BY <1>0, <4>1
      <4> QED
        BY <1>0, <4>2
    <3>5. ASSUME NEW i \in 1..n, i >= p PROVE x.left < list[i].left
      <4>1. i = p \/ list[p].left <= list[i].left
        BY <3>3, <3>5 DEF Sorted
      <4> QED
        BY <1>0, <3>3, <4>1
    <3> QED
      BY <1>0, <3>3, <3>4, <3>5
  <2> QED
    BY <2>1, <2>2
<1>2. s = InsertAt(list, p, x)
  BY DEF Insert
<1> HIDE DEF p, later, s
<1>3. /\ s \in Seq(Item) /\ Len(s) = n + 1
      /\ \A j \in 1..(n + 1) : s[j] = IF j < p THEN list[j]
                                      ELSE IF j = p THEN x ELSE list[j - 1]
  BY SMTT(30), <1>1, <1>2, InsertAtIs
<1>4. /\ s[p] = x
      /\ \A j \in 1..(n + 1) : j < p => j \in 1..n /\ s[j] = list[j]
      /\ \A j \in 1..(n + 1) : j > p => j - 1 \in 1..n /\ s[j] = list[j - 1]
  BY <1>0, <1>1, <1>3
<1>5. Sorted(s)
  <2> SUFFICES ASSUME NEW i \in 1..(n + 1), NEW j \in 1..(n + 1), i < j
               PROVE  s[i].left <= s[j].left
    BY <1>3 DEF Sorted
  <2>1. CASE j < p
    BY <1>0, <1>1, <1>4, <2>1 DEF Sorted
  <2>2. CASE j = p
    BY <1>0, <1>1, <1>4, <2>2
  <2>3. CASE i < p /\ j > p
    <3>1. /\ s[i] = list[i] /\ s[j] = list[j - 1] /\ i \in 1..n /\ j - 1 \in 1..n
          /\ j - 1 >= p
      BY <1>0, <1>1, <1>4, <2>3
    <3>2. list[i].left <= x.left /\ x.left < list[j - 1].left
      BY <1>1, <2>3, <3>1
    <3> QED
      BY <1>0, <3>1, <3>2
  <2>4. CASE i = p
    <3>1. s[j] = list[j - 1] /\ j - 1 \in 1..n /\ j - 1 >= p
      BY <1>0, <1>1, <1>4, <2>4
    <3> QED
      BY <1>0, <1>1, <1>4, <2>4, <3>1
  <2>5. CASE i > p
    <3>1. /\ s[i] = list[i - 1] /\ s[j] = list[j - 1] /\ i - 1 \in 1..n /\ j - 1 \in 1..n
          /\ i - 1 < j - 1
      BY <1>0, <1>1, <1>4, <2>5
    <3> QED
      BY <3>1 DEF Sorted
  <2> QED
    BY <1>0, <1>1, <2>1, <2>2, <2>3, <2>4, <2>5
<1> DEFINE At(j) == IF j < p THEN j ELSE j - 1   \* where s[j] was
<1>6. ASSUME NEW j \in 1..(n + 1), j # p
      PROVE  /\ At(j) \in 1..n /\ s[j] = list[At(j)]
             /\ (j < p => At(j) = j) /\ (j > p => At(j) = j - 1)
  <2>1. CASE j < p
    BY <1>0, <1>1, <1>4, <2>1
  <2>2. CASE j > p
    BY <1>0, <1>1, <1>4, <2>2
  <2> QED
    BY <1>0, <1>1, <1>6, <2>1, <2>2
<1> HIDE DEF At
<1>7. ASSUME NEW t PROVE Has(s, t) <=> Has(list, t) \/ t = x.timer
  <2>1. ASSUME Has(s, t), t # x.timer PROVE Has(list, t)
    BY <1>3, <1>4, <1>6, <2>1 DEF Has
  <2>2. ASSUME Has(list, t) PROVE Has(s, t)
    <3>1. PICK i \in 1..n : list[i].timer = t
      BY <2>2 DEF Has
    <3>2. CASE i < p
      <4>1. i \in 1..(n + 1) /\ s[i] = list[i]
        BY <1>0, <1>4, <3>2
      <4> QED
        BY <1>3, <3>1, <4>1 DEF Has
    <3>3. CASE i >= p
      <4>1. i + 1 \in 1..(n + 1) /\ s[i + 1] = list[(i + 1) - 1] /\ (i + 1) - 1 = i
        BY <1>0, <1>1, <1>4, <3>3
      <4> QED
        BY <1>3, <3>1, <4>1 DEF Has
    <3> QED
      BY <1>0, <1>1, <3>2, <3>3
  <2>3. Has(s, x.timer)
    BY <1>1, <1>3, <1>4 DEF Has
  <2> QED
    BY <2>1, <2>2, <2>3
<1>8. ASSUME Distinct(list), ~Has(list, x.timer) PROVE Distinct(s)
  <2> SUFFICES ASSUME NEW i \in 1..(n + 1), NEW j \in 1..(n + 1), s[i].timer = s[j].timer
               PROVE  i = j
    BY <1>3 DEF Distinct
  <2>1. CASE i = p \/ j = p
    BY <1>4, <1>6, <1>8, <2>1 DEF Has
  <2>2. CASE i # p /\ j # p
    <3>1. At(i) = At(j)
      BY <1>6, <1>8, <2>2 DEF Distinct
    <3> QED
      BY <1>0, <1>1, <1>6, <2>2, <3>1
  <2> QED
    BY <2>1, <2>2
<1>9. ASSUME NEW d, DueAt(list, d), x.left = d[x.timer] PROVE DueAt(s, d)
  BY SMTT(30), <1>3, <1>4, <1>6, <1>9 DEF DueAt
<1> QED
  BY <1>3, <1>5, <1>7, <1>8, <1>9 DEF s

(* The list that is left when an item is taken out.                        *)
Without(list, t) == RemoveFirstMatch(list, LAMBDA item : item.timer = t)

LEMMA WithoutIs ==
    ASSUME NEW list \in Seq(Item), NEW t, Sorted(list), Distinct(list)
    PROVE  /\ Without(list, t) \in Seq(Item)
           /\ Sorted(Without(list, t)) /\ Distinct(Without(list, t))
           /\ \A u : Has(Without(list, t), u) <=> Has(list, u) /\ u # t
           /\ \A d : DueAt(list, d) => DueAt(Without(list, t), d)
<1> DEFINE n == Len(list)
           I == {i \in 1..n : list[i].timer = t}
           p == Min(I)
           s == Without(list, t)
<1>0. n \in Nat /\ \A i \in 1..n : list[i] \in Item /\ list[i].left \in Nat
  BY ItemsTyped
<1>1. CASE ~Has(list, t)
  <2>1. s = list
    BY <1>1 DEF Without, RemoveFirstMatch, Has
  <2> QED
    BY <1>1, <2>1
<1>2. CASE Has(list, t)
  <2>1. I \in SUBSET Nat /\ I # {}
    BY <1>0, <1>2 DEF Has
  <2>2. p \in 1..n /\ list[p].timer = t
    BY <2>1, MinNat
  <2>3. s = RemoveAt(list, p)
    BY <1>2, <2>1 DEF Without, RemoveFirstMatch, SelectInSeq, Has
  <2> HIDE DEF I, p, s
  <2>4. /\ s \in Seq(Item) /\ Len(s) = n - 1
        /\ \A j \in 1..(n - 1) : s[j] = IF j < p THEN list[j] ELSE list[j + 1]
    BY <2>2, <2>3, RemoveAtIs
  <2> DEFINE At(j) == IF j < p THEN j ELSE j + 1   \* where s[j] was
  <2>5. ASSUME NEW j \in 1..(n - 1)
        PROVE  /\ At(j) \in 1..n /\ At(j) # p /\ s[j] = list[At(j)]
               /\ (j < p => At(j) = j) /\ (j >= p => At(j) = j + 1)
    <3>1. CASE j < p
      BY <1>0, <2>2, <2>4, <3>1
    <3>2. CASE j >= p
      BY <1>0, <2>2, <2>4, <3>2
    <3> QED
      BY <1>0, <2>2, <3>1, <3>2
  <2> HIDE DEF At
  <2>6. ASSUME NEW i \in 1..n, i # p PROVE \E j \in 1..(n - 1) : s[j] = list[i]
    <3>1. CASE i < p
      BY <1>0, <2>2, <2>4, <3>1
    <3>2. CASE i > p
      <4>1. i - 1 \in 1..(n - 1) /\ s[i - 1] = list[(i - 1) + 1] /\ (i - 1) + 1 = i
        BY <1>0, <2>2, <2>4, <3>2
      <4> QED
        BY <4>1
    <3> QED
      BY <2>2, <2>6, <3>1, <3>2
  <2>7. ASSUME NEW i \in 1..(n - 1), NEW j \in 1..(n - 1)
        PROVE  /\ i < j => s[i].left <= s[j].left
               /\ s[i].timer = s[j].timer => i = j
    <3>1. (i < j => At(i) < At(j)) /\ (At(i) = At(j) => i = j)
      BY <1>0, <2>2, <2>5
    <3> QED
      BY <2>5, <3>1 DEF Sorted, Distinct
  <2>8. Sorted(s) /\ Distinct(s)
    BY <2>4, <2>7 DEF Sorted, Distinct
  <2>9. ASSUME NEW u PROVE Has(s, u) <=> Has(list, u) /\ u # t
    <3>1. ASSUME Has(s, u) PROVE Has(list, u) /\ u # t
      <4>1. PICK j \in 1..(n - 1) : s[j].timer = u
        BY <2>4, <3>1 DEF Has
      <4>2. At(j) \in 1..n /\ At(j) # p /\ list[At(j)].timer = u
        BY <2>5, <4>1
      <4> QED
        BY <2>2, <4>2 DEF Has, Distinct
    <3>2. ASSUME Has(list, u), u # t PROVE Has(s, u)
      <4>1. PICK i \in 1..n : list[i].timer = u
        BY <3>2 DEF Has
      <4>2. PICK j \in 1..(n - 1) : s[j] = list[i]
        BY <2>2, <2>6, <3>2, <4>1
      <4> QED
        BY <2>4, <4>1, <4>2 DEF Has
    <3> QED
      BY <3>1, <3>2
  <2>10. ASSUME NEW d, DueAt(list, d) PROVE DueAt(s, d)
    BY <2>4, <2>5, <2>10 DEF DueAt
  <2> QED
    BY <2>4, <2>8, <2>9, <2>10 DEF s
<1> QED
  BY <1>1, <1>2

(* The list that is left when the first k items have gone.                 *)
LEMMA DropIs ==
    ASSUME NEW list \in Seq(Item), NEW k \in 0..Len(list), Sorted(list), Distinct(list)
    PROVE  LET s == SubSeq(list, k + 1, Len(list)) IN
           /\ s \in Seq(Item) /\ Sorted(s) /\ Distinct(s)
           /\ \A t : Has(s, t) <=> Has(list, t) /\ \A i \in 1..k : list[i].timer # t
           /\ \A d : DueAt(list, d) => DueAt(s, d)
<1> DEFINE n == Len(list)
           s == SubSeq(list, k + 1, n)
<1>0. n \in Nat /\ \A i \in 1..n : list[i] \in Item
  BY LenProperties, ElementOfSeq
<1>1. s \in Seq(Item) /\ Len(s) = n - k /\ \A i \in 1..(n - k) : s[i] = list[k + i]
  <2>1. /\ s \in Seq(Item) /\ Len(s) = IF k + 1 <= n THEN n - (k + 1) + 1 ELSE 0
        /\ \A i \in 1..(n - (k + 1) + 1) : s[i] = list[(k + 1) + i - 1]
    BY <1>0, SubSeqProperties
  <2> HIDE DEF s
  <2>2. Len(s) = n - k
    BY <1>0, <2>1
  <2>3. \A i \in 1..(n - k) : i \in 1..(n - (k + 1) + 1) /\ (k + 1) + i - 1 = k + i
    BY <1>0
  <2> QED
    BY <2>1, <2>2, <2>3
<1> HIDE DEF s
<1>2. \A i \in 1..(n - k) : k + i \in 1..n /\ k + i > k
  BY <1>0
<1>3. Sorted(s) /\ Distinct(s)
  <2>1. ASSUME NEW i \in 1..(n - k), NEW j \in 1..(n - k)
        PROVE  /\ i < j => s[i].left <= s[j].left
               /\ s[i].timer = s[j].timer => i = j
    <3>1. (i < j => k + i < k + j) /\ (k + i = k + j => i = j)
      BY <1>0
    <3> QED
      BY SMTT(30), <1>1, <1>2, <3>1 DEF Sorted, Distinct
  <2> QED
    BY <1>1, <2>1 DEF Sorted, Distinct
<1>4. ASSUME NEW t PROVE Has(s, t) <=> Has(list, t) /\ \A i \in 1..k : list[i].timer # t
  <2>1. ASSUME Has(s, t) PROVE Has(list, t) /\ \A i \in 1..k : list[i].timer # t
    <3>1. PICK j \in 1..(n - k) : list[k + j].timer = t /\ k + j \in 1..n /\ k + j > k
      BY <1>1, <1>2, <2>1 DEF Has
    <3>2. \A i \in 1..k : i \in 1..n /\ i # k + j
      BY <1>0
    <3> QED
      BY <3>1, <3>2 DEF Has, Distinct
  <2>2. ASSUME Has(list, t), \A i \in 1..k : list[i].timer # t PROVE Has(s, t)
    <3>1. PICK i \in 1..n : list[i].timer = t
      BY <2>2 DEF Has
    <3>2. i - k \in 1..(n - k) /\ k + (i - k) = i
      BY <1>0, <2>2, <3>1
    <3>3. s[i - k] = list[i]
      BY <1>1, <3>2
    <3> QED
      BY <1>1, <3>1, <3>2, <3>3 DEF Has
  <2> QED
    BY <2>1, <2>2
<1>5. ASSUME NEW d, DueAt(list, d) PROVE DueAt(s, d)
  BY <1>1, <1>2, <1>5 DEF DueAt
<1> QED
  BY <1>1, <1>3, <1>4, <1>5 DEF s

(* The list one tick later.                                                *)
Aged(list) == [i \in DOMAIN list |-> [list[i] EXCEPT !.left = Less(@)]]

LEMMA AgedIs ==
    ASSUME NEW list \in Seq(Item), Sorted(list), Distinct(list)
    PROVE  /\ Aged(list) \in Seq(Item) /\ Sorted(Aged(list)) /\ Distinct(Aged(list))
           /\ \A t : Has(Aged(list), t) <=> Has(list, t)
           /\ \A d \in [Timers -> Ticks] :
                 DueAt(list, d) => DueAt(Aged(list), [t \in Timers |-> Less(d[t])])
<1> DEFINE n == Len(list)
           s == Aged(list)
<1>0. /\ n \in Nat /\ DOMAIN list = 1..n
      /\ \A i \in 1..n : /\ list[i] \in Item /\ list[i].left \in Ticks /\ list[i].timer \in Timers
                         /\ list[i].left \in Nat
  BY ItemsTyped
<1>1. \A i \in 1..n : /\ s[i] \in Item /\ s[i].timer = list[i].timer
                      /\ s[i].left = Less(list[i].left)
  <2> TAKE i \in 1..n
  <2>1. s[i] = [list[i] EXCEPT !.left = Less(@)]
    BY <1>0 DEF Aged
  <2> QED
    BY <1>0, <2>1, TicksTyped DEF Item
<1>2. s \in Seq(Item) /\ Len(s) = n
  <2>1. s \in [1..n -> Item]
    BY <1>0, <1>1 DEF Aged
  <2> QED
    BY <1>0, <2>1
<1> HIDE DEF s
<1>3. \A a, b \in Nat : a <= b => Less(a) <= Less(b)
  BY DEF Less
<1>4. Sorted(s) /\ Distinct(s)
  BY <1>0, <1>1, <1>2, <1>3 DEF Sorted, Distinct
<1>5. \A t : Has(s, t) <=> Has(list, t)
  BY <1>1, <1>2 DEF Has
<1>6. ASSUME NEW d \in [Timers -> Ticks], DueAt(list, d)
      PROVE  DueAt(s, [t \in Timers |-> Less(d[t])])
  BY <1>0, <1>1, <1>2, <1>6 DEF DueAt
<1> QED
  BY <1>2, <1>4, <1>5, <1>6 DEF s

-----------------------------------------------------------------------------
(* The inductive invariant.                                                *)

(* Beside what the properties state: an item ends at its timer's deadline, *)
(* an expired timer has reached it, and between handlers no timer is       *)
(* current.                                                                *)
Core ==
    /\ Sorted(items) /\ Distinct(items) /\ DueAt(items, due)
    /\ \A t \in Timers :
          /\ running[t] <=> Has(items, t) \/ t \in expired
          /\ ~(Has(items, t) /\ t \in expired)
          /\ running[t] => t \in alive
          /\ t \in expired => due[t] = 0
          /\ pc = "end" => ~running[t]
    /\ pc # "handler" => current = NoTimer

IInv == TypeOK /\ Core

LEMMA IInvMeans ==
    IInv => RunningIffScheduled /\ NoDanglingTimer /\ SortedByEnd
<1> SUFFICES ASSUME IInv PROVE RunningIffScheduled /\ NoDanglingTimer /\ SortedByEnd
  OBVIOUS
<1>1. items \in Seq(Item)
  BY DEF IInv, TypeOK, Item
<1>2. DOMAIN items = 1..Len(items)
  BY <1>1, ItemsTyped
<1>3. \A t : Listed(t) <=> Has(items, t)
  BY <1>2 DEF Listed, Has
<1>4. SortedByEnd
  BY <1>2 DEF IInv, Core, Sorted, SortedByEnd
<1>5. RunningIffScheduled
  BY <1>2, <1>3 DEF IInv, Core, Distinct, RunningIffScheduled
<1>6. NoDanglingTimer
  BY <1>3 DEF IInv, Core, NoDanglingTimer
<1> QED
  BY <1>4, <1>5, <1>6

LEMMA InitInv == Init => IInv
<1> SUFFICES ASSUME Init PROVE IInv
  OBVIOUS
<1>1. items \in Seq([timer : Timers, left : Ticks]) /\ Len(items) = 0
  BY DEF Init
<1>2. queue \in Seq(Timers \cup {"stop"})
  BY DEF Init
<1>3. TypeOK
  <2>1. due \in [Timers -> Ticks] /\ calls \in 0..MaxCalls
    BY TicksTyped, BoundAssumption DEF Init
  <2>2. /\ running \in [Timers -> BOOLEAN] /\ repeat \in [Timers -> BOOLEAN]
        /\ interval \in [Timers -> Intervals \cup {0}]
    BY DEF Init
  <2> QED
    BY <1>1, <1>2, <2>1, <2>2 DEF Init, TypeOK, PCs
<1>4. Sorted(items) /\ Distinct(items) /\ DueAt(items, due) /\ \A t : ~Has(items, t)
  BY <1>1 DEF Sorted, Distinct, DueAt, Has
<1> QED
  BY <1>3, <1>4 DEF IInv, Core, Init

-----------------------------------------------------------------------------
(* Steps that several actions share.                                       *)

(* A timer that is started is in the list, with its new deadline.          *)
LEMMA ScheduleKeeps ==
    ASSUME IInv, NEW t \in Timers, NEW msec \in Intervals \cup {0}, ~Has(items, t),
           Schedule(t, msec)
    PROVE  /\ items' \in Seq(Item) /\ Sorted(items') /\ Distinct(items')
           /\ due' \in [Timers -> Ticks] /\ DueAt(items', due')
           /\ \A u : Has(items', u) <=> Has(items, u) \/ u = t
           /\ \A u \in Timers : u # t => due'[u] = due[u]
<1> DEFINE left == msec * TicksPerMs
           x == [timer |-> t, left |-> left]
<1>0. items \in Seq(Item) /\ Sorted(items) /\ Distinct(items) /\ DueAt(items, due)
  BY DEF IInv, Core, TypeOK, Item
<1>1. left \in Ticks
  BY TicksTyped
<1> HIDE DEF left
<1>2. x \in Item /\ x.timer = t /\ x.left = left
  BY <1>1 DEF Item
<1> HIDE DEF x
<1>3. items' = Insert(items, x) /\ due' = [due EXCEPT ![t] = left]
  BY DEF Schedule, x, left
<1>4. /\ due' \in [Timers -> Ticks] /\ due'[t] = left
      /\ \A u \in Timers : u # t => due'[u] = due[u]
  BY <1>1, <1>3 DEF IInv, TypeOK
<1>5. DueAt(items, due')
  <2>1. \A i \in 1..Len(items) : items[i].timer \in Timers /\ items[i].timer # t
    BY <1>0, ItemsTyped DEF Has
  <2> QED
    BY <1>0, <1>4, <2>1 DEF DueAt
<1> QED
  BY <1>0, <1>2, <1>3, <1>4, <1>5, InsertKeeps

(* A running timer that is cancelled is forgotten, wherever it was.        *)
LEMMA UnscheduleKeeps ==
    ASSUME IInv, NEW t \in Timers, Unschedule(t)
    PROVE  /\ items' \in Seq(Item) /\ Sorted(items') /\ Distinct(items')
           /\ DueAt(items', due)
           /\ \A u : Has(items', u) <=> Has(items, u) /\ u # t
           /\ expired' = expired \ {t}
<1>0. items \in Seq(Item) /\ Sorted(items) /\ Distinct(items) /\ DueAt(items, due)
  BY DEF IInv, Core, TypeOK, Item
<1>1. items' = Without(items, t)
  BY DEF Unschedule, Without
<1>2. Listed(t) <=> Has(items, t)
  BY <1>0, ItemsTyped DEF Listed, Has
<1>3. expired' = expired \ {t}
  BY <1>2 DEF Unschedule, IInv, Core
<1> QED
  BY <1>0, <1>1, <1>3, WithoutIs

(* How long the thread waits is a number of ticks, or for ever.            *)
LEMMA WaitTyped ==
    ASSUME items \in Seq(Item)
    PROVE  NextTimeout \in Nat /\ WaitTicks(NextTimeout) \in Nat \cup {Forever}
<1>0. /\ TicksPerMs \in Nat \ {0} /\ NsPerMs \in Nat \ {0} /\ Modulus \in Nat \ {0}
      /\ NsPerMs % TicksPerMs = 0
  BY WidthAssumption
<1>1. \A n \in Int : Uint(n) \in Nat
  BY <1>0 DEF Uint
<1>2. \A a \in Nat, b \in Nat \ {0} : a \div b \in Nat
  OBVIOUS
<1>3. NsPerMs \div TicksPerMs \in Nat \ {0}
  BY <1>0
<1>4. NextTimeout \in Nat
  <2>1. CASE items = <<>>
    BY <1>0, <2>1 DEF NextTimeout
  <2>2. CASE items # <<>>
    <3>1. Head(items) = items[1] /\ 1 \in 1..Len(items)
      BY <2>2, EmptySeq
    <3>2. Head(items).left \in Nat
      BY <3>1, ItemsTyped
    <3>3. Head(items).left \div TicksPerMs \in Nat
      BY <1>0, <1>2, <3>2
    <3> QED
      BY <1>1, <2>2, <3>3 DEF NextTimeout
  <2> QED
    BY <2>1, <2>2
<1>5. ASSUME NEW m \in Nat PROVE WaitTicks(m) \in Nat \cup {Forever}
  <2>1. m * TicksPerMs \in Nat /\ m * NsPerMs \in Int
    BY <1>0
  <2>2. Uint(m * NsPerMs) \div (NsPerMs \div TicksPerMs) \in Nat
    BY <1>1, <1>2, <1>3, <2>1
  <2> QED
    BY <2>1, <2>2 DEF WaitTicks
<1> QED
  BY <1>4, <1>5

(* A list has a longest beginning of items that are due.                   *)
LEMMA FrontExists ==
    ASSUME NEW list \in Seq(Item)
    PROVE  \E n \in 0..Len(list) : /\ \A i \in 1..n : list[i].left = 0
                                   /\ n < Len(list) => list[n + 1].left > 0
<1> DEFINE L == {i \in 1..Len(list) : list[i].left > 0}
<1>0. Len(list) \in Nat /\ \A i \in 1..Len(list) : list[i].left \in Nat
  BY ItemsTyped
<1>1. CASE L = {}
  <2>1. \A i \in 1..Len(list) : list[i].left = 0
    BY <1>0, <1>1
  <2>2. Len(list) \in 0..Len(list) /\ ~(Len(list) < Len(list))
    BY <1>0
  <2> QED
    BY <2>1, <2>2
<1>2. CASE L # {}
  <2> DEFINE m == Min(L)
  <2>1. L \in SUBSET Nat
    OBVIOUS
  <2>2. m \in L /\ \A i \in L : m <= i
    BY <1>2, <2>1, MinNat
  <2> HIDE DEF m
  <2>3. m \in 1..Len(list) /\ list[m].left > 0
    BY <2>2
  <2>4. ASSUME NEW i \in 1..(m - 1) PROVE list[i].left = 0
    <3>1. i \in 1..Len(list) /\ i \notin L
      BY <1>0, <2>2, <2>3
    <3> QED
      BY <1>0, <3>1
  <2>5. m - 1 \in 0..Len(list) /\ (m - 1) + 1 = m
    BY <1>0, <2>3
  <2> QED
    BY <2>3, <2>4, <2>5
<1> QED
  BY <1>1, <1>2

-----------------------------------------------------------------------------
(* The invariant is inductive.                                             *)

LEMMA NextInv == IInv /\ [Next]_vars => IInv'
<1> SUFFICES ASSUME IInv, [Next]_vars PROVE IInv'
  OBVIOUS
<1> USE DEF objectVars
<1>a. /\ items \in Seq(Item) /\ Sorted(items) /\ Distinct(items) /\ DueAt(items, due)
      /\ due \in [Timers -> Ticks] /\ NoTimer \notin Timers
  BY TimersAssumption DEF IInv, Core, TypeOK, Item, NoTimer
<1>i. items' \in Seq(Item) <=> items' \in Seq([timer : Timers, left : Ticks])
  BY DEF Item
<1>c. Call => calls' \in 0..MaxCalls
  BY BoundAssumption DEF Call, IInv, TypeOK
\* nothing changes that the invariant but for the types is about
<1>1. ASSUME items' = items, expired' = expired, alive' = alive, running' = running,
             due' = due, TypeOK', pc' = "end" => pc = "end" \/ \A t \in Timers : ~running[t],
             pc' # "handler" => current' = NoTimer
      PROVE  IInv'
  BY <1>1 DEF IInv, Core
<1>2. ASSUME NEW t \in Timers, New(t) PROVE IInv'
  <2>0. /\ running' \in [Timers -> BOOLEAN] /\ repeat' \in [Timers -> BOOLEAN]
        /\ interval' \in [Timers -> Intervals \cup {0}] /\ alive' \subseteq Timers
    BY <1>2 DEF New, IInv, TypeOK
  <2>1. TypeOK'
    <3>1. UNCHANGED <<selector, items, expired, queue, stopPosted, pc, wake, current, due>>
      BY <1>2 DEF New
    <3>2. calls' \in 0..MaxCalls
      BY <1>2, <1>c DEF New
    <3> QED
      BY <2>0, <3>1, <3>2 DEF IInv, TypeOK
  <2>2. ~running[t] /\ running' = [running EXCEPT ![t] = FALSE]
    BY <1>2 DEF New, IInv, Core
  <2>3. running' = running
    BY <2>2 DEF IInv, TypeOK
  <2> QED
    BY <1>2, <2>1, <2>3 DEF New, Call, IInv, Core
<1>3. ASSUME NEW t \in Timers, NEW msec \in Intervals, NEW again \in BOOLEAN,
             Start(t, msec, again)
      PROVE  IInv'
  <2>0. ~Has(items, t) /\ t \notin expired
    BY <1>3 DEF Start, IInv, Core
  <2>1. /\ items' \in Seq(Item) /\ Sorted(items') /\ Distinct(items')
        /\ due' \in [Timers -> Ticks] /\ DueAt(items', due')
        /\ \A u : Has(items', u) <=> Has(items, u) \/ u = t
        /\ \A u \in Timers : u # t => due'[u] = due[u]
    BY <1>3, <2>0, ScheduleKeeps DEF Start
  <2>2. TypeOK'
    <3>1. UNCHANGED <<selector, expired, alive, queue, stopPosted, pc, wake, current>>
      BY <1>3 DEF Start, Call
    <3>2. calls' \in 0..MaxCalls
      BY <1>3, <1>c DEF Start
    <3>3. /\ running' \in [Timers -> BOOLEAN] /\ repeat' \in [Timers -> BOOLEAN]
          /\ interval' \in [Timers -> Intervals \cup {0}]
      BY <1>3 DEF Start, IInv, TypeOK
    <3> QED
      BY <1>i, <2>1, <3>1, <3>2, <3>3 DEF IInv, TypeOK
  <2>3. \A u \in Timers : running'[u] = IF u = t THEN TRUE ELSE running[u]
    BY <1>3 DEF Start, IInv, TypeOK
  <2> QED
    BY <1>3, <2>0, <2>1, <2>2, <2>3 DEF Start, Call, IInv, Core
\* cancel, and what the destructor does with a running timer
<1>4. ASSUME NEW t \in Timers, Unschedule(t), running' = [running EXCEPT ![t] = FALSE],
             due' = due, pc' = pc, current' = current, alive \ {t} \subseteq alive',
             items' \in Seq(Item) /\ expired' \subseteq Timers => TypeOK'
      PROVE  IInv'
  <2>1. /\ items' \in Seq(Item) /\ Sorted(items') /\ Distinct(items')
        /\ DueAt(items', due)
        /\ \A u : Has(items', u) <=> Has(items, u) /\ u # t
        /\ expired' = expired \ {t}
    BY <1>4, UnscheduleKeeps
  <2>2. TypeOK'
    BY <1>4, <2>1 DEF IInv, TypeOK
  <2>3. \A u \in Timers : running'[u] = IF u = t THEN FALSE ELSE running[u]
    BY <1>4 DEF IInv, TypeOK
  <2> QED
    BY <1>4, <2>1, <2>2, <2>3 DEF IInv, Core
<1>5. ASSUME NEW t \in Timers, Cancel(t) PROVE IInv'
  <2>1. items' \in Seq(Item) /\ expired' \subseteq Timers => TypeOK'
    <3>1. UNCHANGED <<selector, alive, interval, repeat, queue, stopPosted, pc, wake,
                      current, due>>
      BY <1>5 DEF Cancel
    <3>2. calls' \in 0..MaxCalls /\ running' \in [Timers -> BOOLEAN]
      BY <1>5, <1>c DEF Cancel, IInv, TypeOK
    <3> QED
      BY <1>i, <3>1, <3>2 DEF IInv, TypeOK
  <2> QED
    BY <1>4, <1>5, <2>1 DEF Cancel
<1>6. ASSUME NEW t \in Timers, Delete(t) PROVE IInv'
  <2>0. /\ UNCHANGED <<selector, interval, repeat, queue, stopPosted, pc, wake, current, due>>
        /\ calls' \in 0..MaxCalls /\ alive' \subseteq Timers
    BY <1>6, <1>c DEF Delete, IInv, TypeOK
  <2>1. CASE running[t]
    <3>1. items' \in Seq(Item) /\ expired' \subseteq Timers => TypeOK'
      <4>1. running' \in [Timers -> BOOLEAN]
        BY <1>6, <2>1 DEF Delete, IInv, TypeOK
      <4> QED
        BY <1>i, <2>0, <4>1 DEF IInv, TypeOK
    <3> QED
      BY <1>4, <1>6, <2>1, <3>1 DEF Delete
  <2>2. CASE ~running[t]
    <3>1. TypeOK'
      <4>1. UNCHANGED <<running, items, expired>>
        BY <1>6, <2>2 DEF Delete
      <4> QED
        BY <2>0, <4>1 DEF IInv, TypeOK
    <3> QED
      BY <1>6, <2>2, <3>1 DEF Delete, Call, IInv, Core
  <2> QED
    BY <2>1, <2>2
<1>7. CASE HandlerDone
  <2>1. TypeOK'
    BY <1>7 DEF HandlerDone, IInv, TypeOK, PCs
  <2> QED
    BY <1>1, <1>7, <2>1 DEF HandlerDone
<1>8. CASE Stop
  <2>1. queue' \in Seq(Timers \cup {"stop"})
    BY <1>8, AppendProperties DEF Stop, IInv, TypeOK
  <2>2. TypeOK'
    BY <1>8, <2>1 DEF Stop, IInv, TypeOK
  <2> QED
    BY <1>1, <1>8, <2>2 DEF Stop, IInv, Core
<1>9. CASE EnterWait
  <2>1. TypeOK'
    BY <1>9, <1>a, WaitTyped DEF EnterWait, IInv, TypeOK, PCs
  <2> QED
    BY <1>1, <1>9, <2>1 DEF EnterWait, IInv, Core
<1>10. CASE SkipWait \/ WaitTimeout \/ SpuriousWakeup \/ OtherEvent
  <2>1. TypeOK'
    BY <1>10 DEF SkipWait, WaitTimeout, SpuriousWakeup, OtherEvent, IInv, TypeOK, PCs
  <2> QED
    BY <1>1, <1>10, <2>1 DEF SkipWait, WaitTimeout, SpuriousWakeup, OtherEvent, IInv, Core
<1>11. CASE Expire
  <2> DEFINE Ripe(n) == /\ \A i \in 1..n : items[i].left = 0
                        /\ n < Len(items) => items[n + 1].left > 0
             front == CHOOSE n \in 0..Len(items) : Ripe(n)
             kept  == {i \in 1..front : running[items[i].timer]}
             Nth(f) == \A i, j \in DOMAIN f : i < j => f[i] < f[j]
             nth   == CHOOSE f \in [1..Cardinality(kept) -> kept] : Nth(f)
             fired == [i \in DOMAIN nth |-> items[nth[i]].timer]
  <2>1. /\ items' = SubSeq(items, front + 1, Len(items))
        /\ expired' = expired \cup {items[i].timer : i \in kept}
        /\ \/ /\ queue' = IF stopPosted THEN queue ELSE queue \o fired
              /\ stopPosted' = stopPosted
           \/ /\ \E n \in 1..(Len(fired) - 1) :
                    queue' = queue \o SubSeq(fired, 1, n) \o <<"stop">>
              /\ stopPosted' = TRUE
        /\ pc' = "top"
        /\ UNCHANGED <<selector, alive, running, interval, repeat, wake, current, calls, due>>
    BY <1>11 DEF Expire
  <2>2. front \in 0..Len(items) /\ Ripe(front)
    <3>1. \E n \in 0..Len(items) : Ripe(n)
      BY <1>a, FrontExists
    <3> QED
      BY <3>1
  <2> HIDE DEF front
  <2>3. /\ Len(items) \in Nat
        /\ \A i \in 1..front : /\ i \in 1..Len(items) /\ items[i].timer \in Timers
                                /\ Has(items, items[i].timer) /\ due[items[i].timer] = 0
    <3>1. Len(items) \in Nat /\ \A i \in 1..Len(items) : items[i].timer \in Timers
      BY <1>a, ItemsTyped
    <3>2. \A i \in 1..front : i \in 1..Len(items)
      BY <2>2, <3>1
    <3> QED
      BY <1>a, <2>2, <3>1, <3>2 DEF Has, DueAt
  <2>4. kept = 1..front
    BY <2>3 DEF IInv, Core
  <2>5. fired \in Seq(Timers)
    <3>0. front \in Nat
      BY <2>2, <2>3
    <3>1. Cardinality(kept) = front
      <4>1. Cardinality(1..front) = IF 1 > front THEN 0 ELSE front - 1 + 1
        BY <3>0, FS_Interval
      <4>2. CASE front = 0
        <5>1. Cardinality(1..front) = 0
          BY <4>1, <4>2
        <5> QED
          BY <2>4, <4>2, <5>1
      <4>3. CASE front > 0
        <5>1. ~(1 > front) /\ front - 1 + 1 = front
          BY <3>0, <4>3
        <5>2. Cardinality(1..front) = front
          BY <4>1, <5>1
        <5> QED
          BY <2>4, <5>2
      <4> QED
        BY <3>0, <4>2, <4>3
    <3>2. [i \in 1..front |-> i] \in [1..Cardinality(kept) -> kept] /\ Nth([i \in 1..front |-> i])
      BY <2>4, <3>1
    <3>3. \E f \in [1..Cardinality(kept) -> kept] : Nth(f)
      BY <3>2
    <3>4. nth \in [1..Cardinality(kept) -> kept]
      BY <3>3
    <3> HIDE DEF nth
    <3>5. fired \in [1..front -> Timers]
      BY <2>3, <2>4, <3>1, <3>4
    <3> QED
      BY <3>0, <3>5
  <2> HIDE DEF nth, fired
  <2>6. queue' \in Seq(Timers \cup {"stop"})
    <3>1. queue \in Seq(Timers \cup {"stop"}) /\ fired \in Seq(Timers \cup {"stop"})
      BY <2>5, SeqMonotonic DEF IInv, TypeOK
    <3>2. CASE queue' = IF stopPosted THEN queue ELSE queue \o fired
      BY <3>1, <3>2, ConcatProperties
    <3>3. CASE \E n \in 1..(Len(fired) - 1) :
                  queue' = queue \o SubSeq(fired, 1, n) \o <<"stop">>
      <4>1. PICK n \in 1..(Len(fired) - 1) :
               queue' = queue \o SubSeq(fired, 1, n) \o <<"stop">>
        BY <3>3
      <4>2. \A i \in 1..n : fired[i] \in Timers \cup {"stop"}
        BY <2>5, <3>1, LenProperties, ElementOfSeq
      <4>3. SubSeq(fired, 1, n) \in Seq(Timers \cup {"stop"})
        BY <4>2, SubSeqProperties
      <4>4. queue \o SubSeq(fired, 1, n) \in Seq(Timers \cup {"stop"})
        BY <3>1, <4>3, ConcatProperties
      <4>5. <<"stop">> \in Seq(Timers \cup {"stop"})
        OBVIOUS
      <4> QED
        BY <4>1, <4>4, <4>5, ConcatProperties
    <3> QED
      BY <2>1, <3>2, <3>3
  <2>7. /\ items' \in Seq(Item) /\ Sorted(items') /\ Distinct(items')
        /\ \A t : Has(items', t) <=> Has(items, t) /\ \A i \in 1..front : items[i].timer # t
        /\ DueAt(items', due)
    BY <1>a, <2>1, <2>2, DropIs
  <2>8. \A t : t \in expired' <=> t \in expired \/ \E i \in 1..front : items[i].timer = t
    BY <2>1, <2>4
  <2>9. stopPosted' \in BOOLEAN /\ expired' \subseteq Timers
    <3>1. stopPosted' \in BOOLEAN
      BY <2>1 DEF IInv, TypeOK
    <3>2. expired' \subseteq Timers
      BY <2>3, <2>8 DEF IInv, TypeOK
    <3> QED
      BY <3>1, <3>2
  <2>10. TypeOK'
    BY <1>i, <2>1, <2>6, <2>7, <2>9 DEF IInv, TypeOK, PCs
  <2>11. ASSUME NEW t \in Timers
         PROVE  /\ Has(items', t) \/ t \in expired' <=> Has(items, t) \/ t \in expired
                /\ ~(Has(items', t) /\ t \in expired')
                /\ t \in expired' => due[t] = 0
    BY <2>3, <2>7, <2>8 DEF IInv, Core
  <2>12. pc # "handler"
    BY <1>11 DEF Expire
  <2> QED
    BY <2>1, <2>7, <2>10, <2>11, <2>12 DEF IInv, Core
<1>12. CASE StaleTask \/ TakeStop
  <2>1. queue' \in Seq(Timers \cup {"stop"})
    <3>1. queue # <<>> /\ queue' = Tail(queue) /\ queue \in Seq(Timers \cup {"stop"})
      BY <1>12 DEF StaleTask, TakeStop, IInv, TypeOK
    <3> QED
      BY <3>1, HeadTailProperties
  <2>2. TypeOK'
    BY <1>12, <2>1 DEF StaleTask, TakeStop, IInv, TypeOK, PCs
  <2> QED
    BY <1>1, <1>12, <2>2 DEF StaleTask, TakeStop, IInv, Core
<1>13. ASSUME NEW t \in Timers, Fire(t) PROVE IInv'
  <2>0. running[t] /\ ~Has(items, t) /\ t \in expired
    BY <1>13 DEF Fire, IInv, Core
  <2>1. queue' \in Seq(Timers \cup {"stop"})
    BY <1>13, HeadTailProperties DEF Fire, IInv, TypeOK
  <2>2. /\ running' = [running EXCEPT ![t] = repeat[t]] /\ current' = t /\ pc' = "handler"
        /\ expired' = expired \ {t}
        /\ UNCHANGED <<selector, alive, interval, repeat, stopPosted, wake, calls>>
    BY <1>13, <2>0 DEF Fire
  <2>3. repeat[t] \in BOOLEAN /\ interval[t] \in Intervals \cup {0}
    BY DEF IInv, TypeOK
  <2>4. \A u \in Timers : running'[u] = IF u = t THEN repeat[t] ELSE running[u]
    BY <2>2 DEF IInv, TypeOK
  <2>5. /\ items' \in Seq(Item) /\ Sorted(items') /\ Distinct(items')
        /\ due' \in [Timers -> Ticks] /\ DueAt(items', due')
        /\ \A u : Has(items', u) <=> Has(items, u) \/ (u = t /\ repeat[t])
        /\ \A u \in Timers : u # t => due'[u] = due[u]
    <3>1. CASE repeat[t]
      <4>1. Schedule(t, interval[t])
        BY <1>13, <2>0, <3>1 DEF Fire
      <4> QED
        BY <2>0, <2>3, <3>1, <4>1, ScheduleKeeps
    <3>2. CASE ~repeat[t]
      <4>1. items' = items /\ due' = due
        BY <1>13, <2>0, <3>2 DEF Fire
      <4> QED
        BY <1>a, <3>2, <4>1
    <3> QED
      BY <3>1, <3>2
  <2>6. TypeOK'
    BY <1>i, <2>1, <2>2, <2>3, <2>5 DEF IInv, TypeOK, PCs
  <2> QED
    BY <2>0, <2>2, <2>3, <2>4, <2>5, <2>6 DEF IInv, Core
<1>14. CASE CancelAll
  <2>1. items' = <<>> /\ items' \in Seq(Item) /\ Len(items') = 0
    BY <1>14 DEF CancelAll
  <2>2. Sorted(items') /\ Distinct(items') /\ DueAt(items', due) /\ \A t : ~Has(items', t)
    BY <2>1 DEF Sorted, Distinct, DueAt, Has
  <2>3. \A t \in Timers : Listed(t) <=> Has(items, t)
    BY <1>a, ItemsTyped DEF Listed, Has
  <2>4. \A t \in Timers : ~running'[t]
    BY <1>14, <2>3 DEF CancelAll, IInv, Core
  <2>5. TypeOK'
    BY <1>14, <1>i, <2>1 DEF CancelAll, IInv, TypeOK, PCs
  <2> QED
    BY <1>14, <2>2, <2>4, <2>5 DEF CancelAll, IInv, Core
<1>15. CASE Tick
  <2>1. items' = Aged(items) /\ due' = [t \in Timers |-> Less(due[t])]
    BY <1>15 DEF Tick, Aged
  <2>2. /\ items' \in Seq(Item) /\ Sorted(items') /\ Distinct(items')
        /\ \A t : Has(items', t) <=> Has(items, t)
        /\ DueAt(items', due')
    BY <1>a, <2>1, AgedIs
  <2>3. due' \in [Timers -> Ticks] /\ \A t \in Timers : due[t] = 0 => due'[t] = 0
    <3>1. \A t \in Timers : due[t] \in Nat
      BY <1>a, TicksTyped
    <3>2. \A n \in Ticks : Less(n) \in Ticks
      BY TicksTyped DEF Less
    <3> QED
      BY <1>a, <2>1, <3>1, <3>2 DEF Less
  <2>4. wake' \in Nat \cup {Forever}
    BY <1>15 DEF Tick, Less, IInv, TypeOK, Forever
  <2>5. TypeOK'
    BY <1>15, <1>i, <2>2, <2>3, <2>4 DEF Tick, IInv, TypeOK
  <2> QED
    BY <1>15, <2>2, <2>3, <2>5 DEF Tick, IInv, Core
<1>16. CASE UNCHANGED vars
  <2>1. TypeOK'
    BY <1>16 DEF vars, IInv, TypeOK
  <2> QED
    BY <1>1, <1>16, <2>1 DEF vars, IInv, Core
<1> QED
  BY <1>2, <1>3, <1>5, <1>6, <1>7, <1>8, <1>9, <1>10, <1>11, <1>12, <1>13, <1>14, <1>15,
     <1>16 DEF Next, UserStep, LoopStep, RunTask

-----------------------------------------------------------------------------
(* The theorems.                                                           *)

LEMMA Inductive == Spec => []IInv
<1> QED
  BY InitInv, NextInv, PTL DEF Spec

(* Whatever the intervals and the widths of the integers, every item ends  *)
(* within the longest interval and every wait is a number of ticks.        *)
THEOREM TypeCorrect == Spec => []TypeOK
<1>1. IInv => TypeOK
  BY DEF IInv
<1> QED
  BY <1>1, Inductive, PTL

(* Timer::mRunning, mItems and mExpired agree on every timer.              *)
THEOREM RunningIsScheduled == Spec => []RunningIffScheduled
<1> QED
  BY IInvMeans, Inductive, PTL

(* No deleted timer is in mItems or mExpired, and none runs after onExit.  *)
THEOREM NothingDangles == Spec => []NoDanglingTimer
<1> QED
  BY IInvMeans, Inductive, PTL

(* TimerManager::start keeps mItems sorted by end.                         *)
THEOREM ListSorted == Spec => []SortedByEnd
<1> QED
  BY IInvMeans, Inductive, PTL

(* A timer's handler is called while the timer lives and runs, and not     *)
(* before its deadline, in spite of stale tasks in the queue.              *)
THEOREM FiredWhenDue == Spec => FiresWhenDue
<1>1. ASSUME IInv, [Next]_vars, NEW t \in Timers, pc = "wait", current' = t
      PROVE  t \in alive /\ running[t] /\ due[t] = 0
  <2>1. current # t
    BY <1>1, TimersAssumption DEF IInv, Core, NoTimer
  <2>2. Fire(t)
    BY <1>1, <2>1 DEF Next, UserStep, LoopStep, RunTask, New, Start, Cancel, Delete, Call,
         HandlerDone, Stop, EnterWait, SkipWait, WaitTimeout, SpuriousWakeup, OtherEvent,
         Expire, StaleTask, Fire, TakeStop, CancelAll, Tick, vars
  <2> QED
    BY <1>1, <2>2 DEF Fire, IInv, Core
<1>2. IInv /\ [Next]_vars =>
        [\A t \in Timers : pc = "wait" /\ current' = t =>
            t \in alive /\ running[t] /\ due[t] = 0]_vars
  BY <1>1
<1> QED
  BY <1>2, Inductive, PTL DEF Spec, FiresWhenDue

=============================================================================
