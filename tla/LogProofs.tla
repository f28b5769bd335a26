------------------------------- MODULE LogProofs ------------------------------
(***************************************************************************)
(* A delivered log is not undone by an older copy of it, for sessions of   *)
(* any length of every coding tool.                                        *)
(***************************************************************************)
EXTENDS MCProviderLogs, WellFoundedInduction, FiniteSetTheorems, SequenceTheorems, TLAPS

(* The order of the naturals, as the library states it, *)
LEMMA NaturalsAreWellFounded == IsWellFoundedOn({ss \in Nat \X Nat : ss[1] < ss[2]}, Nat)
BY NatLessThanWellFounded DEF OpToRel

(* and the least of some naturals. *)
LEMMA LeastNumber ==
  ASSUME NEW T, T \subseteq Nat, T # {}
  PROVE  \E x \in T : \A y \in T : x <= y
<1> DEFINE R == {ss \in Nat \X Nat : ss[1] < ss[2]}
<1>1. IsWellFoundedOn(R, Nat)
  BY NaturalsAreWellFounded
<1>2. PICK x \in T : \A y \in T : ~(<<y, x>> \in R)
  <2> HIDE DEF R
  <2> QED
    BY <1>1, WFMin
<1>3. ASSUME NEW y \in T PROVE x <= y
  <2>1. ~(y < x)
    BY <1>2
  <2> QED
    BY <2>1
<1> QED
  BY <1>3

(* Induction from m up to n, for the numbers in a set. *)
LEMMA Induction ==
  ASSUME NEW m \in Nat, NEW n \in Nat, NEW S, m \in S,
         \A i \in m..n - 1 : i \in S => i + 1 \in S
  PROVE  \A i \in m..n : i \in S
<1> SUFFICES ASSUME NEW i \in m..n, i \notin S PROVE FALSE
  OBVIOUS
<1> DEFINE T == {k \in m..n : k \notin S}
<1>1. PICK k \in T : \A j \in T : k <= j
  <2>1. T \subseteq Nat /\ i \in T
    OBVIOUS
  <2> HIDE DEF T
  <2> QED
    BY <2>1, LeastNumber
<1>2. k \in Nat /\ k # m /\ k - 1 \in m..n - 1
  OBVIOUS
<1>3. k - 1 \in S
  BY <1>1, <1>2
<1> QED
  BY <1>2, <1>3

(* What is defined for a number from the number before it exists. *)
Iterates(f, n, V, first, step) ==
  /\ f \in [0..n -> V] /\ f[0] = first
  /\ \A i \in 1..n : f[i] = step[i][f[i - 1]]

(* The recursive functions of the model are such. *)
LEMMA Iterated ==
  ASSUME NEW n \in Nat, NEW V, NEW first \in V, NEW step \in [1..n -> [V -> V]]
  PROVE  \E f : Iterates(f, n, V, first, step)
<1> DEFINE Upto(k) == \E f : Iterates(f, k, V, first, step)
           S == {k \in 0..n : Upto(k)}
<1>1. 0 \in S
  <2> DEFINE g == [i \in 0..0 |-> first]
  <2>1. g \in [0..0 -> V] /\ g[0] = first
    OBVIOUS
  <2>2. \A i \in 1..0 : g[i] = step[i][g[i - 1]]
    OBVIOUS
  <2>3. Upto(0)
    <3> HIDE DEF g
    <3> QED
      BY <2>1, <2>2 DEF Iterates
  <2> HIDE DEF Upto
  <2> QED
    BY <2>3
<1>2. ASSUME NEW k \in 0..n - 1, k \in S PROVE k + 1 \in S
  <2>1. PICK f :
          f \in [0..k -> V] /\ f[0] = first /\ \A i \in 1..k : f[i] = step[i][f[i - 1]]
    BY <1>2 DEF Iterates
  <2> DEFINE g == [i \in 0..k + 1 |-> IF i = k + 1 THEN step[k + 1][f[k]] ELSE f[i]]
  <2>2. k + 1 \in 1..n /\ k \in 0..k
    OBVIOUS
  <2>3. step[k + 1][f[k]] \in V
    BY <2>1, <2>2
  <2>4. g \in [0..k + 1 -> V] /\ g[0] = first
    BY <2>1, <2>3
  <2>5. ASSUME NEW i \in 1..k + 1 PROVE g[i] = step[i][g[i - 1]]
    <3>1. CASE i = k + 1
      <4>1. g[i] = step[k + 1][f[k]] /\ g[i - 1] = f[k]
        BY <3>1
      <4> QED
        BY <3>1, <4>1
    <3>2. CASE i # k + 1
      <4>1. i \in 1..k /\ g[i] = f[i] /\ g[i - 1] = f[i - 1]
        BY <3>2
      <4> HIDE DEF g
      <4> QED
        BY <2>1, <4>1
    <3> QED
      BY <3>1, <3>2
  <2>6. Upto(k + 1)
    <3> HIDE DEF g
    <3> QED
      BY <2>4, <2>5 DEF Iterates
  <2> HIDE DEF Upto
  <2> QED
    BY <2>2, <2>6
<1>3. n \in S
  <2> HIDE DEF S
  <2>1. \A k \in 0..n - 1 : k \in S => k + 1 \in S
    BY <1>2
  <2>2. \A k \in 0..n : k \in S
    BY <1>1, <2>1, Induction
  <2> QED
    BY <2>2
<1> QED
  BY <1>3
-----------------------------------------------------------------------------
(* How FlattenSeq goes on, list by list. *)
Flattens(f, V, lists) ==
  /\ f \in [1..Len(lists) -> Seq(V)]
  /\ FlattenSeq(lists) = f[Len(lists)]
  /\ f[1] = lists[1]
  /\ \A i \in 2..Len(lists) : f[i] = f[i - 1] \o lists[i]

(* Which it does. *)
LEMMA Flattening ==
  ASSUME NEW V, NEW lists \in Seq(Seq(V)), lists # <<>>
  PROVE  \E f : Flattens(f, V, lists)
<1> DEFINE n == Len(lists)
           Is(f) == f = [i \in 1..n |-> IF i = 1 THEN lists[i] ELSE f[i - 1] \o lists[i]]
<1>1. n \in Nat /\ n >= 1 /\ \A i \in 1..n : lists[i] \in Seq(V)
  OBVIOUS
<1>2. FlattenSeq(lists) = (CHOOSE f : Is(f))[n]
  BY <1>1 DEF FlattenSeq
<1> HIDE DEF n
<1>3. \E f : Is(f)
  <2> DEFINE step == [i \in 1..n - 1 |-> [s \in Seq(V) |-> s \o lists[i + 1]]]
  <2>1. ASSUME NEW i \in 1..n - 1, NEW s \in Seq(V)
        PROVE  step[i][s] = s \o lists[i + 1] /\ s \o lists[i + 1] \in Seq(V)
    <3>1. i + 1 \in 1..n
      BY <1>1
    <3>2. lists[i + 1] \in Seq(V)
      BY <1>1, <3>1
    <3> QED
      BY <3>2
  <2>2. step \in [1..n - 1 -> [Seq(V) -> Seq(V)]]
    BY <2>1
  <2>3. n - 1 \in Nat /\ lists[1] \in Seq(V)
    BY <1>1
  <2> HIDE DEF step
  <2>4. PICK g :
          /\ g \in [0..n - 1 -> Seq(V)] /\ g[0] = lists[1]
          /\ \A i \in 1..n - 1 : g[i] = step[i][g[i - 1]]
    <3> DEFINE m == n - 1
               W == Seq(V)
               first == lists[1]
    <3>1. m \in Nat /\ first \in W /\ step \in [1..m -> [W -> W]]
      BY <2>2, <2>3
    <3> HIDE DEF m, W, first
    <3>2. \E g : Iterates(g, m, W, first, step)
      BY <3>1, Iterated
    <3> QED
      BY <3>2 DEF m, W, first, Iterates
  <2> DEFINE f == [i \in 1..n |-> g[i - 1]]
  <2>5. ASSUME NEW i \in 1..n
        PROVE  f[i] = IF i = 1 THEN lists[i] ELSE f[i - 1] \o lists[i]
    <3>1. CASE i = 1
      BY <2>4, <3>1
    <3>2. CASE i # 1
      <4>1. PICK j \in 1..n - 1 : i = j + 1
        BY <1>1, <3>2
      <4>2. f[i] = g[j] /\ f[i - 1] = g[j - 1] /\ j - 1 \in 0..n - 1
        BY <1>1, <4>1
      <4>3. g[j - 1] \in Seq(V) /\ g[j] = step[j][g[j - 1]]
        BY <2>4, <4>2
      <4>4. g[j] = g[j - 1] \o lists[j + 1]
        BY <2>1, <4>3
      <4> HIDE DEF f
      <4> QED
        BY <3>2, <4>1, <4>2, <4>4
    <3> QED
      BY <3>1, <3>2
  <2>6. f = [i \in 1..n |-> f[i]]
    OBVIOUS
  <2>7. Is(f)
    <3> HIDE DEF f
    <3> QED
      BY <2>5, <2>6
  <2> QED
    BY <2>7
<1>4. PICK f : Is(f) /\ FlattenSeq(lists) = f[n]
  <2> HIDE DEF Is
  <2> QED
    BY <1>2, <1>3
<1>5. /\ f[1] = lists[1] /\ DOMAIN f = 1..n
      /\ \A i \in 2..n : f[i] = f[i - 1] \o lists[i]
  <2>1. DOMAIN f = 1..n
    BY <1>4
  <2>2. ASSUME NEW i \in 1..n PROVE f[i] = IF i = 1 THEN lists[i] ELSE f[i - 1] \o lists[i]
    BY <1>4
  <2> HIDE DEF Is
  <2>3. 1 \in 1..n /\ \A i \in 2..n : i \in 1..n /\ i # 1
    BY <1>1
  <2> QED
    BY <2>1, <2>2, <2>3
<1>6. \A i \in 1..n : f[i] \in Seq(V)
  <2> DEFINE S == {k \in 1..n : f[k] \in Seq(V)}
  <2>1. 1 \in S
    BY <1>1, <1>5
  <2>2. ASSUME NEW k \in 1..n - 1, k \in S PROVE k + 1 \in S
    <3>1. k + 1 \in 2..n /\ k + 1 \in 1..n /\ (k + 1) - 1 = k
      BY <1>1
    <3>2. f[k + 1] = f[k] \o lists[k + 1] /\ lists[k + 1] \in Seq(V)
      BY <1>1, <1>5, <3>1
    <3>3. f[k] \in Seq(V)
      BY <2>2
    <3>4. f[k] \o lists[k + 1] \in Seq(V)
      BY <3>2, <3>3
    <3> QED
      BY <3>1, <3>2, <3>4
  <2> HIDE DEF S
  <2>3. \A i \in 1..n : i \in S
    BY <1>1, <2>1, <2>2, Induction
  <2> QED
    BY <2>3 DEF S
<1>7. f = [i \in 1..n |-> f[i]]
  BY <1>4
<1>8. f \in [1..n -> Seq(V)]
  BY <1>6, <1>7
<1> QED
  BY <1>4, <1>5, <1>8 DEF n, Flattens
-----------------------------------------------------------------------------
(* A number that another one has grown from. *)
Grows(few, many) == few \in Nat /\ many \in Nat /\ few <= many

(* A list, whatever its items are. *)
IsList(list) == list \in Seq(Range(list))

(* What is written out is one. *)
LEMMA WrittenOut ==
  /\ IsList(<<>>) /\ Len(<<>>) = 0
  /\ \A a : IsList(<<a>>) /\ Len(<<a>>) = 1
  /\ \A a, b : IsList(<<a, b>>) /\ Len(<<a, b>>) = 2
  /\ \A a, b, c : IsList(<<a, b, c>>) /\ Len(<<a, b, c>>) = 3
BY DEF IsList, Range

(* and so is a function of the first numbers. *)
LEMMA Numbered ==
  ASSUME NEW list, NEW n \in Nat, DOMAIN list = 1..n, list = [i \in 1..n |-> list[i]]
  PROVE  IsList(list) /\ Len(list) = n
BY DEF IsList, Range

(* Lists of lists, item by item. *)
LEMMA OfLists ==
  ASSUME NEW lists, IsList(lists), \A i \in 1..Len(lists) : IsList(lists[i])
  PROVE  \E V : lists \in Seq(Seq(V))
<1> DEFINE n == Len(lists)
           V == UNION {Range(lists[i]) : i \in 1..n}
<1>1. n \in Nat /\ lists \in [1..n -> Range(lists)]
  BY DEF IsList
<1>2. ASSUME NEW i \in 1..n PROVE lists[i] \in Seq(V)
  <2>1. lists[i] \in Seq(Range(lists[i])) /\ Range(lists[i]) \subseteq V
    BY DEF IsList
  <2> HIDE DEF V
  <2> QED
    BY <2>1
<1> HIDE DEF V, n
<1>3. lists \in [1..n -> Seq(V)]
  BY <1>1, <1>2
<1>4. lists \in Seq(Seq(V))
  BY <1>1, <1>3
<1> QED
  BY <1>4

(* Two lists in a row. *)
LEMMA Joined ==
  \A a, b : IsList(a) /\ IsList(b) => IsList(a \o b) /\ Len(a \o b) = Len(a) + Len(b)
<1> SUFFICES ASSUME NEW a, NEW b, IsList(a), IsList(b)
             PROVE  IsList(a \o b) /\ Len(a \o b) = Len(a) + Len(b)
  OBVIOUS
<1> DEFINE V == Range(a) \cup Range(b)
<1>1. a \in Seq(V) /\ b \in Seq(V)
  <2>1. a \in Seq(Range(a)) /\ b \in Seq(Range(b)) /\ Range(a) \subseteq V /\ Range(b) \subseteq V
    BY DEF IsList
  <2> HIDE DEF V
  <2> QED
    BY <2>1
<1> HIDE DEF V
<1>2. a \o b \in Seq(V) /\ Len(a \o b) = Len(a) + Len(b)
  BY <1>1
<1> DEFINE c == a \o b
<1>3. IsList(c)
  <2>1. c \in Seq(V)
    BY <1>2
  <2> HIDE DEF c
  <2> QED
    BY <2>1 DEF IsList, Range
<1>4. Len(a \o b) = Len(a) + Len(b)
  BY <1>2
<1> QED
  BY <1>3, <1>4

(* Sums grow with their terms. *)
LEMMA SumsGrow ==
  \A a, b, c, d : Grows(a, b) /\ Grows(c, d) => Grows(a + c, b + d)
BY DEF Grows

(* A list is flattened to one that grows with every list in it. *)
LEMMA Flattened ==
  ASSUME NEW lists, IsList(lists), \A i \in 1..Len(lists) : IsList(lists[i])
  PROVE  Len(FlattenSeq(lists)) \in Nat /\ (lists = <<>> => Len(FlattenSeq(lists)) = 0)
<1>1. PICK V : lists \in Seq(Seq(V))
  BY OfLists
<1>2. CASE lists = <<>>
  BY <1>2 DEF FlattenSeq
<1>3. CASE lists # <<>>
  <2>1. PICK f : Flattens(f, V, lists)
    BY <1>1, <1>3, Flattening
  <2>2. Len(lists) \in Nat /\ Len(lists) >= 1
    BY <1>1, <1>3
  <2>3. FlattenSeq(lists) \in Seq(V)
    BY <2>1, <2>2 DEF Flattens
  <2> QED
    BY <1>3, <2>3
<1> QED
  BY <1>2, <1>3

LEMMA FlattenedGrows ==
  ASSUME NEW s, NEW t, IsList(s), IsList(t), Len(s) <= Len(t),
         \A i \in 1..Len(s) : IsList(s[i]) /\ Len(s[i]) <= Len(t[i]),
         \A i \in 1..Len(t) : IsList(t[i])
  PROVE  Grows(Len(FlattenSeq(s)), Len(FlattenSeq(t)))
<1> DEFINE m == Len(s)
           n == Len(t)
<1>1. m \in Nat /\ n \in Nat /\ m <= n
  BY DEF IsList
<1>2. Len(FlattenSeq(s)) \in Nat /\ Len(FlattenSeq(t)) \in Nat
  BY Flattened
<1>3. CASE s = <<>>
  <2>1. Len(FlattenSeq(s)) = 0
    BY <1>3, Flattened
  <2> QED
    BY <1>2, <2>1 DEF Grows
<1>4. CASE s # <<>>
  <2>1. m >= 1 /\ n >= 1 /\ t # <<>>
    BY <1>1, <1>4 DEF IsList
  <2>2. PICK V : s \in Seq(Seq(V))
    BY OfLists
  <2>3. PICK W : t \in Seq(Seq(W))
    BY OfLists
  <2>4. PICK f : Flattens(f, V, s)
    BY <1>4, <2>2, Flattening
  <2>5. PICK g : Flattens(g, W, t)
    BY <2>1, <2>3, Flattening
  <2>6. /\ f \in [1..m -> Seq(V)] /\ FlattenSeq(s) = f[m] /\ f[1] = s[1]
        /\ \A i \in 2..m : f[i] = f[i - 1] \o s[i]
    BY <2>4 DEF Flattens
  <2>7. /\ g \in [1..n -> Seq(W)] /\ FlattenSeq(t) = g[n] /\ g[1] = t[1]
        /\ \A i \in 2..n : g[i] = g[i - 1] \o t[i]
    BY <2>5 DEF Flattens
  <2>8. \A i \in 1..m : s[i] \in Seq(V) /\ i \in 1..n /\ Len(s[i]) <= Len(t[i])
    BY <1>1, <2>2
  <2>9. \A i \in 1..n : t[i] \in Seq(W)
    BY <1>1, <2>3
  <2> HIDE DEF m, n
  <2>10. Len(f[m]) <= Len(g[m])
    <3> DEFINE S == {i \in 1..m : Len(f[i]) <= Len(g[i])}
    <3>1. 1 \in S
      BY <1>1, <2>1, <2>6, <2>7, <2>8
    <3>2. ASSUME NEW i \in 1..m - 1, i \in S PROVE i + 1 \in S
      <4>1. i + 1 \in 2..m /\ i + 1 \in 2..n /\ (i + 1) - 1 = i /\ i + 1 \in 1..m /\ i \in 1..m
        BY <1>1
      <4>2. f[i + 1] = f[i] \o s[i + 1] /\ g[i + 1] = g[i] \o t[i + 1]
        BY <2>6, <2>7, <4>1
      <4>3. /\ f[i] \in Seq(V) /\ s[i + 1] \in Seq(V) /\ g[i] \in Seq(W) /\ t[i + 1] \in Seq(W)
            /\ Len(s[i + 1]) <= Len(t[i + 1]) /\ Len(f[i]) <= Len(g[i])
        BY <2>6, <2>7, <2>8, <2>9, <3>2, <4>1
      <4>4. Len(f[i + 1]) = Len(f[i]) + Len(s[i + 1])
        BY <4>2, <4>3
      <4>5. Len(g[i + 1]) = Len(g[i]) + Len(t[i + 1])
        BY <4>2, <4>3
      <4>6. /\ Len(f[i]) \in Nat /\ Len(s[i + 1]) \in Nat /\ Len(g[i]) \in Nat
            /\ Len(t[i + 1]) \in Nat
        BY <4>3
      <4>7. Len(f[i + 1]) <= Len(g[i + 1])
        <5>1. Grows(Len(f[i]), Len(g[i])) /\ Grows(Len(s[i + 1]), Len(t[i + 1]))
          BY <4>3, <4>6 DEF Grows
        <5>2. Grows(Len(f[i]) + Len(s[i + 1]), Len(g[i]) + Len(t[i + 1]))
          BY <5>1, SumsGrow
        <5> QED
          BY <4>4, <4>5, <5>2 DEF Grows
      <4> QED
        BY <4>1, <4>7
    <3> HIDE DEF S
    <3>3. \A i \in 1..m : i \in S
      BY <1>1, <2>1, <3>1, <3>2, Induction
    <3> QED
      BY <1>1, <2>1, <3>3 DEF S
  <2>11. Len(g[m]) <= Len(g[n])
    <3> DEFINE S == {i \in m..n : Len(g[m]) <= Len(g[i])}
    <3>0. m \in 1..n /\ g[m] \in Seq(W)
      BY <1>1, <2>1, <2>7
    <3>1. m \in S
      BY <1>1, <3>0
    <3>2. ASSUME NEW i \in m..n - 1, i \in S PROVE i + 1 \in S
      <4>1. i + 1 \in 2..n /\ (i + 1) - 1 = i /\ i + 1 \in m..n /\ i \in 1..n /\ i + 1 \in 1..n
        BY <1>1, <2>1
      <4>2. g[i + 1] = g[i] \o t[i + 1]
        BY <2>7, <4>1
      <4>3. g[i] \in Seq(W) /\ t[i + 1] \in Seq(W) /\ Len(g[m]) <= Len(g[i])
        BY <2>7, <2>9, <3>2, <4>1
      <4>4. Len(g[i + 1]) = Len(g[i]) + Len(t[i + 1])
        BY <4>2, <4>3
      <4>5. Len(g[i]) \in Nat /\ Len(t[i + 1]) \in Nat /\ Len(g[m]) \in Nat
        BY <3>0, <4>3
      <4>6. Len(g[m]) <= Len(g[i + 1])
        <5>1. Grows(Len(g[m]), Len(g[i])) /\ Grows(0, Len(t[i + 1]))
          BY <4>3, <4>5 DEF Grows
        <5>2. Grows(Len(g[m]) + 0, Len(g[i]) + Len(t[i + 1]))
          BY <5>1, SumsGrow
        <5>3. Len(g[m]) + 0 = Len(g[m])
          BY <4>5
        <5>4. Grows(Len(g[m]), Len(g[i + 1]))
          BY <4>4, <5>2, <5>3
        <5> QED
          BY <5>4 DEF Grows
      <4> QED
        BY <4>1, <4>6
    <3> HIDE DEF S
    <3>3. \A i \in m..n : i \in S
      BY <1>1, <3>1, <3>2, Induction
    <3> QED
      BY <1>1, <3>3 DEF S
  <2>12. Len(f[m]) \in Nat /\ Len(g[m]) \in Nat /\ Len(g[n]) \in Nat
    BY <1>1, <2>1, <2>6, <2>7
  <2> QED
    BY <2>6, <2>7, <2>10, <2>11, <2>12 DEF Grows
<1> QED
  BY <1>3, <1>4
-----------------------------------------------------------------------------
(* A session that another one goes on from. *)
Continued(s, t) ==
  /\ IsList(s) /\ IsList(t) /\ Len(s) <= Len(t)
  /\ \A i \in 1..Len(s) : s[i] = t[i]

(* The least of some numbers. *)
LEMMA MinIs ==
  ASSUME NEW T, T \subseteq Nat, T # {}
  PROVE  Min(T) \in T /\ \A y \in T : Min(T) <= y
<1>1. \E x \in T : \A y \in T : x <= y
  BY LeastNumber
<1> QED
  BY <1>1 DEF Min

(* The answer that begins at fact j finishes at fact i. *)
Answers(f, j, i) ==
  /\ f[j].kind = "begin" /\ i \in j + 1..Len(f)
  /\ f[i].kind = "finish" /\ f[i].turn = f[j].turn
  /\ \A k \in j + 1..i - 1 : f[k].turn = f[j].turn => f[k].kind \notin {"begin", "finish"}

(* That is what Finish tells. *)
LEMMA FinishIs ==
  ASSUME NEW f, IsList(f), NEW j \in 1..Len(f), NEW i, i # j
  PROVE  Finish(f, j) = i <=> Answers(f, j, i)
<1> DEFINE n == Len(f)
           after == {k \in j + 1..n : f[k].kind = "finish" /\ f[k].turn = f[j].turn}
           next == {k \in j + 1..n : f[k].kind = "begin" /\ f[k].turn = f[j].turn}
           Whole2 == f[j].kind = "begin" /\ after # {} /\ \A k \in next : Min(after) < k
<1>1. n \in Nat /\ j \in Nat
  BY DEF IsList
<1>2. Finish(f, j) = IF Whole2 THEN Min(after) ELSE j
  BY DEF Finish
<1>3. after \subseteq Nat /\ next \subseteq Nat
  BY <1>1
<1>4. after # {} => Min(after) \in after /\ \A k \in after : Min(after) <= k
  <2> HIDE DEF after
  <2> QED
    BY <1>3, MinIs
<1>5. ASSUME Finish(f, j) = i PROVE Answers(f, j, i)
  <2>1. Whole2 /\ i = Min(after)
    <3> HIDE DEF Whole2, after
    <3> QED
      BY <1>2, <1>5
  <2>2. /\ f[j].kind = "begin" /\ i \in after /\ \A k \in after : i <= k
        /\ \A k \in next : i < k
    BY <1>4, <2>1
  <2>3. i \in j + 1..n /\ f[i].kind = "finish" /\ f[i].turn = f[j].turn
    BY <2>2
  <2>4. ASSUME NEW k \in j + 1..i - 1, f[k].turn = f[j].turn
        PROVE  f[k].kind \notin {"begin", "finish"}
    <3>1. k \in j + 1..n /\ ~(i <= k) /\ ~(i < k)
      BY <1>1, <2>3
    <3>2. k \notin after /\ k \notin next
      <4> HIDE DEF after, next
      <4> QED
        BY <2>2, <3>1
    <3> QED
      BY <2>4, <3>1, <3>2
  <2> QED
    BY <2>2, <2>3, <2>4 DEF Answers
<1>6. ASSUME Answers(f, j, i) PROVE Finish(f, j) = i
  <2>1. /\ f[j].kind = "begin" /\ i \in j + 1..n
        /\ f[i].kind = "finish" /\ f[i].turn = f[j].turn
        /\ \A k \in j + 1..i - 1 : f[k].turn = f[j].turn => f[k].kind \notin {"begin", "finish"}
    BY <1>6 DEF Answers
  <2>2. i \in after
    BY <2>1
  <2>3. ASSUME NEW k \in after PROVE i <= k
    <3>1. k \in j + 1..n /\ f[k].kind = "finish" /\ f[k].turn = f[j].turn
      OBVIOUS
    <3>2. k \notin j + 1..i - 1
      BY <2>1, <3>1
    <3> QED
      BY <1>1, <2>1, <3>1, <3>2
  <2>4. ASSUME NEW k \in next PROVE i < k
    <3>1. k \in j + 1..n /\ f[k].kind = "begin" /\ f[k].turn = f[j].turn
      OBVIOUS
    <3>2. k \notin j + 1..i - 1 /\ k # i
      BY <2>1, <3>1
    <3> QED
      BY <1>1, <2>1, <3>1, <3>2
  <2>5. i = Min(after)
    <3>1. Min(after) \in after /\ Min(after) <= i
      <4> HIDE DEF after
      <4> QED
        BY <1>4, <2>2
    <3>2. i <= Min(after) /\ Min(after) \in Nat /\ i \in Nat
      <4> HIDE DEF after
      <4> QED
        BY <1>3, <2>2, <2>3, <3>1
    <3> HIDE DEF after
    <3> QED
      BY <3>1, <3>2
  <2>6. Whole2
    BY <2>1, <2>2, <2>4, <2>5
  <2> HIDE DEF Whole2, after
  <2> QED
    BY <1>2, <2>5, <2>6
<1> QED
  BY <1>5, <1>6

(* It does not change while a session goes on, *)
LEMMA SameAnswers ==
  ASSUME NEW s, NEW t, Continued(s, t), NEW j \in 1..Len(s), NEW i \in 1..Len(s)
  PROVE  Answers(s, j, i) <=> Answers(t, j, i)
<1>1. /\ Len(s) \in Nat /\ Len(t) \in Nat /\ Len(s) <= Len(t)
      /\ \A k \in 1..Len(s) : s[k] = t[k]
  BY DEF Continued, IsList
<1>2. s[i] = t[i] /\ s[j] = t[j] /\ (i \in j + 1..Len(s) <=> i \in j + 1..Len(t))
  BY <1>1
<1>3. \A k \in j + 1..i - 1 : s[k] = t[k]
  BY <1>1
<1> QED
  BY <1>2, <1>3 DEF Answers

(* nor does where an answer began. *)
LEMMA SameOrigin ==
  ASSUME NEW s, NEW t, Continued(s, t), NEW i \in 1..Len(s)
  PROVE  Origin(s, i) = Origin(t, i)
<1>1. /\ Len(s) \in Nat /\ Len(t) \in Nat /\ Len(s) <= Len(t) /\ s[i] = t[i]
      /\ IsList(s) /\ IsList(t)
  BY DEF Continued, IsList
<1>2. ASSUME NEW j \in 1..i - 1 PROVE Finish(s, j) = i <=> Finish(t, j) = i
  <2>1. j \in 1..Len(s) /\ j \in 1..Len(t) /\ i # j
    BY <1>1
  <2> QED
    BY <1>1, <2>1, FinishIs, SameAnswers
<1> DEFINE began(f) == CHOOSE j \in 1..i - 1 : Finish(f, j) = i
<1>3. began(s) = began(t)
  BY <1>2
<1>4. Origin(s, i) = IF s[i].kind = "finish" THEN began(s) ELSE i
  BY Zenon DEF Origin
<1>5. Origin(t, i) = IF t[i].kind = "finish" THEN began(t) ELSE i
  BY Zenon DEF Origin
<1> HIDE DEF began
<1> QED
  BY <1>1, <1>3, <1>4, <1>5
-----------------------------------------------------------------------------
(* What one more record makes of a table. *)
Added(new, rows, row) ==
  (\A p \in 1..Len(rows) : rows[p].id # row.id) /\ new = Append(rows, row)

Replaced(new, rows, row, q) ==
  q \in 1..Len(rows) /\ rows[q].id = row.id /\ new = [rows EXCEPT ![q] = row]

(* It is either. *)
LEMMA OneUpdate ==
  ASSUME NEW R, NEW rows \in Seq(R), NEW row \in R
  PROVE  /\ Updated(rows, row) \in Seq(R)
         /\ \/ Added(Updated(rows, row), rows, row)
            \/ \E q : Replaced(Updated(rows, row), rows, row, q)
<1> DEFINE at == {k \in DOMAIN rows : rows[k].id = row.id}
<1>1. Updated(rows, row) = IF at = {} THEN Append(rows, row) ELSE [rows EXCEPT ![Min(at)] = row]
  BY DEF Updated
<1>2. DOMAIN rows = 1..Len(rows) /\ Len(rows) \in Nat
  OBVIOUS
<1>3. CASE at = {}
  <2>1. \A p \in 1..Len(rows) : rows[p].id # row.id
    BY <1>2, <1>3
  <2>2. Updated(rows, row) = Append(rows, row)
    BY <1>1, <1>3
  <2>3. Append(rows, row) \in Seq(R)
    OBVIOUS
  <2> QED
    BY <2>1, <2>2, <2>3 DEF Added
<1>4. CASE at # {}
  <2> DEFINE q == Min(at)
  <2>1. q \in at
    <3>1. at \subseteq Nat
      BY <1>2
    <3> HIDE DEF at
    <3> QED
      BY <1>4, <3>1, MinIs
  <2>2. Updated(rows, row) = [rows EXCEPT ![q] = row]
    BY <1>1, <1>4
  <2>3. q \in 1..Len(rows) /\ rows[q].id = row.id
    BY <1>2, <2>1
  <2> HIDE DEF q, at
  <2>4. [rows EXCEPT ![q] = row] \in Seq(R)
    BY <2>3
  <2>5. Replaced(Updated(rows, row), rows, row, q)
    BY <2>2, <2>3 DEF Replaced
  <2> QED
    BY <2>2, <2>4, <2>5
<1> QED
  BY <1>3, <1>4

(* How Table goes on, record by record. *)
Tables(f, records, written) ==
  /\ f \in [0..Len(records) -> Seq(Range(records))]
  /\ Table(records, written) = f[Len(records)]
  /\ f[0] = <<>>
  /\ \A k \in 1..Len(records) :
       f[k] = IF k \in written THEN Updated(f[k - 1], records[k]) ELSE f[k - 1]

(* Which it does. *)
LEMMA Tabling ==
  ASSUME NEW records, IsList(records), NEW written
  PROVE  \E f : Tables(f, records, written)
<1> DEFINE n == Len(records)
           R == Range(records)
           V == Seq(R)
           Is(f) == f = [k \in 0..n |->
                           IF k = 0 THEN <<>>
                           ELSE IF k \in written THEN Updated(f[k - 1], records[k]) ELSE f[k - 1]]
<1>1. n \in Nat /\ (\A k \in 1..n : records[k] \in R) /\ <<>> \in V
  BY DEF IsList
<1>2. Table(records, written) = (CHOOSE f : Is(f))[n]
  BY DEF Table
<1> HIDE DEF n, R
<1>3. \E f : Is(f) /\ f \in [0..n -> V]
  <2> DEFINE step == [k \in 1..n |-> [v \in V |-> IF k \in written THEN Updated(v, records[k]) ELSE v]]
             first == <<>>
  <2>1. ASSUME NEW k \in 1..n, NEW v \in V
        PROVE  /\ step[k][v] = IF k \in written THEN Updated(v, records[k]) ELSE v
               /\ step[k][v] \in V
    <3>1. step[k][v] = IF k \in written THEN Updated(v, records[k]) ELSE v
      OBVIOUS
    <3>2. Updated(v, records[k]) \in Seq(R)
      BY <1>1, OneUpdate
    <3> QED
      BY <3>1, <3>2
  <2>2. step \in [1..n -> [V -> V]]
    <3>1. \A k \in 1..n : step[k] = [v \in V |-> step[k][v]]
      OBVIOUS
    <3>2. step = [k \in 1..n |-> step[k]]
      OBVIOUS
    <3> HIDE DEF step, V
    <3>3. \A k \in 1..n : step[k] \in [V -> V]
      BY <2>1, <3>1
    <3> QED
      BY <3>2, <3>3
  <2>3. first \in V
    BY <1>1
  <2> HIDE DEF step, V, first
  <2>4. PICK f : Iterates(f, n, V, first, step)
    BY <1>1, <2>2, <2>3, Iterated
  <2>5. f \in [0..n -> V] /\ f[0] = first /\ \A k \in 1..n : f[k] = step[k][f[k - 1]]
    BY <2>4 DEF Iterates
  <2>6. ASSUME NEW k \in 0..n
        PROVE  f[k] = IF k = 0 THEN <<>>
                      ELSE IF k \in written THEN Updated(f[k - 1], records[k]) ELSE f[k - 1]
    <3>1. CASE k = 0
      BY <2>5, <3>1 DEF first
    <3>2. CASE k # 0
      <4>1. k \in 1..n /\ k - 1 \in 0..n
        BY <1>1, <3>2
      <4>2. f[k] = step[k][f[k - 1]] /\ f[k - 1] \in V
        BY <2>5, <4>1
      <4> QED
        BY <2>1, <3>2, <4>1, <4>2
    <3> QED
      BY <3>1, <3>2
  <2>7. f = [k \in 0..n |-> f[k]]
    BY <2>5
  <2>8. Is(f)
    BY <2>6, <2>7
  <2> HIDE DEF Is
  <2> QED
    BY <2>5, <2>8
<1>4. \A f, g : Is(f) /\ Is(g) => f = g
  <2> SUFFICES ASSUME NEW f, NEW g, Is(f), Is(g) PROVE f = g
    <3> HIDE DEF Is
    <3> QED
      OBVIOUS
  <2>1. /\ f = [k \in 0..n |-> f[k]] /\ g = [k \in 0..n |-> g[k]]
    OBVIOUS
  <2>2. \A k \in 0..n :
          /\ f[k] = IF k = 0 THEN <<>>
                    ELSE IF k \in written THEN Updated(f[k - 1], records[k]) ELSE f[k - 1]
          /\ g[k] = IF k = 0 THEN <<>>
                    ELSE IF k \in written THEN Updated(g[k - 1], records[k]) ELSE g[k - 1]
    OBVIOUS
  <2> HIDE DEF Is
  <2> DEFINE S == {k \in 0..n : f[k] = g[k]}
  <2>3. 0 \in S
    BY <1>1, <2>2
  <2>4. ASSUME NEW k \in 0..n - 1, k \in S PROVE k + 1 \in S
    <3>1. k + 1 \in 0..n /\ k + 1 # 0 /\ (k + 1) - 1 = k
      BY <1>1
    <3>2. f[k] = g[k]
      BY <2>4
    <3> QED
      BY <2>2, <3>1, <3>2
  <2> HIDE DEF S
  <2>5. \A k \in 0..n : k \in S
    BY <1>1, <2>3, <2>4, Induction
  <2>6. \A k \in 0..n : f[k] = g[k]
    BY <2>5 DEF S
  <2> QED
    BY <2>1, <2>6
<1>5. PICK f : Is(f) /\ f \in [0..n -> V]
  BY <1>3
<1>6. Table(records, written) = f[n]
  <2>1. (CHOOSE g : Is(g)) = f
    <3> HIDE DEF Is
    <3> QED
      BY <1>4, <1>5
  <2> QED
    BY <1>2, <2>1
<1>7. /\ f[0] = <<>>
      /\ \A k \in 1..n : f[k] = IF k \in written THEN Updated(f[k - 1], records[k]) ELSE f[k - 1]
  <2>1. \A k \in 0..n : f[k] = IF k = 0 THEN <<>>
                    ELSE IF k \in written THEN Updated(f[k - 1], records[k]) ELSE f[k - 1]
    BY <1>5
  <2>2. 0 \in 0..n /\ \A k \in 1..n : k \in 0..n /\ k # 0
    BY <1>1
  <2> HIDE DEF Is
  <2> QED
    BY <2>1, <2>2
<1> HIDE DEF Is
<1> QED
  BY <1>5, <1>6, <1>7 DEF Tables, n, R

(* The row is the last of the first n records that was written with its id. *)
LastWritten(row, k, records, written, n) ==
  /\ k \in 1..n /\ k \in written /\ row = records[k]
  /\ \A l \in k + 1..n : l \in written => records[l].id # row.id

Tabled(rows, records, written, n) ==
  /\ IsList(rows)
  /\ \A p \in 1..Len(rows) : \E k \in 1..n : LastWritten(rows[p], k, records, written, n)
  /\ \A p, q \in 1..Len(rows) : rows[p].id = rows[q].id => p = q

(* A record that is not in the table leaves the rows of the others, *)
LEMMA StillLast ==
  ASSUME NEW n \in Nat, NEW k \in 1..n, NEW row, NEW records, NEW written,
         LastWritten(row, k, records, written, n),
         n + 1 \in written => records[n + 1].id # row.id
  PROVE  k \in 1..n + 1 /\ LastWritten(row, k, records, written, n + 1)
<1>1. /\ k \in written /\ row = records[k]
      /\ \A l \in k + 1..n : l \in written => records[l].id # row.id
  BY DEF LastWritten
<1>2. \A l \in k + 1..n + 1 : l \in k + 1..n \/ l = n + 1
  OBVIOUS
<1>3. k \in 1..n + 1
  OBVIOUS
<1> QED
  BY <1>1, <1>2, <1>3 DEF LastWritten

(* and is itself the row of its id. *)
LEMMA NowLast ==
  ASSUME NEW n \in Nat, NEW records, NEW written, n + 1 \in written
  PROVE  n + 1 \in 1..n + 1 /\ LastWritten(records[n + 1], n + 1, records, written, n + 1)
BY DEF LastWritten

(* So a table keeps its form. *)
LEMMA StillTabled ==
  ASSUME NEW n \in Nat, NEW R, NEW records, NEW written, NEW rows \in Seq(R), records[n + 1] \in R,
         Tabled(rows, records, written, n), n + 1 \in written
  PROVE  Tabled(Updated(rows, records[n + 1]), records, written, n + 1)
<1> DEFINE row == records[n + 1]
           new == Updated(rows, row)
           m == Len(rows)
<1>1. /\ \A p \in 1..m : \E k \in 1..n : LastWritten(rows[p], k, records, written, n)
      /\ \A p, q \in 1..m : rows[p].id = rows[q].id => p = q
  BY DEF Tabled
<1>2. /\ new \in Seq(R)
      /\ Added(new, rows, row) \/ \E q : Replaced(new, rows, row, q)
  <2>1. row \in R
    OBVIOUS
  <2> HIDE DEF row
  <2> QED
    BY <2>1, OneUpdate
<1>3. m \in Nat
  OBVIOUS
<1>4. ASSUME NEW p \in 1..m, rows[p].id # row.id
      PROVE  \E k \in 1..n + 1 : LastWritten(rows[p], k, records, written, n + 1)
  <2>1. PICK k \in 1..n : LastWritten(rows[p], k, records, written, n)
    BY <1>1
  <2>2. k \in 1..n + 1 /\ LastWritten(rows[p], k, records, written, n + 1)
    BY <1>4, <2>1, StillLast
  <2> QED
    BY <2>2
<1>5. \E k \in 1..n + 1 : LastWritten(row, k, records, written, n + 1)
  BY NowLast
<1>6. IsList(new)
  BY <1>2 DEF IsList, Range
<1>7. CASE Added(new, rows, row)
  <2>0. \A p \in 1..m : rows[p].id # row.id
    BY <1>7 DEF Added
  <2>1. Len(new) = m + 1 /\ (\A p \in 1..m : new[p] = rows[p]) /\ new[m + 1] = row
    BY <1>7 DEF Added
  <2> HIDE DEF new, row, m
  <2>2. \A p \in 1..m + 1 : p \in 1..m \/ p = m + 1
    BY <1>3
  <2>3. ASSUME NEW p \in 1..m + 1
        PROVE  \E k \in 1..n + 1 : LastWritten(new[p], k, records, written, n + 1)
    BY <1>4, <1>5, <2>0, <2>1, <2>2
  <2>4. ASSUME NEW p \in 1..m + 1, NEW q \in 1..m + 1, new[p].id = new[q].id PROVE p = q
    BY <1>1, <2>0, <2>1, <2>2, <2>4
  <2>5. Tabled(new, records, written, n + 1)
    BY <1>6, <2>1, <2>3, <2>4 DEF Tabled
  <2> QED
    BY <2>5 DEF new, row
<1>8. CASE \E q : Replaced(new, rows, row, q)
  <2>1. PICK q : q \in 1..m /\ rows[q].id = row.id /\ new = [rows EXCEPT ![q] = row]
    BY <1>8 DEF Replaced
  <2>2. Len(new) = m /\ (\A p \in 1..m : p # q => new[p] = rows[p]) /\ new[q] = row
    BY <2>1
  <2> HIDE DEF new, row, m
  <2>3. \A p \in 1..m : new[p].id = rows[p].id
    BY <2>1, <2>2
  <2>4. ASSUME NEW p \in 1..m
        PROVE  \E k \in 1..n + 1 : LastWritten(new[p], k, records, written, n + 1)
    <3>1. CASE p = q
      BY <1>5, <2>2, <3>1
    <3>2. CASE p # q
      <4>1. rows[p].id # row.id /\ new[p] = rows[p]
        BY <1>1, <2>1, <2>2, <3>2
      <4> QED
        BY <1>4, <4>1
    <3> QED
      BY <3>1, <3>2
  <2>5. Tabled(new, records, written, n + 1)
    BY <1>1, <1>6, <2>2, <2>3, <2>4 DEF Tabled
  <2> QED
    BY <2>5 DEF new, row
<1> QED
  BY <1>2, <1>7, <1>8

(* What a table is in the end. *)
LEMMA TableIsTabled ==
  ASSUME NEW records, IsList(records), NEW written
  PROVE  Tabled(Table(records, written), records, written, Len(records))
<1> DEFINE n == Len(records)
           R == Range(records)
<1>1. n \in Nat /\ \A k \in 1..n : records[k] \in R
  BY DEF IsList
<1>2. PICK f : Tables(f, records, written)
  BY Tabling
<1>3. /\ f \in [0..n -> Seq(R)] /\ Table(records, written) = f[n] /\ f[0] = <<>>
      /\ \A k \in 1..n : f[k] = IF k \in written THEN Updated(f[k - 1], records[k]) ELSE f[k - 1]
  BY <1>2 DEF Tables
<1> HIDE DEF n, R
<1> DEFINE S == {k \in 0..n : Tabled(f[k], records, written, k)}
<1>4. 0 \in S
  <2>1. IsList(f[0]) /\ Len(f[0]) = 0
    BY <1>3, WrittenOut
  <2>2. Tabled(f[0], records, written, 0)
    BY <2>1 DEF Tabled
  <2> QED
    BY <1>1, <2>2
<1>5. ASSUME NEW k \in 0..n - 1, k \in S PROVE k + 1 \in S
  <2>1. /\ k \in Nat /\ k + 1 \in 1..n /\ (k + 1) - 1 = k /\ k \in 0..n /\ k + 1 \in 0..n
        /\ k \notin 1..0
    BY <1>1
  <2>2. /\ f[k] \in Seq(R) /\ records[k + 1] \in R /\ Tabled(f[k], records, written, k)
        /\ f[k + 1] = IF k + 1 \in written THEN Updated(f[k], records[k + 1]) ELSE f[k]
    BY <1>1, <1>3, <1>5, <2>1
  <2>3. CASE k + 1 \in written
    <3>1. Tabled(Updated(f[k], records[k + 1]), records, written, k + 1)
      BY <2>1, <2>2, <2>3, StillTabled
    <3> QED
      BY <2>1, <2>2, <2>3, <3>1
  <2>4. CASE k + 1 \notin written
    <3>1. ASSUME NEW p \in 1..Len(f[k])
          PROVE  \E l \in 1..k + 1 : LastWritten(f[k][p], l, records, written, k + 1)
      <4>1. PICK l \in 1..k : LastWritten(f[k][p], l, records, written, k)
        BY <2>2 DEF Tabled
      <4>2. l \in 1..k + 1 /\ LastWritten(f[k][p], l, records, written, k + 1)
        BY <2>1, <2>4, <4>1, StillLast
      <4> QED
        BY <4>2
    <3>2. f[k + 1] = f[k]
      BY <2>2, <2>4
    <3>3. Tabled(f[k + 1], records, written, k + 1)
      BY <2>2, <3>1, <3>2 DEF Tabled
    <3> QED
      BY <2>1, <3>3
  <2> QED
    BY <2>3, <2>4
<1> HIDE DEF S
<1>6. \A k \in 0..n : k \in S
  BY <1>1, <1>4, <1>5, Induction
<1>7. Tabled(f[n], records, written, n)
  BY <1>1, <1>6 DEF S
<1> QED
  BY <1>3, <1>7 DEF n

(* Two tables have the same ids, so far. *)
SameIds(rows, others, m) == \A p \in 1..m : rows[p].id = others[p].id

(* What an update does to the length and to the ids. *)
LEMMA UpdateIds ==
  ASSUME NEW R, NEW rows \in Seq(R), NEW row \in R
  PROVE  /\ Updated(rows, row) \in Seq(R)
         /\ SameIds(Updated(rows, row), rows, Len(rows))
         /\ \/ /\ \A p \in 1..Len(rows) : rows[p].id # row.id
               /\ Len(Updated(rows, row)) = Len(rows) + 1
               /\ Updated(rows, row)[Len(rows) + 1] = row
            \/ /\ \E p \in 1..Len(rows) : rows[p].id = row.id
               /\ Len(Updated(rows, row)) = Len(rows)
<1> DEFINE new == Updated(rows, row)
<1>1. new \in Seq(R) /\ (Added(new, rows, row) \/ \E q : Replaced(new, rows, row, q))
  BY OneUpdate
<1> HIDE DEF new
<1>2. CASE Added(new, rows, row)
  <2>1. /\ \A p \in 1..Len(rows) : rows[p].id # row.id
        /\ new = Append(rows, row)
    BY <1>2 DEF Added
  <2>2. /\ Len(new) = Len(rows) + 1 /\ new[Len(rows) + 1] = row
        /\ \A p \in 1..Len(rows) : new[p] = rows[p]
    BY <2>1
  <2> QED
    BY <1>1, <2>1, <2>2 DEF new, SameIds
<1>3. CASE \E q : Replaced(new, rows, row, q)
  <2>1. PICK q : q \in 1..Len(rows) /\ rows[q].id = row.id /\ new = [rows EXCEPT ![q] = row]
    BY <1>3 DEF Replaced
  <2>2. /\ Len(new) = Len(rows) /\ new[q] = row
        /\ \A p \in 1..Len(rows) : p # q => new[p] = rows[p]
    BY <2>1
  <2>3. \A p \in 1..Len(rows) : new[p].id = rows[p].id
    BY <2>1, <2>2
  <2> QED
    BY <1>1, <2>1, <2>2, <2>3 DEF new, SameIds
<1> QED
  BY <1>1, <1>2, <1>3

(* Tables of the same ids stay so, *)
LEMMA SameIdsUpdated ==
  ASSUME NEW R, NEW Q, NEW rows \in Seq(R), NEW others \in Seq(Q),
         Len(rows) = Len(others), SameIds(rows, others, Len(rows)),
         NEW row \in R, NEW other \in Q, row.id = other.id
  PROVE  /\ Len(Updated(rows, row)) = Len(Updated(others, other))
         /\ SameIds(Updated(rows, row), Updated(others, other), Len(Updated(rows, row)))
<1> DEFINE new == Updated(rows, row)
           more == Updated(others, other)
           m == Len(rows)
<1>1. m \in Nat /\ m = Len(others) /\ \A p \in 1..m : rows[p].id = others[p].id
  BY DEF SameIds
<1>2. /\ \A p \in 1..m : new[p].id = rows[p].id
      /\ \/ /\ \A p \in 1..m : rows[p].id # row.id
            /\ Len(new) = m + 1 /\ new[m + 1] = row
         \/ (\E p \in 1..m : rows[p].id = row.id) /\ Len(new) = m
  <2>1. /\ SameIds(new, rows, m)
        /\ \/ /\ \A p \in 1..m : rows[p].id # row.id
              /\ Len(new) = m + 1 /\ new[m + 1] = row
           \/ (\E p \in 1..m : rows[p].id = row.id) /\ Len(new) = m
    BY UpdateIds
  <2> QED
    BY <2>1 DEF SameIds
<1>3. /\ \A p \in 1..m : more[p].id = others[p].id
      /\ \/ /\ \A p \in 1..m : others[p].id # other.id
            /\ Len(more) = m + 1 /\ more[m + 1] = other
         \/ (\E p \in 1..m : others[p].id = other.id) /\ Len(more) = m
  BY <1>1, UpdateIds DEF SameIds
<1> HIDE DEF new, more, m
<1>4. Len(new) = Len(more)
  BY <1>1, <1>2, <1>3
<1>5. \A p \in 1..m : new[p].id = more[p].id
  BY <1>1, <1>2, <1>3
<1>6. CASE Len(new) = m + 1
  <2>1. new[m + 1] = row /\ more[m + 1] = other
    BY <1>1, <1>2, <1>3, <1>4, <1>6
  <2>2. \A p \in 1..m + 1 : p \in 1..m \/ p = m + 1
    BY <1>1
  <2> QED
    BY <1>4, <1>5, <1>6, <2>1, <2>2 DEF new, more, SameIds
<1>7. CASE Len(new) = m
  BY <1>4, <1>5, <1>7 DEF new, more, SameIds
<1> QED
  BY <1>2, <1>6, <1>7

(* and a table keeps its ids while it grows with its records. *)
LEMMA TableGrows ==
  ASSUME NEW s, NEW t, IsList(s), IsList(t), Len(s) <= Len(t), NEW written, NEW later,
         \A i \in 1..Len(s) : s[i].id = t[i].id /\ (i \in written <=> i \in later)
  PROVE  /\ Grows(Len(Table(s, written)), Len(Table(t, later)))
         /\ SameIds(Table(s, written), Table(t, later), Len(Table(s, written)))
<1> DEFINE m == Len(s)
           n == Len(t)
           R == Range(s)
           Q == Range(t)
<1>1. /\ m \in Nat /\ n \in Nat /\ m <= n
      /\ (\A k \in 1..m : s[k] \in R) /\ (\A k \in 1..n : t[k] \in Q)
  BY DEF IsList
<1>2. PICK f : Tables(f, s, written)
  BY Tabling
<1>3. PICK g : Tables(g, t, later)
  BY Tabling
<1>4. /\ f \in [0..m -> Seq(R)] /\ Table(s, written) = f[m] /\ f[0] = <<>>
      /\ \A k \in 1..m : f[k] = IF k \in written THEN Updated(f[k - 1], s[k]) ELSE f[k - 1]
  BY <1>2 DEF Tables
<1>5. /\ g \in [0..n -> Seq(Q)] /\ Table(t, later) = g[n] /\ g[0] = <<>>
      /\ \A k \in 1..n : g[k] = IF k \in later THEN Updated(g[k - 1], t[k]) ELSE g[k - 1]
  BY <1>3 DEF Tables
<1>6. \A i \in 1..m : i \in 1..n /\ s[i].id = t[i].id /\ (i \in written <=> i \in later)
  BY <1>1
<1> HIDE DEF m, n, R, Q
<1>7. Len(f[m]) = Len(g[m]) /\ SameIds(f[m], g[m], Len(f[m]))
  <2> DEFINE S == {k \in 0..m : Len(f[k]) = Len(g[k]) /\ SameIds(f[k], g[k], Len(f[k]))}
  <2>1. 0 \in S
    BY <1>1, <1>4, <1>5 DEF SameIds
  <2>2. ASSUME NEW k \in 0..m - 1, k \in S PROVE k + 1 \in S
    <3>1. /\ k \in 0..m /\ k + 1 \in 1..m /\ k + 1 \in 0..m /\ (k + 1) - 1 = k
          /\ k \in 0..n /\ k + 1 \in 1..n
      BY <1>1
    <3>2. f[k] \in Seq(R) /\ g[k] \in Seq(Q) /\ s[k + 1] \in R /\ t[k + 1] \in Q
      BY <1>1, <1>4, <1>5, <3>1
    <3>3. /\ f[k + 1] = IF k + 1 \in written THEN Updated(f[k], s[k + 1]) ELSE f[k]
          /\ g[k + 1] = IF k + 1 \in later THEN Updated(g[k], t[k + 1]) ELSE g[k]
          /\ s[k + 1].id = t[k + 1].id /\ (k + 1 \in written <=> k + 1 \in later)
      BY <1>4, <1>5, <1>6, <3>1
    <3>4. Len(f[k]) = Len(g[k]) /\ SameIds(f[k], g[k], Len(f[k]))
      BY <2>2
    <3>5. Len(f[k + 1]) = Len(g[k + 1]) /\ SameIds(f[k + 1], g[k + 1], Len(f[k + 1]))
      <4>1. /\ Len(Updated(f[k], s[k + 1])) = Len(Updated(g[k], t[k + 1]))
            /\ SameIds(Updated(f[k], s[k + 1]), Updated(g[k], t[k + 1]), Len(Updated(f[k], s[k + 1])))
        BY <3>2, <3>3, <3>4, SameIdsUpdated
      <4>2. CASE k + 1 \in written
        BY <3>3, <4>1, <4>2
      <4>3. CASE k + 1 \notin written
        BY <3>3, <3>4, <4>3
      <4> QED
        BY <4>2, <4>3
    <3> QED
      BY <3>1, <3>5
  <2> HIDE DEF S
  <2>3. \A k \in 0..m : k \in S
    BY <1>1, <2>1, <2>2, Induction
  <2> QED
    BY <1>1, <2>3 DEF S
<1>8. Len(f[m]) \in Nat /\ Len(g[n]) \in Nat /\ Len(g[m]) \in Nat
  <2>1. m \in 0..m /\ m \in 0..n /\ n \in 0..n
    BY <1>1
  <2> QED
    BY <1>4, <1>5, <2>1
<1>9. Len(g[m]) <= Len(g[n]) /\ SameIds(g[m], g[n], Len(g[m]))
  <2> DEFINE S == {k \in m..n : Len(g[m]) <= Len(g[k]) /\ SameIds(g[m], g[k], Len(g[m]))}
  <2>1. m \in S
    BY <1>1, <1>8 DEF SameIds
  <2>2. ASSUME NEW k \in m..n - 1, k \in S PROVE k + 1 \in S
    <3>1. /\ k \in 0..n /\ k + 1 \in 1..n /\ k + 1 \in m..n /\ (k + 1) - 1 = k
      BY <1>1
    <3>2. g[k] \in Seq(Q) /\ t[k + 1] \in Q /\ Len(g[k]) \in Nat
      BY <1>1, <1>5, <3>1
    <3>3. g[k + 1] = IF k + 1 \in later THEN Updated(g[k], t[k + 1]) ELSE g[k]
      BY <1>5, <3>1
    <3>4. Len(g[m]) <= Len(g[k]) /\ \A p \in 1..Len(g[m]) : g[m][p].id = g[k][p].id
      BY <2>2 DEF SameIds
    <3>5. /\ \A p \in 1..Len(g[k]) : g[k + 1][p].id = g[k][p].id
          /\ Len(g[k + 1]) = Len(g[k]) \/ Len(g[k + 1]) = Len(g[k]) + 1
      <4>1. CASE k + 1 \in later
        <5>1. /\ SameIds(Updated(g[k], t[k + 1]), g[k], Len(g[k]))
              /\ \/ Len(Updated(g[k], t[k + 1])) = Len(g[k])
                 \/ Len(Updated(g[k], t[k + 1])) = Len(g[k]) + 1
          BY <3>2, UpdateIds
        <5> QED
          BY <3>3, <4>1, <5>1 DEF SameIds
      <4>2. CASE k + 1 \notin later
        BY <3>3, <4>2
      <4> QED
        BY <4>1, <4>2
    <3>6. \A p \in 1..Len(g[m]) : p \in 1..Len(g[k])
      BY <1>8, <3>2, <3>4
    <3>7. Len(g[m]) <= Len(g[k + 1])
      BY <1>8, <3>2, <3>4, <3>5
    <3>8. \A p \in 1..Len(g[m]) : g[m][p].id = g[k + 1][p].id
      BY <3>4, <3>5, <3>6
    <3> QED
      BY <3>1, <3>7, <3>8 DEF SameIds
  <2> HIDE DEF S
  <2>3. \A k \in m..n : k \in S
    BY <1>1, <2>1, <2>2, Induction
  <2> QED
    BY <1>1, <2>3 DEF S
<1>10. Grows(Len(f[m]), Len(g[n]))
  BY <1>7, <1>8, <1>9 DEF Grows
<1>11. SameIds(f[m], g[n], Len(f[m]))
  BY <1>7, <1>9 DEF SameIds
<1> QED
  BY <1>4, <1>5, <1>10, <1>11

(* The row p of two tables is the last record of its id, in either. *)
LastOfBoth(s, t, written, later, p) ==
  \E k \in 1..Len(s), l \in 1..Len(t) :
     /\ k \in written /\ l \in later /\ k <= l /\ s[k].id = t[l].id
     /\ Table(s, written)[p] = s[k] /\ Table(t, later)[p] = t[l]

(* So are the rows of a table, while it grows. *)
LEMMA RowOfEach ==
  ASSUME NEW s, NEW t, IsList(s), IsList(t), Len(s) <= Len(t), NEW written, NEW later,
         \A i \in 1..Len(s) : s[i].id = t[i].id /\ (i \in written <=> i \in later),
         NEW p \in 1..Len(Table(s, written))
  PROVE  LastOfBoth(s, t, written, later, p)
<1> DEFINE m == Len(s)
           n == Len(t)
           rows == Table(s, written)
           more == Table(t, later)
<1>1. m \in Nat /\ n \in Nat /\ m <= n
  BY DEF IsList
<1>2. Grows(Len(rows), Len(more)) /\ SameIds(rows, more, Len(rows))
  BY TableGrows
<1>3. Tabled(rows, s, written, m) /\ Tabled(more, t, later, n)
  BY TableIsTabled
<1>4. \A i \in 1..m : i \in 1..n /\ s[i].id = t[i].id /\ (i \in written <=> i \in later)
  BY <1>1
<1> HIDE DEF m, n, rows, more
<1>5. p \in 1..Len(rows) /\ p \in 1..Len(more) /\ rows[p].id = more[p].id
  BY <1>2 DEF Grows, SameIds, rows
<1>6. PICK k \in 1..m : LastWritten(rows[p], k, s, written, m)
  BY <1>3, <1>5 DEF Tabled
<1>7. PICK l \in 1..n : LastWritten(more[p], l, t, later, n)
  BY <1>3, <1>5 DEF Tabled
<1>8. k \in written /\ rows[p] = s[k]
  BY <1>6 DEF LastWritten
<1>9. /\ l \in later /\ more[p] = t[l]
      /\ \A j \in l + 1..n : j \in later => t[j].id # more[p].id
  BY <1>7 DEF LastWritten
<1>10. k \in later /\ k \in 1..n /\ t[k].id = more[p].id
  BY <1>4, <1>5, <1>8
<1>11. k \notin l + 1..n
  BY <1>9, <1>10
<1>12. k <= l
  BY <1>1, <1>10, <1>11
<1>13. s[k].id = t[l].id
  BY <1>5, <1>8, <1>9
<1> QED
  BY <1>8, <1>9, <1>12, <1>13 DEF m, n, rows, more, LastOfBoth
-----------------------------------------------------------------------------
(* What is made of a session fact by fact is as long as the session. *)
LEMMA OneForEach ==
  ASSUME NEW f, IsList(f), NEW list, list = [i \in DOMAIN f |-> list[i]]
  PROVE  IsList(list) /\ Len(list) = Len(f) /\ DOMAIN f = 1..Len(f)
<1>1. Len(f) \in Nat /\ DOMAIN f = 1..Len(f)
  BY DEF IsList
<1>2. DOMAIN list = 1..Len(f) /\ list = [i \in 1..Len(f) |-> list[i]]
  BY <1>1
<1> HIDE DEF IsList
<1> QED
  BY <1>1, <1>2, Numbered

(* Lists that are made of a session, fact by fact, grow with it. *)
LEMMA FlattenedAlong ==
  ASSUME NEW s, NEW t, Continued(s, t), NEW few, NEW many,
         IsList(few), IsList(many), Len(few) = Len(s), Len(many) = Len(t),
         \A i \in 1..Len(s) : IsList(few[i]), \A i \in 1..Len(t) : IsList(many[i]),
         \A i \in 1..Len(s) : s[i] = t[i] => Len(few[i]) = Len(many[i])
  PROVE  Grows(Len(FlattenSeq(few)), Len(FlattenSeq(many)))
<1>1. /\ IsList(few) /\ IsList(many) /\ Len(few) <= Len(many)
      /\ \A i \in 1..Len(many) : IsList(many[i])
  BY DEF Continued
<1>2. ASSUME NEW i \in 1..Len(few) PROVE IsList(few[i]) /\ Len(few[i]) <= Len(many[i])
  <2>1. IsList(few[i]) /\ Len(few[i]) = Len(many[i])
    BY DEF Continued
  <2>2. Len(few[i]) \in Nat
    BY <2>1 DEF IsList
  <2> QED
    BY <2>1, <2>2
<1> QED
  BY <1>1, <1>2, FlattenedGrows

(* Some logs have a record for every fact; a document counts as one. *)
LEMMA RecordCounts ==
  ASSUME NEW f, IsList(f)
  PROVE  /\ PiEventCount(PiLog(f)) = Len(f) /\ QwenEventCount(QwenLog(f)) = Len(f)
         /\ ClaudeEventCount(ClaudeLog(f)) = Len(f) /\ PlandexEventCount(PlandexLog(f)) = Len(f)
         /\ VibeEventCount(VibeLog(f)) = Len(f) /\ CursorEventCount(CursorLog(f)) = Len(f)
         /\ GeminiEventCount(GeminiLog(f)) = Len(f) /\ GeminiEventCount(GeminiDocument(f)) = 1
<1>1. PiEventCount(PiLog(f)) = Len(f)
  BY DEF PiEventCount, PiLog, Records, IsList
<1>2. QwenEventCount(QwenLog(f)) = Len(f)
  BY DEF QwenEventCount, QwenLog, Records, IsList
<1>3. ClaudeEventCount(ClaudeLog(f)) = Len(f)
  BY DEF ClaudeEventCount, ClaudeLog, Records, IsList
<1>4. PlandexEventCount(PlandexLog(f)) = Len(f)
  BY DEF PlandexEventCount, PlandexLog, Records, IsList
<1>5. VibeEventCount(VibeLog(f)) = Len(f)
  <2> DEFINE messages == VibeLog(f).messages
  <2>1. messages = [i \in DOMAIN f |-> messages[i]]
    BY DEF VibeLog, Records
  <2> HIDE DEF messages
  <2>2. Len(messages) = Len(f)
    BY <2>1, OneForEach
  <2> QED
    BY <2>2 DEF VibeEventCount, messages
<1>6. CursorEventCount(CursorLog(f)) = Len(f)
  BY DEF CursorEventCount, CursorLog, Records, IsList
<1>7. GeminiEventCount(GeminiLog(f)) = Len(f)
  BY DEF GeminiEventCount, GeminiLog, Records, IsList
<1>8. GeminiEventCount(GeminiDocument(f)) = 1
  BY DEF GeminiEventCount, GeminiDocument
<1> QED
  BY <1>1, <1>2, <1>3, <1>4, <1>5, <1>6, <1>7, <1>8

(* The events of Codex grow with the session. *)
LEMMA CodexGrows ==
  ASSUME NEW s, NEW t, Continued(s, t)
  PROVE  Grows(CodexEventCount(CodexLog(s)), CodexEventCount(CodexLog(t)))
<1> DEFINE lists(f) == [i \in DOMAIN f |-> CodexEvents(f, i)]
           length(fact) == IF fact.kind \in {"ask", "answer"} THEN 2 ELSE 1
<1>1. ASSUME NEW f, NEW i
      PROVE  IsList(CodexEvents(f, i)) /\ Len(CodexEvents(f, i)) = length(f[i])
  <2>1. \/ length(f[i]) = 1 /\ \E a : CodexEvents(f, i) = <<a>>
        \/ length(f[i]) = 2 /\ \E a, b : CodexEvents(f, i) = <<a, b>>
    BY Zenon DEF CodexEvents
  <2> QED
    BY <2>1, WrittenOut
<1>2. ASSUME NEW f, IsList(f)
      PROVE  /\ IsList(lists(f)) /\ Len(lists(f)) = Len(f)
             /\ CodexEventCount(CodexLog(f)) = Len(FlattenSeq(lists(f)))
             /\ \A i \in 1..Len(f) : IsList(lists(f)[i]) /\ Len(lists(f)[i]) = length(f[i])
  <2>1. lists(f) = [i \in DOMAIN f |-> lists(f)[i]] /\ \A i \in DOMAIN f : lists(f)[i] = CodexEvents(f, i)
    OBVIOUS
  <2>2. CodexEventCount(CodexLog(f)) = Len(FlattenSeq(lists(f)))
    BY DEF CodexEventCount, CodexLog, Records
  <2> HIDE DEF lists, length
  <2> QED
    BY <1>1, <1>2, <2>1, <2>2, OneForEach
<1> HIDE DEF lists, length
<1>3. IsList(s) /\ IsList(t) /\ \A i \in 1..Len(s) : i \in 1..Len(t)
  BY DEF Continued, IsList
<1>4. \A i \in 1..Len(s) : s[i] = t[i] => Len(lists(s)[i]) = Len(lists(t)[i])
  BY <1>2, <1>3
<1>5. Grows(Len(FlattenSeq(lists(s))), Len(FlattenSeq(lists(t))))
  BY <1>2, <1>3, <1>4, FlattenedAlong
<1> QED
  BY <1>2, <1>3, <1>5


(* What the facts of a session are, *)
Kinds == {"ask", "answer", "begin", "finish", "advised", "again", "extra", "side", "fail",
          "compact", "note", "close", "rewind"}

(* and of which kinds a tool writes. *)
OfTool(f, traits) == \A i \in 1..Len(f) : f[i].kind \in traits \cap Kinds

(* The events of Copilot grow with the session. *)
LEMMA CopilotGrows ==
  ASSUME NEW s, NEW t, Continued(s, t), OfTool(s, CopilotTraits), OfTool(t, CopilotTraits)
  PROVE  Grows(CopilotEventCount(CopilotLog(s)), CopilotEventCount(CopilotLog(t)))
<1> DEFINE lists(f) == [i \in DOMAIN f |-> CopilotEvents(f, i)]
           length(fact) == CASE fact.kind = "side" -> 3
                             [] fact.kind = "answer" -> 2
                             [] OTHER -> 1
<1>1. ASSUME NEW f, NEW i, f[i].kind \in CopilotTraits \cap Kinds
      PROVE  IsList(CopilotEvents(f, i)) /\ Len(CopilotEvents(f, i)) = length(f[i])
  <2>1. \/ length(f[i]) = 1 /\ \E a : CopilotEvents(f, i) = <<a>>
        \/ length(f[i]) = 2 /\ \E a, b : CopilotEvents(f, i) = <<a, b>>
        \/ length(f[i]) = 3 /\ \E a, b, c : CopilotEvents(f, i) = <<a, b, c>>
    <3>1. f[i].kind \in {"ask", "answer", "again", "side", "compact", "close"}
      BY <1>1 DEF CopilotTraits, Kinds
    <3>2. CASE f[i].kind = "ask"
      BY <3>2, Zenon DEF CopilotEvents
    <3>3. CASE f[i].kind = "answer"
      BY <3>3, Zenon DEF CopilotEvents
    <3>4. CASE f[i].kind = "again"
      BY <3>4, Zenon DEF CopilotEvents
    <3>5. CASE f[i].kind = "side"
      BY <3>5, Zenon DEF CopilotEvents
    <3>6. CASE f[i].kind = "compact"
      BY <3>6, Zenon DEF CopilotEvents
    <3>7. CASE f[i].kind = "close"
      BY <3>7, Zenon DEF CopilotEvents
    <3> QED
      BY <3>1, <3>2, <3>3, <3>4, <3>5, <3>6, <3>7
  <2> QED
    BY <2>1, WrittenOut
<1>2. ASSUME NEW f, IsList(f), OfTool(f, CopilotTraits)
      PROVE  /\ IsList(lists(f)) /\ Len(lists(f)) = Len(f)
             /\ CopilotEventCount(CopilotLog(f)) = Len(FlattenSeq(lists(f)))
             /\ \A i \in 1..Len(f) : IsList(lists(f)[i]) /\ Len(lists(f)[i]) = length(f[i])
  <2>1. lists(f) = [i \in DOMAIN f |-> lists(f)[i]] /\ \A i \in DOMAIN f : lists(f)[i] = CopilotEvents(f, i)
    OBVIOUS
  <2>2. CopilotEventCount(CopilotLog(f)) = Len(FlattenSeq(lists(f)))
    BY DEF CopilotEventCount, CopilotLog, Records
  <2>3. \A i \in 1..Len(f) : f[i].kind \in CopilotTraits \cap Kinds
    BY <1>2 DEF OfTool
  <2> HIDE DEF lists, length
  <2> QED
    BY <1>1, <1>2, <2>1, <2>2, <2>3, OneForEach
<1> HIDE DEF lists, length
<1>3. IsList(s) /\ IsList(t) /\ \A i \in 1..Len(s) : i \in 1..Len(t)
  BY DEF Continued, IsList
<1>4. \A i \in 1..Len(s) : s[i] = t[i] => Len(lists(s)[i]) = Len(lists(t)[i])
  BY <1>2, <1>3
<1>5. Grows(Len(FlattenSeq(lists(s))), Len(FlattenSeq(lists(t))))
  BY <1>2, <1>3, <1>4, FlattenedAlong
<1> QED
  BY <1>2, <1>3, <1>5

(* The events of Kimi grow with the session. *)
LEMMA KimiGrows ==
  ASSUME NEW s, NEW t, Continued(s, t), OfTool(s, KimiTraits), OfTool(t, KimiTraits)
  PROVE  Grows(KimiEventCount(KimiLog(s)), KimiEventCount(KimiLog(t)))
<1> DEFINE lists(f) == [i \in DOMAIN f |-> KimiEvents(f, i)]
           length(fact) == IF fact.kind = "answer" THEN 2 ELSE 1
<1>1. ASSUME NEW f, NEW i, f[i].kind \in KimiTraits \cap Kinds
      PROVE  IsList(KimiEvents(f, i)) /\ Len(KimiEvents(f, i)) = length(f[i])
  <2>1. \/ length(f[i]) = 1 /\ \E a : KimiEvents(f, i) = <<a>>
        \/ length(f[i]) = 2 /\ \E a, b : KimiEvents(f, i) = <<a, b>>
    <3>1. f[i].kind \in {"ask", "answer", "fail", "compact", "note"}
      BY <1>1 DEF KimiTraits, Kinds
    <3>2. CASE f[i].kind = "ask"
      BY <3>2, Zenon DEF KimiEvents
    <3>3. CASE f[i].kind = "answer"
      BY <3>3, Zenon DEF KimiEvents
    <3>4. CASE f[i].kind = "fail"
      BY <3>4, Zenon DEF KimiEvents
    <3>5. CASE f[i].kind = "compact"
      BY <3>5, Zenon DEF KimiEvents
    <3>6. CASE f[i].kind = "note"
      BY <3>6, Zenon DEF KimiEvents
    <3> QED
      BY <3>1, <3>2, <3>3, <3>4, <3>5, <3>6
  <2> QED
    BY <2>1, WrittenOut
<1>2. ASSUME NEW f, IsList(f), OfTool(f, KimiTraits)
      PROVE  /\ IsList(lists(f)) /\ Len(lists(f)) = Len(f)
             /\ KimiEventCount(KimiLog(f)) = Len(FlattenSeq(lists(f)))
             /\ \A i \in 1..Len(f) : IsList(lists(f)[i]) /\ Len(lists(f)[i]) = length(f[i])
  <2>1. lists(f) = [i \in DOMAIN f |-> lists(f)[i]] /\ \A i \in DOMAIN f : lists(f)[i] = KimiEvents(f, i)
    OBVIOUS
  <2>2. KimiEventCount(KimiLog(f)) = Len(FlattenSeq(lists(f)))
    BY DEF KimiEventCount, KimiLog, Records
  <2>3. \A i \in 1..Len(f) : f[i].kind \in KimiTraits \cap Kinds
    BY <1>2 DEF OfTool
  <2> HIDE DEF lists, length
  <2> QED
    BY <1>1, <1>2, <2>1, <2>2, <2>3, OneForEach
<1> HIDE DEF lists, length
<1>3. IsList(s) /\ IsList(t) /\ \A i \in 1..Len(s) : i \in 1..Len(t)
  BY DEF Continued, IsList
<1>4. \A i \in 1..Len(s) : s[i] = t[i] => Len(lists(s)[i]) = Len(lists(t)[i])
  BY <1>2, <1>3
<1>5. Grows(Len(FlattenSeq(lists(s))), Len(FlattenSeq(lists(t))))
  BY <1>2, <1>3, <1>4, FlattenedAlong
<1> QED
  BY <1>2, <1>3, <1>5


(* The events of OpenHands grow with the session. *)
LEMMA OpenHandsGrows ==
  ASSUME NEW s, NEW t, Continued(s, t)
  PROVE  Grows(OpenHandsEventCount(OpenHandsLog(s)), OpenHandsEventCount(OpenHandsLog(t)))
<1> DEFINE lists(f) == [i \in DOMAIN f |-> OpenHandsEvents(f, i)]
           length(fact) == CASE fact.kind = "answer" -> IF fact.ok THEN 1 ELSE 2
                             [] fact.kind \in {"ask", "again", "compact", "fail"} -> 1
                             [] OTHER -> 0
<1>1. ASSUME NEW f, NEW i
      PROVE  IsList(OpenHandsEvents(f, i)) /\ Len(OpenHandsEvents(f, i)) = length(f[i])
  <2>1. CASE f[i].kind = "answer"
    <3>1. \/ length(f[i]) = 1 /\ \E a : OpenHandsEvents(f, i) = <<a>> \o <<>>
          \/ length(f[i]) = 2 /\ \E a, b : OpenHandsEvents(f, i) = <<a>> \o <<b>>
      BY <2>1, Zenon DEF OpenHandsEvents
    <3>2. ASSUME NEW a PROVE IsList(<<a>> \o <<>>) /\ Len(<<a>> \o <<>>) = 1
      BY WrittenOut, Joined
    <3>3. ASSUME NEW a, NEW b PROVE IsList(<<a>> \o <<b>>) /\ Len(<<a>> \o <<b>>) = 2
      <4>1. IsList(<<a>>) /\ Len(<<a>>) = 1 /\ IsList(<<b>>) /\ Len(<<b>>) = 1
        BY WrittenOut
      <4>2. IsList(<<a>> \o <<b>>) /\ Len(<<a>> \o <<b>>) = Len(<<a>>) + Len(<<b>>)
        BY <4>1, Joined
      <4> QED
        BY <4>1, <4>2
    <3> HIDE DEF length
    <3> QED
      BY <3>1, <3>2, <3>3
  <2>2. CASE f[i].kind # "answer"
    <3>1. \/ length(f[i]) = 0 /\ OpenHandsEvents(f, i) = <<>>
          \/ length(f[i]) = 1 /\ \E a : OpenHandsEvents(f, i) = <<a>>
      <4>1. CASE f[i].kind \in {"ask", "again", "compact", "fail"}
        BY <2>2, <4>1, Zenon DEF OpenHandsEvents
      <4>2. CASE f[i].kind \notin {"ask", "again", "compact", "fail"}
        BY <2>2, <4>2, Zenon DEF OpenHandsEvents
      <4> QED
        BY <4>1, <4>2
    <3> QED
      BY <3>1, WrittenOut
  <2> QED
    BY <2>1, <2>2
<1>2. ASSUME NEW f, IsList(f)
      PROVE  /\ IsList(lists(f)) /\ Len(lists(f)) = Len(f)
             /\ OpenHandsEventCount(OpenHandsLog(f)) = Len(FlattenSeq(lists(f)))
             /\ \A i \in 1..Len(f) : IsList(lists(f)[i]) /\ Len(lists(f)[i]) = length(f[i])
  <2>1. lists(f) = [i \in DOMAIN f |-> lists(f)[i]] /\ \A i \in DOMAIN f : lists(f)[i] = OpenHandsEvents(f, i)
    OBVIOUS
  <2>2. OpenHandsEventCount(OpenHandsLog(f)) = Len(FlattenSeq(lists(f)))
    BY DEF OpenHandsEventCount, OpenHandsLog, Records
  <2> HIDE DEF lists, length
  <2> QED
    BY <1>1, <1>2, <2>1, <2>2, OneForEach
<1> HIDE DEF lists, length
<1>3. IsList(s) /\ IsList(t) /\ \A i \in 1..Len(s) : i \in 1..Len(t)
  BY DEF Continued, IsList
<1>4. \A i \in 1..Len(s) : s[i] = t[i] => Len(lists(s)[i]) = Len(lists(t)[i])
  BY <1>2, <1>3
<1>5. Grows(Len(FlattenSeq(lists(s))), Len(FlattenSeq(lists(t))))
  BY <1>2, <1>3, <1>4, FlattenedAlong
<1> QED
  BY <1>2, <1>3, <1>5

(* The updates and the events of Grok grow with the session. *)
LEMMA GrokGrows ==
  ASSUME NEW s, NEW t, Continued(s, t)
  PROVE  /\ Grows(GrokEventCount(GrokLog(s)), GrokEventCount(GrokLog(t)))
         /\ Grows(GrokEventCount(GrokEventsOnly(s)), GrokEventCount(GrokEventsOnly(t)))
<1> DEFINE updates(f) == [i \in DOMAIN f |-> GrokUpdates(f, i)]
           events(f) == [i \in DOMAIN f |-> GrokEvents(f, i)]
           length(fact) == IF fact.kind \in {"ask", "answer", "fail"} THEN 1 ELSE 0
<1>1. ASSUME NEW f, NEW i
      PROVE  IsList(GrokUpdates(f, i)) /\ Len(GrokUpdates(f, i)) = 1
  <2>1. \E a : GrokUpdates(f, i) = <<a>>
    <3>1. CASE f[i].kind = "ask"
      BY <3>1, Zenon DEF GrokUpdates, GrokEnds
    <3>2. CASE f[i].kind = "compact"
      BY <3>2, Zenon DEF GrokUpdates, GrokEnds
    <3>3. CASE f[i].kind # "ask" /\ f[i].kind # "compact"
      BY <3>3, Zenon DEF GrokUpdates, GrokEnds
    <3> QED
      BY <3>1, <3>2, <3>3
  <2> QED
    BY <2>1, WrittenOut
<1>2. ASSUME NEW f, NEW i
      PROVE  IsList(GrokEvents(f, i)) /\ Len(GrokEvents(f, i)) = length(f[i])
  <2>1. \/ length(f[i]) = 0 /\ GrokEvents(f, i) = <<>>
        \/ length(f[i]) = 1 /\ \E a : GrokEvents(f, i) = <<a>>
    <3>1. CASE f[i].kind = "ask"
      BY <3>1, Zenon DEF GrokEvents, GrokEnds
    <3>2. CASE f[i].kind = "fail"
      BY <3>2, Zenon DEF GrokEvents, GrokEnds
    <3>3. CASE f[i].kind = "answer" /\ f[i].tool
      BY <3>3, Zenon DEF GrokEvents, GrokEnds
    <3>4. CASE f[i].kind = "answer" /\ ~f[i].tool
      BY <3>4, Zenon DEF GrokEvents, GrokEnds
    <3>5. CASE f[i].kind \notin {"ask", "answer", "fail"}
      BY <3>5, Zenon DEF GrokEvents, GrokEnds
    <3> QED
      BY <3>1, <3>2, <3>3, <3>4, <3>5
  <2> QED
    BY <2>1, WrittenOut
<1>3. ASSUME NEW f, IsList(f)
      PROVE  /\ IsList(updates(f)) /\ Len(updates(f)) = Len(f)
             /\ IsList(events(f)) /\ Len(events(f)) = Len(f)
             /\ GrokEventCount(GrokLog(f)) = Len(FlattenSeq(updates(f))) + Len(FlattenSeq(events(f)))
             /\ GrokEventCount(GrokEventsOnly(f)) = Len(FlattenSeq(events(f)))
             /\ \A i \in 1..Len(f) :
                   /\ IsList(updates(f)[i]) /\ Len(updates(f)[i]) = 1
                   /\ IsList(events(f)[i]) /\ Len(events(f)[i]) = length(f[i])
  <2>1. /\ updates(f) = [i \in DOMAIN f |-> updates(f)[i]]
        /\ events(f) = [i \in DOMAIN f |-> events(f)[i]]
        /\ \A i \in DOMAIN f : updates(f)[i] = GrokUpdates(f, i) /\ events(f)[i] = GrokEvents(f, i)
    OBVIOUS
  <2>2. GrokLog(f).updates = FlattenSeq(updates(f)) /\ GrokLog(f).events = FlattenSeq(events(f))
    BY DEF GrokLog, Records
  <2>3. GrokEventsOnly(f).updates = <<>> /\ GrokEventsOnly(f).events = FlattenSeq(events(f))
    BY DEF GrokEventsOnly, GrokLog, Records
  <2> HIDE DEF updates, events, length
  <2>4. /\ IsList(updates(f)) /\ Len(updates(f)) = Len(f) /\ DOMAIN f = 1..Len(f)
        /\ IsList(events(f)) /\ Len(events(f)) = Len(f)
    BY <1>3, <2>1, OneForEach
  <2>5. ASSUME NEW i \in 1..Len(f)
        PROVE  /\ IsList(updates(f)[i]) /\ Len(updates(f)[i]) = 1
               /\ IsList(events(f)[i]) /\ Len(events(f)[i]) = length(f[i])
    <3>1. updates(f)[i] = GrokUpdates(f, i) /\ events(f)[i] = GrokEvents(f, i)
      BY <2>1, <2>4
    <3> QED
      BY <1>1, <1>2, <3>1
  <2>6. Len(FlattenSeq(events(f))) \in Nat
    BY <2>4, <2>5, Flattened
  <2>7. GrokEventCount(GrokEventsOnly(f)) = 0 + Len(FlattenSeq(events(f)))
    BY <2>3, WrittenOut DEF GrokEventCount
  <2>8. GrokEventCount(GrokLog(f)) = Len(FlattenSeq(updates(f))) + Len(FlattenSeq(events(f)))
    BY <2>2 DEF GrokEventCount
  <2> QED
    BY <2>4, <2>5, <2>6, <2>7, <2>8
<1> HIDE DEF updates, events, length
<1>4. IsList(s) /\ IsList(t) /\ \A i \in 1..Len(s) : i \in 1..Len(t)
  BY DEF Continued, IsList
<1>5. /\ IsList(updates(s)) /\ Len(updates(s)) = Len(s) /\ \A i \in 1..Len(s) : IsList(updates(s)[i])
      /\ IsList(updates(t)) /\ Len(updates(t)) = Len(t) /\ \A i \in 1..Len(t) : IsList(updates(t)[i])
      /\ \A i \in 1..Len(s) : s[i] = t[i] => Len(updates(s)[i]) = Len(updates(t)[i])
  BY <1>3, <1>4
<1>9. /\ IsList(events(s)) /\ Len(events(s)) = Len(s) /\ \A i \in 1..Len(s) : IsList(events(s)[i])
      /\ IsList(events(t)) /\ Len(events(t)) = Len(t) /\ \A i \in 1..Len(t) : IsList(events(t)[i])
      /\ \A i \in 1..Len(s) : s[i] = t[i] => Len(events(s)[i]) = Len(events(t)[i])
  <2>1. \A i \in 1..Len(s) : IsList(events(s)[i]) /\ Len(events(s)[i]) = length(s[i])
    BY <1>3, <1>4
  <2>2. \A i \in 1..Len(t) : IsList(events(t)[i]) /\ Len(events(t)[i]) = length(t[i])
    BY <1>3, <1>4
  <2>3. /\ IsList(events(s)) /\ Len(events(s)) = Len(s)
        /\ IsList(events(t)) /\ Len(events(t)) = Len(t)
    BY <1>3, <1>4
  <2> QED
    BY <1>4, <2>1, <2>2, <2>3
<1>6. Grows(Len(FlattenSeq(updates(s))), Len(FlattenSeq(updates(t))))
  BY <1>5, FlattenedAlong
<1>7. Grows(Len(FlattenSeq(events(s))), Len(FlattenSeq(events(t))))
  BY <1>9, FlattenedAlong
<1>8. Grows(Len(FlattenSeq(updates(s))) + Len(FlattenSeq(events(s))),
            Len(FlattenSeq(updates(t))) + Len(FlattenSeq(events(t))))
  BY <1>6, <1>7, SumsGrow
<1> QED
  BY <1>3, <1>4, <1>7, <1>8


(* Which facts are of a kind. *)
LEMMA KindsOf ==
  \A f, kinds : \A i \in 1..Len(f) : IsList(f) => (i \in OfKind(f, kinds) <=> f[i].kind \in kinds)
BY DEF OfKind, IsList

(* A table that is made of a session, fact by fact, grows with it. *)
LEMMA TableAlong ==
  ASSUME NEW s, NEW t, Continued(s, t), NEW few, NEW many, NEW written, NEW later,
         IsList(few), IsList(many), Len(few) = Len(s), Len(many) = Len(t),
         \A i \in 1..Len(s) : few[i].id = many[i].id,
         \A i \in 1..Len(s) : i \in written <=> i \in later
  PROVE  Grows(Len(Table(few, written)), Len(Table(many, later)))
<1>1. Len(few) <= Len(many) /\ \A i \in 1..Len(few) : few[i].id = many[i].id /\ (i \in written <=> i \in later)
  BY DEF Continued
<1> QED
  BY <1>1, TableGrows

(* What goes on has the same facts, up to its length. *)
LEMMA Going ==
  ASSUME NEW s, NEW t, Continued(s, t)
  PROVE  /\ IsList(s) /\ IsList(t) /\ Len(s) \in Nat /\ Len(t) \in Nat /\ Len(s) <= Len(t)
         /\ \A i \in 1..Len(s) : i \in 1..Len(t) /\ s[i] = t[i]
         /\ \A kinds : \A i \in 1..Len(s) : i \in OfKind(s, kinds) <=> i \in OfKind(t, kinds)
<1>1. /\ IsList(s) /\ IsList(t) /\ Len(s) \in Nat /\ Len(t) \in Nat /\ Len(s) <= Len(t)
      /\ \A i \in 1..Len(s) : i \in 1..Len(t) /\ s[i] = t[i]
  BY DEF Continued, IsList
<1>2. ASSUME NEW kinds, NEW i \in 1..Len(s) PROVE i \in OfKind(s, kinds) <=> i \in OfKind(t, kinds)
  BY <1>1, KindsOf
<1> QED
  BY <1>1, <1>2

(* The entries of Amazon Q grow with the session, *)
LEMMA AmazonQGrows ==
  ASSUME NEW s, NEW t, Continued(s, t)
  PROVE  Grows(AmazonQEventCount(AmazonQLog(s)), AmazonQEventCount(AmazonQLog(t)))
<1> DEFINE entries(f) == [i \in DOMAIN f |-> AmazonQEntry(f, i)]
           written(f) == OfKind(f, {"answer"})
<1>1. ASSUME NEW f, IsList(f)
      PROVE  /\ IsList(entries(f)) /\ Len(entries(f)) = Len(f)
             /\ \A i \in 1..Len(f) : entries(f)[i].id = i
             /\ AmazonQEventCount(AmazonQLog(f)) = Len(Table(entries(f), written(f)))
  <2>1. entries(f) = [i \in DOMAIN f |-> entries(f)[i]] /\ \A i \in DOMAIN f : entries(f)[i].id = i
    BY DEF AmazonQEntry
  <2>2. AmazonQEventCount(AmazonQLog(f)) = Len(Table(entries(f), written(f)))
    BY DEF AmazonQEventCount, AmazonQLog, Records
  <2> HIDE DEF entries
  <2> QED
    BY <1>1, <2>1, <2>2, OneForEach
<1>2. \A i \in 1..Len(s) : i \in written(s) <=> i \in written(t)
  BY Going
<1> HIDE DEF entries, written
<1>3. IsList(s) /\ IsList(t) /\ \A i \in 1..Len(s) : i \in 1..Len(t)
  BY Going
<1>4. \A i \in 1..Len(s) : entries(s)[i].id = entries(t)[i].id
  BY <1>1, <1>3
<1> QED
  BY <1>1, <1>2, <1>3, <1>4, TableAlong

(* so do the messages of Cline *)
LEMMA ClineGrows ==
  ASSUME NEW s, NEW t, Continued(s, t)
  PROVE  Grows(ClineEventCount(ClineLog(s)), ClineEventCount(ClineLog(t)))
<1> DEFINE messages(f) == [i \in DOMAIN f |-> ClineMessage(f, i)]
           written(f) == OfKind(f, ClineTraits)
<1>1. ASSUME NEW f, IsList(f)
      PROVE  /\ IsList(messages(f)) /\ Len(messages(f)) = Len(f)
             /\ \A i \in 1..Len(f) : messages(f)[i].id = Origin(f, i)
             /\ ClineEventCount(ClineLog(f)) = Len(Table(messages(f), written(f)))
  <2>1. messages(f) = [i \in DOMAIN f |-> messages(f)[i]] /\ \A i \in DOMAIN f : messages(f)[i].id = Origin(f, i)
    BY DEF ClineMessage
  <2>2. ClineEventCount(ClineLog(f)) = Len(Table(messages(f), written(f)))
    BY DEF ClineEventCount, ClineLog, Records
  <2> HIDE DEF messages
  <2> QED
    BY <1>1, <2>1, <2>2, OneForEach
<1>2. \A i \in 1..Len(s) : i \in written(s) <=> i \in written(t)
  BY Going
<1> HIDE DEF messages, written
<1>3. IsList(s) /\ IsList(t) /\ \A i \in 1..Len(s) : i \in 1..Len(t)
  BY Going
<1>4. \A i \in 1..Len(s) : messages(s)[i].id = messages(t)[i].id
  BY <1>1, <1>3, SameOrigin
<1> QED
  BY <1>1, <1>2, <1>3, <1>4, TableAlong

(* and the items of Continue, *)
LEMMA ContinueGrows ==
  ASSUME NEW s, NEW t, Continued(s, t)
  PROVE  Grows(ContinueEventCount(ContinueLog(s)), ContinueEventCount(ContinueLog(t)))
<1> DEFINE items(f) == [i \in DOMAIN f |-> ContinueItem(f, i)]
           written(f) == OfKind(f, ContinueTraits \ {"extra"})
<1>1. ASSUME NEW f, IsList(f)
      PROVE  /\ IsList(items(f)) /\ Len(items(f)) = Len(f)
             /\ \A i \in 1..Len(f) : items(f)[i].id = Origin(f, i)
             /\ ContinueEventCount(ContinueLog(f)) = Len(Table(items(f), written(f)))
  <2>1. items(f) = [i \in DOMAIN f |-> items(f)[i]] /\ \A i \in DOMAIN f : items(f)[i].id = Origin(f, i)
    BY DEF ContinueItem
  <2>2. ContinueEventCount(ContinueLog(f)) = Len(Table(items(f), written(f)))
    BY DEF ContinueEventCount, ContinueLog, Records
  <2> HIDE DEF items
  <2> QED
    BY <1>1, <2>1, <2>2, OneForEach
<1>2. \A i \in 1..Len(s) : i \in written(s) <=> i \in written(t)
  BY Going
<1> HIDE DEF items, written
<1>3. IsList(s) /\ IsList(t) /\ \A i \in 1..Len(s) : i \in 1..Len(t)
  BY Going
<1>4. \A i \in 1..Len(s) : items(s)[i].id = items(t)[i].id
  BY <1>1, <1>3, SameOrigin
<1> QED
  BY <1>1, <1>2, <1>3, <1>4, TableAlong

(* the messages of Goose with its ledger, *)
LEMMA GooseGrows ==
  ASSUME NEW s, NEW t, Continued(s, t)
  PROVE  Grows(GooseEventCount(GooseLog(s)), GooseEventCount(GooseLog(t)))
<1> DEFINE messages(f) == [i \in DOMAIN f |-> GooseMessage(f, i)]
           ledger(f) == [i \in DOMAIN f |-> GooseEntry(f, i)]
           written(f) == OfKind(f, {"ask", "answer", "note"})
           charged(f) == OfKind(f, {"answer", "extra", "compact"})
<1>1. ASSUME NEW f, IsList(f)
      PROVE  /\ IsList(messages(f)) /\ Len(messages(f)) = Len(f)
             /\ IsList(ledger(f)) /\ Len(ledger(f)) = Len(f)
             /\ \A i \in 1..Len(f) : messages(f)[i].id = i /\ ledger(f)[i].id = i
             /\ GooseEventCount(GooseLog(f)) =
                   Len(Table(messages(f), written(f))) + Len(Table(ledger(f), charged(f)))
  <2>1. messages(f) = [i \in DOMAIN f |-> messages(f)[i]] /\ \A i \in DOMAIN f : messages(f)[i].id = i
    BY DEF GooseMessage
  <2>2. ledger(f) = [i \in DOMAIN f |-> ledger(f)[i]] /\ \A i \in DOMAIN f : ledger(f)[i].id = i
    BY DEF GooseEntry
  <2>3. GooseEventCount(GooseLog(f)) =
           Len(Table(messages(f), written(f))) + Len(Table(ledger(f), charged(f)))
    BY DEF GooseEventCount, GooseLog, Records
  <2> HIDE DEF messages, ledger
  <2> QED
    BY <1>1, <2>1, <2>2, <2>3, OneForEach
<1>2. \A i \in 1..Len(s) : (i \in written(s) <=> i \in written(t)) /\ (i \in charged(s) <=> i \in charged(t))
  BY Going
<1> HIDE DEF messages, ledger, written, charged
<1>3. IsList(s) /\ IsList(t) /\ \A i \in 1..Len(s) : i \in 1..Len(t)
  BY Going
<1>4. \A i \in 1..Len(s) : messages(s)[i].id = messages(t)[i].id /\ ledger(s)[i].id = ledger(t)[i].id
  BY <1>1, <1>3
<1>5. Grows(Len(Table(messages(s), written(s))), Len(Table(messages(t), written(t))))
  BY <1>1, <1>2, <1>3, <1>4, TableAlong
<1>6. Grows(Len(Table(ledger(s), charged(s))), Len(Table(ledger(t), charged(t))))
  BY <1>1, <1>2, <1>3, <1>4, TableAlong
<1>7. Grows(Len(Table(messages(s), written(s))) + Len(Table(ledger(s), charged(s))),
            Len(Table(messages(t), written(t))) + Len(Table(ledger(t), charged(t))))
  BY <1>5, <1>6, SumsGrow
<1> QED
  BY <1>1, <1>3, <1>7

(* the messages of Kilo with their parts, *)
LEMMA KiloGrows ==
  ASSUME NEW s, NEW t, Continued(s, t)
  PROVE  Grows(KiloEventCount(KiloLog(s)), KiloEventCount(KiloLog(t)))
<1> DEFINE messages(f) == [i \in DOMAIN f |-> KiloMessage(f, i)]
           parts(f) == [i \in DOMAIN f |-> KiloPart(f, i)]
           written(f) == OfKind(f, KiloTraits)
           called(f) == {i \in DOMAIN f : f[i].tool}
<1>1. ASSUME NEW f, IsList(f)
      PROVE  /\ IsList(messages(f)) /\ Len(messages(f)) = Len(f)
             /\ IsList(parts(f)) /\ Len(parts(f)) = Len(f)
             /\ \A i \in 1..Len(f) : messages(f)[i].id = Origin(f, i) /\ parts(f)[i].id = i
             /\ KiloEventCount(KiloLog(f)) =
                   Len(Table(messages(f), written(f))) + Len(Table(parts(f), called(f)))
  <2>1. messages(f) = [i \in DOMAIN f |-> messages(f)[i]] /\ \A i \in DOMAIN f : messages(f)[i].id = Origin(f, i)
    BY DEF KiloMessage
  <2>2. parts(f) = [i \in DOMAIN f |-> parts(f)[i]] /\ \A i \in DOMAIN f : parts(f)[i].id = i
    BY DEF KiloPart
  <2>3. KiloEventCount(KiloLog(f)) =
           Len(Table(messages(f), written(f))) + Len(Table(parts(f), called(f)))
    BY DEF KiloEventCount, KiloLog, Records
  <2> HIDE DEF messages, parts
  <2> QED
    BY <1>1, <2>1, <2>2, <2>3, OneForEach
<1>2. /\ IsList(s) /\ IsList(t) /\ (\A i \in 1..Len(s) : i \in 1..Len(t) /\ s[i] = t[i])
      /\ DOMAIN s = 1..Len(s) /\ DOMAIN t = 1..Len(t)
  BY Going DEF IsList
<1>3. \A i \in 1..Len(s) : (i \in written(s) <=> i \in written(t)) /\ (i \in called(s) <=> i \in called(t))
  <2>1. \A i \in 1..Len(s) : i \in written(s) <=> i \in written(t)
    BY Going
  <2>2. \A i \in 1..Len(s) : i \in called(s) <=> i \in called(t)
    BY <1>2
  <2> QED
    BY <2>1, <2>2
<1> HIDE DEF messages, parts, written, called
<1>4. \A i \in 1..Len(s) : messages(s)[i].id = messages(t)[i].id /\ parts(s)[i].id = parts(t)[i].id
  BY <1>1, <1>2, SameOrigin
<1>5. Grows(Len(Table(messages(s), written(s))), Len(Table(messages(t), written(t))))
  BY <1>1, <1>2, <1>3, <1>4, TableAlong
<1>6. Grows(Len(Table(parts(s), called(s))), Len(Table(parts(t), called(t))))
  BY <1>1, <1>2, <1>3, <1>4, TableAlong
<1>7. Grows(Len(Table(messages(s), written(s))) + Len(Table(parts(s), called(s))),
            Len(Table(messages(t), written(t))) + Len(Table(parts(t), called(t))))
  BY <1>5, <1>6, SumsGrow
<1> QED
  BY <1>1, <1>2, <1>7

(* and the messages of Amp, with its ledger if there is one. *)
LEMMA AmpGrows ==
  ASSUME NEW s, NEW t, Continued(s, t), NEW ledger \in BOOLEAN
  PROVE  Grows(AmpEventCount(AmpThread(s, ledger)), AmpEventCount(AmpThread(t, ledger)))
<1> DEFINE messages(f) == [i \in DOMAIN f |-> AmpMessage(f, ledger, i)]
           events(f) == [i \in DOMAIN f |-> AmpEvent(f, i)]
           written(f) == OfKind(f, {"ask", "answer", "note"})
           charged(f) == OfKind(f, {"answer", "extra"})
<1>1. ASSUME NEW f, IsList(f)
      PROVE  /\ IsList(messages(f)) /\ Len(messages(f)) = Len(f)
             /\ IsList(events(f)) /\ Len(events(f)) = Len(f)
             /\ \A i \in 1..Len(f) : messages(f)[i].id = i /\ events(f)[i].id = i
             /\ AmpEventCount(AmpThread(f, ledger)) =
                   Len(Table(messages(f), written(f)))
                     + (IF ledger THEN Len(Table(events(f), charged(f))) ELSE 0)
  <2>1. messages(f) = [i \in DOMAIN f |-> messages(f)[i]] /\ \A i \in DOMAIN f : messages(f)[i].id = i
    BY DEF AmpMessage
  <2>2. events(f) = [i \in DOMAIN f |-> events(f)[i]] /\ \A i \in DOMAIN f : events(f)[i].id = i
    BY DEF AmpEvent
  <2>3. /\ AmpThread(f, ledger).messages = Table(messages(f), written(f))
        /\ ledger => AmpThread(f, ledger).events = Table(events(f), charged(f))
        /\ ~ledger => AmpThread(f, ledger).events = <<>>
    BY DEF AmpThread, Records
  <2> HIDE DEF messages, events, written, charged
  <2>4. /\ IsList(messages(f)) /\ Len(messages(f)) = Len(f) /\ DOMAIN f = 1..Len(f)
        /\ IsList(events(f)) /\ Len(events(f)) = Len(f)
    BY <1>1, <2>1, <2>2, OneForEach
  <2>5. AmpEventCount(AmpThread(f, ledger)) =
                   Len(Table(messages(f), written(f)))
                     + (IF ledger THEN Len(Table(events(f), charged(f))) ELSE 0)
    BY <2>3, WrittenOut DEF AmpEventCount
  <2> QED
    BY <2>1, <2>2, <2>4, <2>5
<1>2. \A i \in 1..Len(s) : (i \in written(s) <=> i \in written(t)) /\ (i \in charged(s) <=> i \in charged(t))
  BY Going
<1> HIDE DEF messages, events, written, charged
<1>3. IsList(s) /\ IsList(t) /\ \A i \in 1..Len(s) : i \in 1..Len(t)
  BY Going
<1>4. \A i \in 1..Len(s) : messages(s)[i].id = messages(t)[i].id /\ events(s)[i].id = events(t)[i].id
  BY <1>1, <1>3
<1>5. Grows(Len(Table(messages(s), written(s))), Len(Table(messages(t), written(t))))
  BY <1>1, <1>2, <1>3, <1>4, TableAlong
<1>6. Grows(Len(Table(events(s), charged(s))), Len(Table(events(t), charged(t))))
  BY <1>1, <1>2, <1>3, <1>4, TableAlong
<1>7. Grows(0, 0)
  BY DEF Grows
<1>8. CASE ledger
  <2>1. Grows(Len(Table(messages(s), written(s))) + Len(Table(events(s), charged(s))),
              Len(Table(messages(t), written(t))) + Len(Table(events(t), charged(t))))
    BY <1>5, <1>6, SumsGrow
  <2> QED
    BY <1>1, <1>3, <1>8, <2>1
<1>9. CASE ~ledger
  <2>1. Grows(Len(Table(messages(s), written(s))) + 0, Len(Table(messages(t), written(t))) + 0)
    BY <1>5, <1>7, SumsGrow
  <2> QED
    BY <1>1, <1>3, <1>9, <2>1
<1> QED
  BY <1>8, <1>9


(* An answer calls its tool when it has finished, and one that has finished began. *)
Sound(f) ==
  /\ \A i \in 1..Len(f) : f[i].kind = "begin" => f[i].tool = FALSE
  /\ \A i \in 1..Len(f) : f[i].kind = "finish" => \E j \in 1..i - 1 : Answers(f, j, i)

(* The fact at which an answer began, *)
LEMMA OriginIs ==
  ASSUME NEW f, IsList(f), Sound(f), NEW i \in 1..Len(f)
  PROVE  /\ f[i].kind = "finish" =>
              Origin(f, i) \in 1..i - 1 /\ Finish(f, Origin(f, i)) = i /\ Answers(f, Origin(f, i), i)
         /\ f[i].kind # "finish" => Origin(f, i) = i
<1>1. Len(f) \in Nat /\ i \in Nat
  BY DEF IsList
<1>2. CASE f[i].kind = "finish"
  <2>1. PICK j \in 1..i - 1 : Answers(f, j, i)
    BY <1>2 DEF Sound
  <2>2. \A k \in 1..i - 1 : k \in 1..Len(f) /\ k # i
    BY <1>1
  <2>3. Finish(f, j) = i
    BY <2>1, <2>2, FinishIs
  <2>4. Origin(f, i) = CHOOSE k \in 1..i - 1 : Finish(f, k) = i
    BY <1>2, Zenon DEF Origin
  <2> DEFINE o == CHOOSE k \in 1..i - 1 : Finish(f, k) = i
  <2>5. o \in 1..i - 1 /\ Finish(f, o) = i
    BY <2>3
  <2> HIDE DEF o
  <2>6. Answers(f, o, i)
    BY <2>2, <2>5, FinishIs
  <2>7. Origin(f, i) = o
    BY <2>4 DEF o
  <2> QED
    BY <1>2, <2>5, <2>6, <2>7
<1>3. CASE f[i].kind # "finish"
  BY <1>3, Zenon DEF Origin
<1> QED
  BY <1>2, <1>3

(* which two facts share only if the one finishes what the other began. *)
LEMMA OneOrigin ==
  ASSUME NEW f, IsList(f), Sound(f), NEW k \in 1..Len(f), NEW l \in 1..Len(f), k <= l,
         Origin(f, k) = Origin(f, l)
  PROVE  k = l \/ (f[k].kind = "begin" /\ f[l].kind = "finish")
<1> SUFFICES ASSUME k < l PROVE f[k].kind = "begin" /\ f[l].kind = "finish"
  OBVIOUS
<1>1. k \in Nat /\ l \in Nat
  BY DEF IsList
<1>2. /\ f[k].kind = "finish" => Origin(f, k) \in 1..k - 1 /\ Finish(f, Origin(f, k)) = k
      /\ f[k].kind # "finish" => Origin(f, k) = k
  BY OriginIs
<1>3. /\ f[l].kind = "finish" => Finish(f, Origin(f, l)) = l /\ Answers(f, Origin(f, l), l)
      /\ f[l].kind # "finish" => Origin(f, l) = l
  BY OriginIs
<1>4. Origin(f, k) <= k
  BY <1>1, <1>2
<1>5. f[l].kind = "finish"
  BY <1>1, <1>3, <1>4
<1>6. f[k].kind # "finish"
  BY <1>1, <1>2, <1>3, <1>5
<1>7. Answers(f, k, l)
  BY <1>2, <1>3, <1>5, <1>6
<1> QED
  BY <1>5, <1>7 DEF Answers

(* The row p of two tables is the record of one fact, or of an answer that began and has finished. *)
GoesOn(t, few, many, written, later, p) ==
  \E k \in 1..Len(few), l \in 1..Len(many) :
     /\ Table(few, written)[p] = few[k] /\ Table(many, later)[p] = many[l]
     /\ k = l \/ (t[k].kind = "begin" /\ t[l].kind = "finish")

(* So the row of an id only ever changes from an answer that began to one that has finished. *)
LEMMA RowGoesOn ==
  ASSUME NEW s, NEW t, Continued(s, t), Sound(t), NEW few, NEW many, NEW written, NEW later,
         IsList(few), IsList(many), Len(few) = Len(s), Len(many) = Len(t),
         \A i \in 1..Len(s) : few[i].id = Origin(s, i),
         \A i \in 1..Len(t) : many[i].id = Origin(t, i),
         \A i \in 1..Len(s) : i \in written <=> i \in later,
         NEW p \in 1..Len(Table(few, written))
  PROVE  GoesOn(t, few, many, written, later, p)
<1>1. /\ IsList(s) /\ IsList(t) /\ Len(s) \in Nat /\ Len(t) \in Nat /\ Len(s) <= Len(t)
      /\ \A i \in 1..Len(s) : i \in 1..Len(t) /\ s[i] = t[i]
  BY Going
<1>2. \A i \in 1..Len(s) : Origin(s, i) = Origin(t, i)
  BY SameOrigin
<1>3. \A i \in 1..Len(few) : few[i].id = many[i].id /\ (i \in written <=> i \in later)
  BY <1>1, <1>2
<1>4. PICK k \in 1..Len(few), l \in 1..Len(many) :
        /\ k <= l /\ few[k].id = many[l].id
        /\ Table(few, written)[p] = few[k] /\ Table(many, later)[p] = many[l]
  <2>1. Len(few) <= Len(many)
    BY <1>1
  <2>2. LastOfBoth(few, many, written, later, p)
    BY <1>3, <2>1, RowOfEach
  <2> QED
    BY <2>2 DEF LastOfBoth
<1>5. k \in 1..Len(t) /\ l \in 1..Len(t) /\ Origin(t, k) = Origin(t, l)
  BY <1>1, <1>2, <1>4
<1>6. k = l \/ (t[k].kind = "begin" /\ t[l].kind = "finish")
  BY <1>1, <1>4, <1>5, OneOrigin
<1> QED
  BY <1>4, <1>6 DEF GoesOn

(* A table is a list of some of its records. *)
LEMMA TableRows ==
  ASSUME NEW records, IsList(records), NEW written
  PROVE  /\ IsList(Table(records, written))
         /\ \A p \in 1..Len(Table(records, written)) :
              \E k \in 1..Len(records) : Table(records, written)[p] = records[k]
<1>1. Tabled(Table(records, written), records, written, Len(records))
  BY TableIsTabled
<1> QED
  BY <1>1 DEF Tabled, LastWritten

(* The messages of OpenCode grow with the session, also when their parts are counted with them. *)
LEMMA OpenCodeGrows ==
  ASSUME NEW s, NEW t, Continued(s, t), Sound(s), Sound(t)
  PROVE  /\ Grows(OpenCodeEventCount(OpenCodeLog(s)), OpenCodeEventCount(OpenCodeLog(t)))
         /\ Grows(OpenCodeRank(OpenCodeLog(s))[1], OpenCodeRank(OpenCodeLog(t))[1])
<1> DEFINE messages(f) == [i \in DOMAIN f |-> OpenCodeMessage(f, i)]
           written(f) == OfKind(f, OpenCodeTraits)
           rows(f) == Table(messages(f), written(f))
           parts(f) == [p \in DOMAIN rows(f) |-> rows(f)[p].parts]
<1>1. ASSUME NEW f, IsList(f)
      PROVE  /\ IsList(messages(f)) /\ Len(messages(f)) = Len(f)
             /\ \A i \in 1..Len(f) :
                   /\ messages(f)[i].id = Origin(f, i)
                   /\ messages(f)[i].parts = IF f[i].tool THEN <<"tool">> ELSE <<>>
             /\ OpenCodeEventCount(OpenCodeLog(f)) = Len(rows(f))
             /\ OpenCodeRank(OpenCodeLog(f))[1] = Len(rows(f)) + Len(FlattenSeq(parts(f)))
  <2>1. /\ messages(f) = [i \in DOMAIN f |-> messages(f)[i]]
        /\ \A i \in DOMAIN f :
              /\ messages(f)[i].id = Origin(f, i)
              /\ messages(f)[i].parts = IF f[i].tool THEN <<"tool">> ELSE <<>>
    BY DEF OpenCodeMessage
  <2>2. OpenCodeLog(f).messages = rows(f)
    BY DEF OpenCodeLog, Records
  <2> HIDE DEF messages, written, rows
  <2>3. /\ OpenCodeEventCount(OpenCodeLog(f)) = Len(rows(f))
        /\ OpenCodeRank(OpenCodeLog(f))[1] = Len(rows(f)) + Len(FlattenSeq(parts(f)))
    BY <2>2 DEF OpenCodeEventCount, OpenCodeRank, Each
  <2> HIDE DEF parts
  <2>4. IsList(messages(f)) /\ Len(messages(f)) = Len(f) /\ DOMAIN f = 1..Len(f)
    BY <1>1, <2>1, OneForEach
  <2> QED
    BY <2>1, <2>3, <2>4
<1>2. \A i \in 1..Len(s) : i \in written(s) <=> i \in written(t)
  BY Going
<1>3. ASSUME NEW f, IsList(f)
      PROVE  /\ IsList(rows(f)) /\ IsList(parts(f)) /\ Len(parts(f)) = Len(rows(f))
             /\ \A p \in 1..Len(rows(f)) : parts(f)[p] = rows(f)[p].parts
             /\ \A p \in 1..Len(rows(f)) : IsList(parts(f)[p])
  <2>1. IsList(messages(f)) /\ Len(messages(f)) = Len(f)
    BY <1>1, <1>3
  <2>2. \A i \in 1..Len(f) : messages(f)[i].parts = IF f[i].tool THEN <<"tool">> ELSE <<>>
    BY <1>1, <1>3
  <2> HIDE DEF messages, written
  <2>3. IsList(rows(f)) /\ \A p \in 1..Len(rows(f)) : \E k \in 1..Len(f) : rows(f)[p] = messages(f)[k]
    BY <2>1, TableRows
  <2> HIDE DEF rows
  <2>4. parts(f) = [p \in DOMAIN rows(f) |-> parts(f)[p]] /\ \A p \in DOMAIN rows(f) : parts(f)[p] = rows(f)[p].parts
    OBVIOUS
  <2> HIDE DEF parts
  <2>5. IsList(parts(f)) /\ Len(parts(f)) = Len(rows(f)) /\ DOMAIN rows(f) = 1..Len(rows(f))
    BY <2>3, <2>4, OneForEach
  <2>6. ASSUME NEW p \in 1..Len(rows(f)) PROVE IsList(parts(f)[p])
    BY <2>2, <2>3, <2>4, <2>5, WrittenOut
  <2> QED
    BY <2>3, <2>4, <2>5, <2>6
<1>4. /\ IsList(s) /\ IsList(t) /\ \A i \in 1..Len(s) : i \in 1..Len(t) /\ s[i] = t[i]
  BY Going
<1> HIDE DEF messages, written, parts
<1>5. Grows(Len(rows(s)), Len(rows(t)))
  <2>1. \A i \in 1..Len(s) : messages(s)[i].id = messages(t)[i].id
    BY <1>1, <1>4, SameOrigin
  <2> QED
    BY <1>1, <1>2, <1>4, <2>1, TableAlong
<1>6. ASSUME NEW p \in 1..Len(rows(s)) PROVE Len(parts(s)[p]) <= Len(parts(t)[p])
  <2>0. /\ IsList(messages(s)) /\ Len(messages(s)) = Len(s)
        /\ IsList(messages(t)) /\ Len(messages(t)) = Len(t)
        /\ \A i \in 1..Len(s) : messages(s)[i].id = Origin(s, i)
        /\ \A i \in 1..Len(t) : messages(t)[i].id = Origin(t, i)
    BY <1>1, <1>4
  <2>1. PICK k \in 1..Len(s), l \in 1..Len(t) :
          /\ rows(s)[p] = messages(s)[k] /\ rows(t)[p] = messages(t)[l]
          /\ k = l \/ (t[k].kind = "begin" /\ t[l].kind = "finish")
    <3>1. GoesOn(t, messages(s), messages(t), written(s), written(t), p)
      BY <1>2, <2>0, RowGoesOn
    <3> QED
      BY <2>0, <3>1 DEF GoesOn
  <2> HIDE DEF rows
  <2>2. p \in 1..Len(rows(t))
    BY <1>5 DEF Grows
  <2>3. /\ parts(s)[p] = IF s[k].tool THEN <<"tool">> ELSE <<>>
        /\ parts(t)[p] = IF t[l].tool THEN <<"tool">> ELSE <<>>
    <3>1. parts(s)[p] = rows(s)[p].parts /\ parts(t)[p] = rows(t)[p].parts
      BY <1>3, <1>4, <2>2
    <3>2. /\ messages(s)[k].parts = IF s[k].tool THEN <<"tool">> ELSE <<>>
          /\ messages(t)[l].parts = IF t[l].tool THEN <<"tool">> ELSE <<>>
      BY <1>1, <1>4
    <3> QED
      BY <2>1, <3>1, <3>2
  <2>4. s[k].tool => t[l].tool
    BY <1>4, <2>1 DEF Sound
  <2> QED
    BY <2>3, <2>4, WrittenOut
<1> HIDE DEF rows
<1>7. Grows(Len(FlattenSeq(parts(s))), Len(FlattenSeq(parts(t))))
  <2>1. Len(parts(s)) <= Len(parts(t))
    BY <1>3, <1>4, <1>5 DEF Grows
  <2> QED
    BY <1>3, <1>4, <1>6, <2>1, FlattenedGrows
<1>8. Grows(Len(rows(s)) + Len(FlattenSeq(parts(s))), Len(rows(t)) + Len(FlattenSeq(parts(t))))
  BY <1>5, <1>7, SumsGrow
<1> QED
  BY <1>1, <1>4, <1>5, <1>8

(* The messages of Crush that are not those of a subagent grow with the session. *)
LEMMA CrushGrows ==
  ASSUME NEW s, NEW t, Continued(s, t), Sound(s), Sound(t)
  PROVE  Grows(CrushEventCount(CrushLog(s)), CrushEventCount(CrushLog(t)))
<1> DEFINE messages(f) == [i \in DOMAIN f |-> CrushMessage(f, i)]
           written(f) == OfKind(f, CrushTraits \ {"extra"})
           rows(f) == Table(messages(f), written(f))
           roots(f) == {k \in DOMAIN rows(f) : rows(f)[k].root}
<1>1. ASSUME NEW f, IsList(f)
      PROVE  /\ IsList(messages(f)) /\ Len(messages(f)) = Len(f)
             /\ \A i \in 1..Len(f) :
                   messages(f)[i].id = Origin(f, i) /\ messages(f)[i].root = (f[i].kind # "side")
             /\ CrushEventCount(CrushLog(f)) = Cardinality(roots(f))
  <2>1. /\ messages(f) = [i \in DOMAIN f |-> messages(f)[i]]
        /\ \A i \in DOMAIN f : messages(f)[i].id = Origin(f, i) /\ messages(f)[i].root = (f[i].kind # "side")
    BY DEF CrushMessage
  <2>2. CrushLog(f).messages = rows(f)
    BY DEF CrushLog, Records
  <2> HIDE DEF messages, written, rows
  <2>3. CrushEventCount(CrushLog(f)) = Cardinality(roots(f))
    BY <2>2 DEF CrushEventCount
  <2> HIDE DEF roots
  <2>4. IsList(messages(f)) /\ Len(messages(f)) = Len(f) /\ DOMAIN f = 1..Len(f)
    BY <1>1, <2>1, OneForEach
  <2> QED
    BY <2>1, <2>3, <2>4
<1>2. \A i \in 1..Len(s) : i \in written(s) <=> i \in written(t)
  BY Going
<1>3. /\ IsList(s) /\ IsList(t) /\ \A i \in 1..Len(s) : i \in 1..Len(t) /\ s[i] = t[i]
  BY Going
<1> HIDE DEF messages, written, roots
<1>4. IsList(rows(s)) /\ IsList(rows(t))
  BY <1>1, <1>3, TableRows
<1>5. Grows(Len(rows(s)), Len(rows(t)))
  <2>1. \A i \in 1..Len(s) : messages(s)[i].id = messages(t)[i].id
    BY <1>1, <1>3, SameOrigin
  <2> QED
    BY <1>1, <1>2, <1>3, <2>1, TableAlong
<1>6. ASSUME NEW p \in 1..Len(rows(s)), rows(s)[p].root PROVE rows(t)[p].root
  <2>0. /\ IsList(messages(s)) /\ Len(messages(s)) = Len(s)
        /\ IsList(messages(t)) /\ Len(messages(t)) = Len(t)
        /\ \A i \in 1..Len(s) : messages(s)[i].id = Origin(s, i)
        /\ \A i \in 1..Len(t) : messages(t)[i].id = Origin(t, i)
    BY <1>1, <1>3
  <2>1. PICK k \in 1..Len(s), l \in 1..Len(t) :
          /\ rows(s)[p] = messages(s)[k] /\ rows(t)[p] = messages(t)[l]
          /\ k = l \/ (t[k].kind = "begin" /\ t[l].kind = "finish")
    <3>1. GoesOn(t, messages(s), messages(t), written(s), written(t), p)
      BY <1>2, <2>0, RowGoesOn
    <3> QED
      BY <2>0, <3>1 DEF GoesOn
  <2>2. rows(s)[p].root = (s[k].kind # "side") /\ rows(t)[p].root = (t[l].kind # "side")
    BY <1>1, <1>3, <2>1
  <2> QED
    BY <1>3, <1>6, <2>1, <2>2
<1> HIDE DEF rows
<1>7. DOMAIN rows(s) = 1..Len(rows(s)) /\ DOMAIN rows(t) = 1..Len(rows(t))
  BY <1>4 DEF IsList
<1>8. roots(s) \subseteq roots(t) /\ roots(t) \subseteq 1..Len(rows(t)) /\ Len(rows(t)) \in Nat
  BY <1>5, <1>6, <1>7 DEF Grows, roots
<1>9. IsFiniteSet(roots(s)) /\ IsFiniteSet(roots(t)) /\ Cardinality(roots(s)) <= Cardinality(roots(t))
  <2>1. IsFiniteSet(1..Len(rows(t)))
    BY <1>8, FS_Interval
  <2>2. IsFiniteSet(roots(t))
    BY <1>8, <2>1, FS_Subset
  <2> QED
    BY <1>8, <2>2, FS_Subset
<1>10. Grows(Cardinality(roots(s)), Cardinality(roots(t)))
  BY <1>9, FS_CardinalityType DEF Grows
<1> QED
  BY <1>1, <1>3, <1>10


(* An Aider log is the launch and an event for each fact. *)
LEMMA AiderLogIs ==
  ASSUME NEW f, IsList(f)
  PROVE  /\ IsList(AiderLog(f)) /\ Len(AiderLog(f)) = Len(f) + 1 /\ AiderLog(f)[1].event = "launched"
         /\ \A i \in 2..Len(f) + 1 : AiderLog(f)[i] = AiderEvent(f, i - 1)
         /\ Len(f) \in Nat
<1> DEFINE launched == [event |-> "launched", usage |-> {}]
           records == [i \in DOMAIN f |-> AiderEvent(f, i)]
<1>1. records = [i \in DOMAIN f |-> records[i]] /\ \A i \in DOMAIN f : records[i] = AiderEvent(f, i)
  OBVIOUS
<1>2. AiderLog(f) = <<launched>> \o records
  BY DEF AiderLog, Records
<1> HIDE DEF records, launched
<1>3. IsList(records) /\ Len(records) = Len(f) /\ DOMAIN f = 1..Len(f) /\ Len(f) \in Nat
  <2>1. IsList(records) /\ Len(records) = Len(f) /\ DOMAIN f = 1..Len(f)
    BY <1>1, OneForEach
  <2> QED
    BY <2>1 DEF IsList
<1>4. IsList(<<launched>>) /\ Len(<<launched>>) = 1
  BY WrittenOut
<1>5. IsList(<<launched>> \o records) /\ Len(<<launched>> \o records) = 1 + Len(f)
  BY <1>3, <1>4, Joined
<1>6. ASSUME NEW i \in 2..Len(f) + 1 PROVE (<<launched>> \o records)[i] = records[i - 1]
  <2>1. records \in Seq(Range(records) \cup {launched}) /\ <<launched>> \in Seq(Range(records) \cup {launched})
    BY <1>3 DEF IsList
  <2>2. i \in 1..Len(<<launched>>) + Len(records) /\ i > Len(<<launched>>)
    BY <1>3, <1>4
  <2> QED
    BY <1>3, <1>4, <2>1, <2>2
<1>7. \A i \in 2..Len(f) + 1 : i - 1 \in 1..Len(f)
  BY <1>3
<1>8. (<<launched>> \o records)[1] = launched /\ launched.event = "launched"
  <2>1. records \in Seq(Range(records) \cup {launched}) /\ <<launched>> \in Seq(Range(records) \cup {launched})
    BY <1>3 DEF IsList
  <2>2. (<<launched>> \o records)[1] = launched
    BY <1>3, <1>4, <2>1
  <2>3. launched.event = "launched"
    BY DEF launched
  <2> QED
    BY <2>2, <2>3
<1> QED
  BY <1>1, <1>2, <1>3, <1>5, <1>6, <1>7, <1>8


(* The events of Aider grow with the session, until it exits. *)
LEMMA AiderGrows ==
  ASSUME NEW s, NEW t, Continued(s, t)
  PROVE  Grows(AiderEventCount(AiderLog(s)), AiderEventCount(AiderLog(t)))
<1> DEFINE Later(f, type) == {i \in 2..Len(AiderLog(f)) : AiderLog(f)[i].event = type}
           ends(f) == {Len(AiderLog(f))} \cup Later(f, "exit") \cup {i - 1 : i \in Later(f, "launched")}
<1>1. ASSUME NEW f, IsList(f)
      PROVE  /\ IsList(AiderLog(f)) /\ Len(AiderLog(f)) = Len(f) + 1
             /\ \A i \in 2..Len(f) + 1 : AiderLog(f)[i] = AiderEvent(f, i - 1)
             /\ Len(f) \in Nat
  BY <1>1, AiderLogIs
<1>2. ASSUME NEW f, IsList(f)
      PROVE  /\ ends(f) \subseteq Nat /\ ends(f) # {}
             /\ Min(ends(f)) \in ends(f) /\ \A x \in ends(f) : Min(ends(f)) <= x
             /\ Min(ends(f)) \in 1..Len(f) + 1
             /\ AiderEventCount(AiderLog(f)) = Min(ends(f))
  <2>1. Len(AiderLog(f)) = Len(f) + 1 /\ Len(f) \in Nat
    BY <1>1, <1>2
  <2>2. ends(f) \subseteq 1..Len(f) + 1 /\ Len(f) + 1 \in ends(f)
    BY <2>1
  <2>3. AiderEventCount(AiderLog(f)) = Len(SubSeq(AiderLog(f), 1, Min(ends(f))))
    BY DEF AiderEventCount, AiderSession
  <2> HIDE DEF ends
  <2>4. ends(f) \subseteq Nat /\ ends(f) # {}
    BY <2>1, <2>2
  <2>5. Min(ends(f)) \in ends(f) /\ \A x \in ends(f) : Min(ends(f)) <= x
    BY <2>4, MinIs
  <2>6. Min(ends(f)) \in 1..Len(f) + 1
    BY <2>2, <2>5
  <2>7. Len(SubSeq(AiderLog(f), 1, Min(ends(f)))) = Min(ends(f))
    <3>1. AiderLog(f) \in Seq(Range(AiderLog(f)))
      BY <1>1, <1>2 DEF IsList
    <3> QED
      BY <2>1, <2>6, <3>1
  <2> QED
    BY <2>3, <2>4, <2>5, <2>6, <2>7
<1>3. /\ IsList(s) /\ IsList(t) /\ Len(s) \in Nat /\ Len(t) \in Nat /\ Len(s) <= Len(t)
      /\ \A i \in 1..Len(s) : s[i] = t[i]
  BY Going
<1>4. \A i \in 1..Len(s) : AiderEvent(s, i) = AiderEvent(t, i)
  BY <1>3, Zenon DEF AiderEvent
<1>5. ASSUME NEW x \in ends(t), x < Len(s) + 1 PROVE x \in ends(s)
  <2>1. /\ Len(AiderLog(s)) = Len(s) + 1 /\ Len(AiderLog(t)) = Len(t) + 1
        /\ \A i \in 2..Len(s) + 1 : AiderLog(s)[i] = AiderLog(t)[i]
    <3>1. \A i \in 2..Len(s) + 1 : i - 1 \in 1..Len(s) /\ i \in 2..Len(t) + 1
      BY <1>3
    <3> QED
      BY <1>1, <1>3, <1>4, <3>1
  <2>2. CASE x = Len(AiderLog(t))
    BY <1>3, <1>5, <2>1, <2>2
  <2>3. CASE x \in Later(t, "exit")
    <3>1. x \in 2..Len(s) + 1 /\ AiderLog(t)[x].event = "exit"
      BY <1>3, <1>5, <2>1, <2>3
    <3> QED
      BY <2>1, <3>1
  <2>4. CASE x \in {i - 1 : i \in Later(t, "launched")}
    <3>1. PICK i \in Later(t, "launched") : x = i - 1
      BY <2>4
    <3>2. i \in 2..Len(s) + 1 /\ AiderLog(t)[i].event = "launched"
      BY <1>3, <1>5, <2>1, <3>1
    <3> QED
      BY <2>1, <3>1, <3>2
  <2> QED
    BY <2>2, <2>3, <2>4
<1> HIDE DEF ends
<1>6. Min(ends(s)) <= Min(ends(t))
  <2>1. CASE Min(ends(t)) < Len(s) + 1
    BY <1>2, <1>3, <1>5, <2>1
  <2>2. CASE ~(Min(ends(t)) < Len(s) + 1)
    <3>1. Min(ends(s)) \in 1..Len(s) + 1 /\ Min(ends(t)) \in 1..Len(t) + 1
      BY <1>2, <1>3
    <3> QED
      BY <1>3, <2>2, <3>1
  <2> QED
    BY <2>1, <2>2
<1>7. Min(ends(s)) \in Nat /\ Min(ends(t)) \in Nat
  BY <1>2, <1>3
<1> QED
  BY <1>2, <1>3, <1>6, <1>7 DEF Grows

(* What a tool's log counts as, tool by tool. *)
LEMMA CountsAre ==
  ASSUME NEW f
  PROVE  /\ EventCount("pi", LogOf("pi", f)) = PiEventCount(PiLog(f))
         /\ EventCount("qwen", LogOf("qwen", f)) = QwenEventCount(QwenLog(f))
         /\ EventCount("codex", LogOf("codex", f)) = CodexEventCount(CodexLog(f))
         /\ EventCount("claude", LogOf("claude", f)) = ClaudeEventCount(ClaudeLog(f))
         /\ EventCount("copilot", LogOf("copilot", f)) = CopilotEventCount(CopilotLog(f))
         /\ EventCount("opencode", LogOf("opencode", f)) = OpenCodeEventCount(OpenCodeLog(f))
         /\ EventCount("grok", LogOf("grok", f)) = GrokEventCount(GrokLog(f))
         /\ EventCount("grok-events", LogOf("grok-events", f)) = GrokEventCount(GrokEventsOnly(f))
         /\ EventCount("aider", LogOf("aider", f)) = AiderEventCount(AiderLog(f))
         /\ EventCount("cursor", LogOf("cursor", f)) = CursorEventCount(CursorLog(f))
         /\ EventCount("cline", LogOf("cline", f)) = ClineEventCount(ClineLog(f))
         /\ EventCount("mistral-vibe", LogOf("mistral-vibe", f)) = VibeEventCount(VibeLog(f))
         /\ EventCount("amazon-q", LogOf("amazon-q", f)) = AmazonQEventCount(AmazonQLog(f))
         /\ EventCount("plandex", LogOf("plandex", f)) = PlandexEventCount(PlandexLog(f))
         /\ EventCount("kimi", LogOf("kimi", f)) = KimiEventCount(KimiLog(f))
         /\ EventCount("openhands", LogOf("openhands", f)) = OpenHandsEventCount(OpenHandsLog(f))
         /\ EventCount("continue", LogOf("continue", f)) = ContinueEventCount(ContinueLog(f))
         /\ EventCount("amp", LogOf("amp", f)) = AmpEventCount(AmpThread(f, FALSE))
         /\ EventCount("amp-ledger", LogOf("amp-ledger", f)) = AmpEventCount(AmpThread(f, TRUE))
         /\ EventCount("crush", LogOf("crush", f)) = CrushEventCount(CrushLog(f))
         /\ EventCount("goose", LogOf("goose", f)) = GooseEventCount(GooseLog(f))
         /\ EventCount("kilo", LogOf("kilo", f)) = KiloEventCount(KiloLog(f))
         /\ EventCount("gemini", LogOf("gemini", f)) = GeminiEventCount(GeminiLog(f))
         /\ EventCount("gemini-json", LogOf("gemini-json", f)) = GeminiEventCount(GeminiDocument(f))
<1>1. EventCount("pi", LogOf("pi", f)) = PiEventCount(PiLog(f))
  BY Zenon DEF EventCount, LogOf
<1>2. EventCount("qwen", LogOf("qwen", f)) = QwenEventCount(QwenLog(f))
  BY Zenon DEF EventCount, LogOf
<1>3. EventCount("codex", LogOf("codex", f)) = CodexEventCount(CodexLog(f))
  BY Zenon DEF EventCount, LogOf
<1>4. EventCount("claude", LogOf("claude", f)) = ClaudeEventCount(ClaudeLog(f))
  BY Zenon DEF EventCount, LogOf
<1>5. EventCount("copilot", LogOf("copilot", f)) = CopilotEventCount(CopilotLog(f))
  BY Zenon DEF EventCount, LogOf
<1>6. EventCount("opencode", LogOf("opencode", f)) = OpenCodeEventCount(OpenCodeLog(f))
  BY Zenon DEF EventCount, LogOf
<1>7. EventCount("grok", LogOf("grok", f)) = GrokEventCount(GrokLog(f))
  BY Zenon DEF EventCount, LogOf
<1>8. EventCount("grok-events", LogOf("grok-events", f)) = GrokEventCount(GrokEventsOnly(f))
  BY Zenon DEF EventCount, LogOf
<1>9. EventCount("aider", LogOf("aider", f)) = AiderEventCount(AiderLog(f))
  BY Zenon DEF EventCount, LogOf
<1>10. EventCount("cursor", LogOf("cursor", f)) = CursorEventCount(CursorLog(f))
  BY Zenon DEF EventCount, LogOf
<1>11. EventCount("cline", LogOf("cline", f)) = ClineEventCount(ClineLog(f))
  BY Zenon DEF EventCount, LogOf
<1>12. EventCount("mistral-vibe", LogOf("mistral-vibe", f)) = VibeEventCount(VibeLog(f))
  BY Zenon DEF EventCount, LogOf
<1>13. EventCount("amazon-q", LogOf("amazon-q", f)) = AmazonQEventCount(AmazonQLog(f))
  BY Zenon DEF EventCount, LogOf
<1>14. EventCount("plandex", LogOf("plandex", f)) = PlandexEventCount(PlandexLog(f))
  BY Zenon DEF EventCount, LogOf
<1>15. EventCount("kimi", LogOf("kimi", f)) = KimiEventCount(KimiLog(f))
  BY Zenon DEF EventCount, LogOf
<1>16. EventCount("openhands", LogOf("openhands", f)) = OpenHandsEventCount(OpenHandsLog(f))
  BY Zenon DEF EventCount, LogOf
<1>17. EventCount("continue", LogOf("continue", f)) = ContinueEventCount(ContinueLog(f))
  BY Zenon DEF EventCount, LogOf
<1>18. EventCount("amp", LogOf("amp", f)) = AmpEventCount(AmpThread(f, FALSE))
  BY Zenon DEF EventCount, LogOf, AmpLog
<1>19. EventCount("amp-ledger", LogOf("amp-ledger", f)) = AmpEventCount(AmpThread(f, TRUE))
  BY Zenon DEF EventCount, LogOf, AmpLedger
<1>20. EventCount("crush", LogOf("crush", f)) = CrushEventCount(CrushLog(f))
  BY Zenon DEF EventCount, LogOf
<1>21. EventCount("goose", LogOf("goose", f)) = GooseEventCount(GooseLog(f))
  BY Zenon DEF EventCount, LogOf
<1>22. EventCount("kilo", LogOf("kilo", f)) = KiloEventCount(KiloLog(f))
  BY Zenon DEF EventCount, LogOf
<1>23. EventCount("gemini", LogOf("gemini", f)) = GeminiEventCount(GeminiLog(f))
  BY Zenon DEF EventCount, LogOf
<1>24. EventCount("gemini-json", LogOf("gemini-json", f)) = GeminiEventCount(GeminiDocument(f))
  BY Zenon DEF EventCount, LogOf
<1> QED
  BY <1>1, <1>2, <1>3, <1>4, <1>5, <1>6, <1>7, <1>8, <1>9, <1>10, <1>11, <1>12, <1>13, <1>14,
     <1>15, <1>16, <1>17, <1>18, <1>19, <1>20, <1>21, <1>22, <1>23, <1>24, Zenon

(* The events of every tool grow with the session. *)
LEMMA EventsGrow ==
  ASSUME NEW tool \in Tools, NEW s, NEW t, Continued(s, t), Sound(s), Sound(t),
         OfTool(s, TraitsOf(tool)), OfTool(t, TraitsOf(tool))
  PROVE  Grows(EventCount(tool, LogOf(tool, s)), EventCount(tool, LogOf(tool, t)))
<1>1. IsList(s) /\ IsList(t) /\ Grows(Len(s), Len(t)) /\ Grows(1, 1)
  BY Going DEF Grows
<1>2. CASE tool = "pi"
  BY <1>1, <1>2, CountsAre, RecordCounts
<1>3. CASE tool = "qwen"
  BY <1>1, <1>3, CountsAre, RecordCounts
<1>4. CASE tool = "codex"
  <2>1. Grows(CodexEventCount(CodexLog(s)), CodexEventCount(CodexLog(t)))
    BY CodexGrows
  <2> QED
    BY <1>4, <2>1, CountsAre
<1>5. CASE tool = "claude"
  BY <1>1, <1>5, CountsAre, RecordCounts
<1>6. CASE tool = "copilot"
  <2>1. OfTool(s, CopilotTraits) /\ OfTool(t, CopilotTraits)
    BY <1>6, Zenon DEF TraitsOf
  <2>2. Grows(CopilotEventCount(CopilotLog(s)), CopilotEventCount(CopilotLog(t)))
    BY <2>1, CopilotGrows
  <2> QED
    BY <1>6, <2>2, CountsAre
<1>7. CASE tool = "opencode"
  <2>1. Grows(OpenCodeEventCount(OpenCodeLog(s)), OpenCodeEventCount(OpenCodeLog(t)))
    BY OpenCodeGrows
  <2> QED
    BY <1>7, <2>1, CountsAre
<1>8. CASE tool = "grok"
  <2>1. Grows(GrokEventCount(GrokLog(s)), GrokEventCount(GrokLog(t)))
    BY GrokGrows
  <2> QED
    BY <1>8, <2>1, CountsAre
<1>9. CASE tool = "grok-events"
  <2>1. Grows(GrokEventCount(GrokEventsOnly(s)), GrokEventCount(GrokEventsOnly(t)))
    BY GrokGrows
  <2> QED
    BY <1>9, <2>1, CountsAre
<1>10. CASE tool = "aider"
  <2>1. Grows(AiderEventCount(AiderLog(s)), AiderEventCount(AiderLog(t)))
    BY AiderGrows
  <2> QED
    BY <1>10, <2>1, CountsAre
<1>11. CASE tool = "cursor"
  BY <1>1, <1>11, CountsAre, RecordCounts
<1>12. CASE tool = "cline"
  <2>1. Grows(ClineEventCount(ClineLog(s)), ClineEventCount(ClineLog(t)))
    BY ClineGrows
  <2> QED
    BY <1>12, <2>1, CountsAre
<1>13. CASE tool = "mistral-vibe"
  BY <1>1, <1>13, CountsAre, RecordCounts
<1>14. CASE tool = "amazon-q"
  <2>1. Grows(AmazonQEventCount(AmazonQLog(s)), AmazonQEventCount(AmazonQLog(t)))
    BY AmazonQGrows
  <2> QED
    BY <1>14, <2>1, CountsAre
<1>15. CASE tool = "plandex"
  BY <1>1, <1>15, CountsAre, RecordCounts
<1>16. CASE tool = "kimi"
  <2>1. OfTool(s, KimiTraits) /\ OfTool(t, KimiTraits)
    BY <1>16, Zenon DEF TraitsOf
  <2>2. Grows(KimiEventCount(KimiLog(s)), KimiEventCount(KimiLog(t)))
    BY <2>1, KimiGrows
  <2> QED
    BY <1>16, <2>2, CountsAre
<1>17. CASE tool = "openhands"
  <2>1. Grows(OpenHandsEventCount(OpenHandsLog(s)), OpenHandsEventCount(OpenHandsLog(t)))
    BY OpenHandsGrows
  <2> QED
    BY <1>17, <2>1, CountsAre
<1>18. CASE tool = "continue"
  <2>1. Grows(ContinueEventCount(ContinueLog(s)), ContinueEventCount(ContinueLog(t)))
    BY ContinueGrows
  <2> QED
    BY <1>18, <2>1, CountsAre
<1>19. CASE tool = "amp"
  <2>1. Grows(AmpEventCount(AmpThread(s, FALSE)), AmpEventCount(AmpThread(t, FALSE)))
    BY AmpGrows
  <2> QED
    BY <1>19, <2>1, CountsAre
<1>20. CASE tool = "amp-ledger"
  <2>1. Grows(AmpEventCount(AmpThread(s, TRUE)), AmpEventCount(AmpThread(t, TRUE)))
    BY AmpGrows
  <2> QED
    BY <1>20, <2>1, CountsAre
<1>21. CASE tool = "crush"
  <2>1. Grows(CrushEventCount(CrushLog(s)), CrushEventCount(CrushLog(t)))
    BY CrushGrows
  <2> QED
    BY <1>21, <2>1, CountsAre
<1>22. CASE tool = "goose"
  <2>1. Grows(GooseEventCount(GooseLog(s)), GooseEventCount(GooseLog(t)))
    BY GooseGrows
  <2> QED
    BY <1>22, <2>1, CountsAre
<1>23. CASE tool = "kilo"
  <2>1. Grows(KiloEventCount(KiloLog(s)), KiloEventCount(KiloLog(t)))
    BY KiloGrows
  <2> QED
    BY <1>23, <2>1, CountsAre
<1>24. CASE tool = "gemini"
  BY <1>1, <1>24, CountsAre, RecordCounts
<1>25. CASE tool = "gemini-json"
  BY <1>1, <1>25, CountsAre, RecordCounts
<1> QED
  BY <1>2, <1>3, <1>4, <1>5, <1>6, <1>7, <1>8, <1>9, <1>10, <1>11, <1>12, <1>13, <1>14, <1>15,
     <1>16, <1>17, <1>18, <1>19, <1>20, <1>21, <1>22, <1>23, <1>24, <1>25, Zenon DEF Tools
-----------------------------------------------------------------------------
(* The start of a list. *)
LEMMA Starts ==
  ASSUME NEW f, IsList(f), NEW k \in 0..Len(f)
  PROVE  /\ IsList(SubSeq(f, 1, k)) /\ Len(SubSeq(f, 1, k)) = k /\ k \in Nat /\ k <= Len(f)
         /\ \A i \in 1..k : SubSeq(f, 1, k)[i] = f[i] /\ i \in 1..Len(f)
<1>1. Len(f) \in Nat /\ k \in Nat /\ k <= Len(f) /\ DOMAIN f = 1..Len(f)
  BY DEF IsList
<1> DEFINE start == SubSeq(f, 1, k)
<1>2. start = [i \in 1..k |-> f[i]]
  BY <1>1 DEF IsList
<1>3. DOMAIN start = 1..k /\ start = [i \in 1..k |-> start[i]] /\ \A i \in 1..k : start[i] = f[i]
  BY <1>2
<1> HIDE DEF start
<1>4. IsList(start) /\ Len(start) = k
  BY <1>1, <1>3, Numbered
<1> QED
  BY <1>1, <1>3, <1>4 DEF start

(* A list is the start of itself, and has the same starts when it has grown. *)
LEMMA SameStarts ==
  ASSUME NEW f, IsList(f)
  PROVE  /\ SubSeq(f, 1, Len(f)) = f
         /\ \A x : /\ IsList(Append(f, x)) /\ Len(Append(f, x)) = Len(f) + 1
                   /\ Append(f, x)[Len(f) + 1] = x
                   /\ \A i \in 1..Len(f) : Append(f, x)[i] = f[i]
                   /\ \A k \in 0..Len(f) : SubSeq(Append(f, x), 1, k) = SubSeq(f, 1, k)
<1>1. SubSeq(f, 1, Len(f)) = f
  BY DEF IsList
<1>2. ASSUME NEW x
      PROVE  /\ IsList(Append(f, x)) /\ Len(Append(f, x)) = Len(f) + 1
             /\ Append(f, x)[Len(f) + 1] = x
             /\ \A i \in 1..Len(f) : Append(f, x)[i] = f[i]
             /\ \A k \in 0..Len(f) : SubSeq(Append(f, x), 1, k) = SubSeq(f, 1, k)
  <2> DEFINE V == Range(f) \cup {x}
             g == Append(f, x)
  <2>1. f \in Seq(V) /\ x \in V /\ Len(f) \in Nat
    BY DEF IsList
  <2>2. /\ g \in Seq(V) /\ Len(g) = Len(f) + 1 /\ g[Len(f) + 1] = x
        /\ \A i \in 1..Len(f) : g[i] = f[i]
    BY <2>1
  <2>3. \A k \in 0..Len(f) : SubSeq(g, 1, k) = SubSeq(f, 1, k)
    BY <2>1, <2>2
  <2> HIDE DEF g
  <2>4. DOMAIN g = 1..Len(g) /\ Len(g) \in Nat
    BY <2>2
  <2>5. g = [i \in 1..Len(g) |-> g[i]]
    BY <2>2
  <2>6. IsList(g)
    BY <2>4, <2>5, Numbered
  <2> QED
    BY <2>2, <2>3, <2>6 DEF g
<1> QED
  BY <1>1, <1>2

(* A session of a tool. *)
SessionOf(tool, f) == IsList(f) /\ OfTool(f, TraitsOf(tool)) /\ Sound(f)

(* The start of a session is one, that a longer one goes on from. *)
LEMMA SessionStarts ==
  ASSUME NEW tool, NEW f, SessionOf(tool, f), NEW j \in 0..Len(f), NEW k \in 0..Len(f), j <= k
  PROVE  /\ Continued(SubSeq(f, 1, j), SubSeq(f, 1, k))
         /\ SessionOf(tool, SubSeq(f, 1, j))
<1> DEFINE s == SubSeq(f, 1, j)
           t == SubSeq(f, 1, k)
<1>1. IsList(f) /\ Len(f) \in Nat /\ j \in Nat /\ k \in Nat
  BY DEF SessionOf, IsList
<1>2. /\ IsList(s) /\ Len(s) = j /\ \A i \in 1..j : s[i] = f[i] /\ i \in 1..Len(f)
      /\ IsList(t) /\ Len(t) = k /\ \A i \in 1..k : t[i] = f[i]
  BY <1>1, Starts
<1> HIDE DEF s, t
<1>3. Continued(s, t)
  BY <1>1, <1>2 DEF Continued
<1>4. OfTool(s, TraitsOf(tool))
  BY <1>2 DEF SessionOf, OfTool
<1>5. Continued(s, f)
  BY <1>1, <1>2 DEF Continued
<1>6. ASSUME NEW i \in 1..Len(s), s[i].kind = "finish"
      PROVE  \E m \in 1..i - 1 : Answers(s, m, i)
  <2>1. PICK m \in 1..i - 1 : Answers(f, m, i)
    BY <1>2, <1>6 DEF SessionOf, Sound
  <2>2. m \in 1..Len(s)
    BY <1>1, <1>2
  <2> QED
    BY <1>5, <2>1, <2>2, SameAnswers
<1>7. Sound(s)
  BY <1>2, <1>6 DEF SessionOf, Sound
<1> QED
  BY <1>2, <1>3, <1>4, <1>7 DEF SessionOf, s, t

(* The number of events in the first k facts of a session. *)
Events(tool, session, k) == EventCount(tool, LogOf(tool, SubSeq(session, 1, k)))

(* They grow with k. *)
LEMMA EventsAlong ==
  ASSUME NEW tool \in Tools, NEW f, SessionOf(tool, f), NEW j \in 0..Len(f), NEW k \in 0..Len(f), j <= k
  PROVE  Grows(Events(tool, f, j), Events(tool, f, k))
<1> DEFINE s == SubSeq(f, 1, j)
           t == SubSeq(f, 1, k)
<1>1. k <= k
  BY DEF SessionOf, IsList
<1>2. Continued(s, t) /\ SessionOf(tool, s) /\ SessionOf(tool, t)
  BY <1>1, SessionStarts
<1> HIDE DEF s, t
<1>3. Grows(EventCount(tool, LogOf(tool, s)), EventCount(tool, LogOf(tool, t)))
  BY <1>2, EventsGrow DEF SessionOf
<1> QED
  BY <1>3 DEF Events, s, t
-----------------------------------------------------------------------------
(* Nothing is ahead of the foremost, neither by what comes first in its rank nor by *)
(* what comes next.                                                                 *)
LEMMA ForemostIs ==
  ASSUME NEW ranks, NEW log \in Foremost(ranks), NEW other \in DOMAIN ranks
  PROVE  /\ log \in DOMAIN ranks
         /\ 1 \in DOMAIN ranks[other] => ~(ranks[other][1] > ranks[log][1])
         /\ 2 \in DOMAIN ranks[other] /\ ranks[other][1] = ranks[log][1] =>
              ~(ranks[other][2] > ranks[log][2])
<1>1. /\ log \in DOMAIN ranks
      /\ ~\E i \in DOMAIN ranks[other] :
             /\ ranks[other][i] > ranks[log][i]
             /\ \A j \in 1..i - 1 : ranks[other][j] = ranks[log][j]
  BY Zenon DEF Foremost
<1>2. ASSUME 1 \in DOMAIN ranks[other], ranks[other][1] > ranks[log][1] PROVE FALSE
  <2>1. \A j \in 1..1 - 1 : ranks[other][j] = ranks[log][j]
    OBVIOUS
  <2> QED
    BY <1>1, <1>2, <2>1
<1>3. ASSUME 2 \in DOMAIN ranks[other], ranks[other][1] = ranks[log][1], ranks[other][2] > ranks[log][2]
      PROVE  FALSE
  <2>1. \A j \in 1..2 - 1 : ranks[other][j] = ranks[log][j]
    <3>1. \A j \in 1..2 - 1 : j = 1
      OBVIOUS
    <3> QED
      BY <1>3, <3>1
  <2> QED
    BY <1>1, <1>3, <2>1
<1> QED
  BY <1>1, <1>2, <1>3

(* What an adapter selects has as many events as anything it read, for all tools but *)
(* one.                                                                              *)
LEMMA SelectedMost ==
  ASSUME NEW logs, NEW log \in Selected(logs), NEW other \in logs,
         provider \in Tools \ {"opencode"}
  PROVE  log \in logs /\ ~(EventCount(provider, other) > EventCount(provider, log))
<1>1. CASE provider = "pi"
  <2> DEFINE ranks == [l \in logs |-> PiRank(l)]
  <2>1. /\ Selected(logs) = Foremost(ranks) /\ EventCount(provider, log) = PiEventCount(log)
        /\ EventCount(provider, other) = PiEventCount(other)
    BY <1>1, Zenon DEF Selected, PiSelected, EventCount
  <2>2. DOMAIN ranks = logs /\ \A l \in logs : ranks[l][1] = PiEventCount(l) /\ 1 \in DOMAIN ranks[l]
    BY DEF PiRank
  <2> HIDE DEF ranks
  <2> QED
    BY <2>1, <2>2, ForemostIs
<1>2. CASE provider = "qwen"
  <2> DEFINE ranks == [l \in logs |-> QwenRank(l)]
  <2>1. /\ Selected(logs) = Foremost(ranks) /\ EventCount(provider, log) = QwenEventCount(log)
        /\ EventCount(provider, other) = QwenEventCount(other)
    BY <1>2, Zenon DEF Selected, QwenSelected, EventCount
  <2>2. DOMAIN ranks = logs /\ \A l \in logs : ranks[l][1] = QwenEventCount(l) /\ 1 \in DOMAIN ranks[l]
    BY DEF QwenRank
  <2> HIDE DEF ranks
  <2> QED
    BY <2>1, <2>2, ForemostIs
<1>3. CASE provider = "codex"
  <2> DEFINE ranks == [l \in logs |-> CodexRank(l)]
  <2>1. /\ Selected(logs) = Foremost(ranks) /\ EventCount(provider, log) = CodexEventCount(log)
        /\ EventCount(provider, other) = CodexEventCount(other)
    BY <1>3, Zenon DEF Selected, CodexSelected, EventCount
  <2>2. DOMAIN ranks = logs /\ \A l \in logs : ranks[l][1] = CodexEventCount(l) /\ 1 \in DOMAIN ranks[l]
    BY DEF CodexRank
  <2> HIDE DEF ranks
  <2> QED
    BY <2>1, <2>2, ForemostIs
<1>4. CASE provider = "claude"
  <2> DEFINE ranks == [l \in logs |-> ClaudeRank(l)]
  <2>1. /\ Selected(logs) = Foremost(ranks) /\ EventCount(provider, log) = ClaudeEventCount(log)
        /\ EventCount(provider, other) = ClaudeEventCount(other)
    BY <1>4, Zenon DEF Selected, ClaudeSelected, EventCount
  <2>2. DOMAIN ranks = logs /\ \A l \in logs : ranks[l][1] = ClaudeEventCount(l) /\ 1 \in DOMAIN ranks[l]
    BY DEF ClaudeRank
  <2> HIDE DEF ranks
  <2> QED
    BY <2>1, <2>2, ForemostIs
<1>5. CASE provider = "copilot"
  <2> DEFINE ranks == [l \in logs |-> CopilotRank(l)]
  <2>1. /\ Selected(logs) = Foremost(ranks) /\ EventCount(provider, log) = CopilotEventCount(log)
        /\ EventCount(provider, other) = CopilotEventCount(other)
    BY <1>5, Zenon DEF Selected, CopilotSelected, EventCount
  <2>2. DOMAIN ranks = logs /\ \A l \in logs : ranks[l][1] = CopilotEventCount(l) /\ 1 \in DOMAIN ranks[l]
    BY DEF CopilotRank
  <2> HIDE DEF ranks
  <2> QED
    BY <2>1, <2>2, ForemostIs
<1>6. CASE provider = "grok"
  <2> DEFINE ranks == [l \in logs |-> GrokRank(l)]
  <2>1. /\ Selected(logs) = Foremost(ranks) /\ EventCount(provider, log) = GrokEventCount(log)
        /\ EventCount(provider, other) = GrokEventCount(other)
    BY <1>6, Zenon DEF Selected, GrokSelected, EventCount
  <2>2. DOMAIN ranks = logs /\ \A l \in logs : ranks[l][1] = GrokEventCount(l) /\ 1 \in DOMAIN ranks[l]
    BY DEF GrokRank
  <2> HIDE DEF ranks
  <2> QED
    BY <2>1, <2>2, ForemostIs
<1>7. CASE provider = "grok-events"
  <2> DEFINE ranks == [l \in logs |-> GrokRank(l)]
  <2>1. /\ Selected(logs) = Foremost(ranks) /\ EventCount(provider, log) = GrokEventCount(log)
        /\ EventCount(provider, other) = GrokEventCount(other)
    BY <1>7, Zenon DEF Selected, GrokSelected, EventCount
  <2>2. DOMAIN ranks = logs /\ \A l \in logs : ranks[l][1] = GrokEventCount(l) /\ 1 \in DOMAIN ranks[l]
    BY DEF GrokRank
  <2> HIDE DEF ranks
  <2> QED
    BY <2>1, <2>2, ForemostIs
<1>8. CASE provider = "aider"
  <2> DEFINE ranks == [l \in logs |-> AiderRank(l)]
  <2>1. /\ Selected(logs) = Foremost(ranks) /\ EventCount(provider, log) = AiderEventCount(log)
        /\ EventCount(provider, other) = AiderEventCount(other)
    BY <1>8, Zenon DEF Selected, AiderSelected, EventCount
  <2>2. DOMAIN ranks = logs /\ \A l \in logs : ranks[l][1] = AiderEventCount(l) /\ 1 \in DOMAIN ranks[l]
    BY DEF AiderRank
  <2> HIDE DEF ranks
  <2> QED
    BY <2>1, <2>2, ForemostIs
<1>9. CASE provider = "cursor"
  <2> DEFINE ranks == [l \in logs |-> CursorRank(l)]
  <2>1. /\ Selected(logs) = Foremost(ranks) /\ EventCount(provider, log) = CursorEventCount(log)
        /\ EventCount(provider, other) = CursorEventCount(other)
    BY <1>9, Zenon DEF Selected, CursorSelected, EventCount
  <2>2. DOMAIN ranks = logs /\ \A l \in logs : ranks[l][1] = CursorEventCount(l) /\ 1 \in DOMAIN ranks[l]
    BY DEF CursorRank
  <2> HIDE DEF ranks
  <2> QED
    BY <2>1, <2>2, ForemostIs
<1>10. CASE provider = "cline"
  <2> DEFINE ranks == [l \in logs |-> ClineRank(l)]
  <2>1. /\ Selected(logs) = Foremost(ranks) /\ EventCount(provider, log) = ClineEventCount(log)
        /\ EventCount(provider, other) = ClineEventCount(other)
    BY <1>10, Zenon DEF Selected, ClineSelected, EventCount
  <2>2. DOMAIN ranks = logs /\ \A l \in logs : ranks[l][1] = ClineEventCount(l) /\ 1 \in DOMAIN ranks[l]
    BY DEF ClineRank
  <2> HIDE DEF ranks
  <2> QED
    BY <2>1, <2>2, ForemostIs
<1>11. CASE provider = "mistral-vibe"
  <2> DEFINE ranks == [l \in logs |-> VibeRank(l)]
  <2>1. /\ Selected(logs) = Foremost(ranks) /\ EventCount(provider, log) = VibeEventCount(log)
        /\ EventCount(provider, other) = VibeEventCount(other)
    BY <1>11, Zenon DEF Selected, VibeSelected, EventCount
  <2>2. DOMAIN ranks = logs /\ \A l \in logs : ranks[l][1] = VibeEventCount(l) /\ 1 \in DOMAIN ranks[l]
    BY DEF VibeRank
  <2> HIDE DEF ranks
  <2> QED
    BY <2>1, <2>2, ForemostIs
<1>12. CASE provider = "amazon-q"
  <2> DEFINE ranks == [l \in logs |-> AmazonQRank(l)]
  <2>1. /\ Selected(logs) = Foremost(ranks) /\ EventCount(provider, log) = AmazonQEventCount(log)
        /\ EventCount(provider, other) = AmazonQEventCount(other)
    BY <1>12, Zenon DEF Selected, AmazonQSelected, EventCount
  <2>2. DOMAIN ranks = logs /\ \A l \in logs : ranks[l][1] = AmazonQEventCount(l) /\ 1 \in DOMAIN ranks[l]
    BY DEF AmazonQRank
  <2> HIDE DEF ranks
  <2> QED
    BY <2>1, <2>2, ForemostIs
<1>13. CASE provider = "plandex"
  <2> DEFINE ranks == [l \in logs |-> PlandexRank(l)]
  <2>1. /\ Selected(logs) = Foremost(ranks) /\ EventCount(provider, log) = PlandexEventCount(log)
        /\ EventCount(provider, other) = PlandexEventCount(other)
    BY <1>13, Zenon DEF Selected, PlandexSelected, EventCount
  <2>2. DOMAIN ranks = logs /\ \A l \in logs : ranks[l][1] = PlandexEventCount(l) /\ 1 \in DOMAIN ranks[l]
    BY DEF PlandexRank
  <2> HIDE DEF ranks
  <2> QED
    BY <2>1, <2>2, ForemostIs
<1>14. CASE provider = "kimi"
  <2> DEFINE ranks == [l \in logs |-> KimiRank(l)]
  <2>1. /\ Selected(logs) = Foremost(ranks) /\ EventCount(provider, log) = KimiEventCount(log)
        /\ EventCount(provider, other) = KimiEventCount(other)
    BY <1>14, Zenon DEF Selected, KimiSelected, EventCount
  <2>2. DOMAIN ranks = logs /\ \A l \in logs : ranks[l][1] = KimiEventCount(l) /\ 1 \in DOMAIN ranks[l]
    BY DEF KimiRank
  <2> HIDE DEF ranks
  <2> QED
    BY <2>1, <2>2, ForemostIs
<1>15. CASE provider = "openhands"
  <2> DEFINE ranks == [l \in logs |-> OpenHandsRank(l)]
  <2>1. /\ Selected(logs) = Foremost(ranks) /\ EventCount(provider, log) = OpenHandsEventCount(log)
        /\ EventCount(provider, other) = OpenHandsEventCount(other)
    BY <1>15, Zenon DEF Selected, OpenHandsSelected, EventCount
  <2>2. DOMAIN ranks = logs /\ \A l \in logs : ranks[l][1] = OpenHandsEventCount(l) /\ 1 \in DOMAIN ranks[l]
    BY DEF OpenHandsRank
  <2> HIDE DEF ranks
  <2> QED
    BY <2>1, <2>2, ForemostIs
<1>16. CASE provider = "continue"
  <2> DEFINE ranks == [l \in logs |-> ContinueRank(l)]
  <2>1. /\ Selected(logs) = Foremost(ranks) /\ EventCount(provider, log) = ContinueEventCount(log)
        /\ EventCount(provider, other) = ContinueEventCount(other)
    BY <1>16, Zenon DEF Selected, ContinueSelected, EventCount
  <2>2. DOMAIN ranks = logs /\ \A l \in logs : ranks[l][1] = ContinueEventCount(l) /\ 1 \in DOMAIN ranks[l]
    BY DEF ContinueRank
  <2> HIDE DEF ranks
  <2> QED
    BY <2>1, <2>2, ForemostIs
<1>17. CASE provider = "amp"
  <2> DEFINE ranks == [l \in logs |-> AmpRank(l)]
  <2>1. /\ Selected(logs) = Foremost(ranks) /\ EventCount(provider, log) = AmpEventCount(log)
        /\ EventCount(provider, other) = AmpEventCount(other)
    BY <1>17, Zenon DEF Selected, AmpSelected, EventCount
  <2>2. DOMAIN ranks = logs /\ \A l \in logs : ranks[l][1] = AmpEventCount(l) /\ 1 \in DOMAIN ranks[l]
    BY DEF AmpRank
  <2> HIDE DEF ranks
  <2> QED
    BY <2>1, <2>2, ForemostIs
<1>18. CASE provider = "amp-ledger"
  <2> DEFINE ranks == [l \in logs |-> AmpRank(l)]
  <2>1. /\ Selected(logs) = Foremost(ranks) /\ EventCount(provider, log) = AmpEventCount(log)
        /\ EventCount(provider, other) = AmpEventCount(other)
    BY <1>18, Zenon DEF Selected, AmpSelected, EventCount
  <2>2. DOMAIN ranks = logs /\ \A l \in logs : ranks[l][1] = AmpEventCount(l) /\ 1 \in DOMAIN ranks[l]
    BY DEF AmpRank
  <2> HIDE DEF ranks
  <2> QED
    BY <2>1, <2>2, ForemostIs
<1>19. CASE provider = "crush"
  <2> DEFINE ranks == [l \in logs |-> CrushRank(l)]
  <2>1. /\ Selected(logs) = Foremost(ranks) /\ EventCount(provider, log) = CrushEventCount(log)
        /\ EventCount(provider, other) = CrushEventCount(other)
    BY <1>19, Zenon DEF Selected, CrushSelected, EventCount
  <2>2. DOMAIN ranks = logs /\ \A l \in logs : ranks[l][1] = CrushEventCount(l) /\ 1 \in DOMAIN ranks[l]
    BY DEF CrushRank
  <2> HIDE DEF ranks
  <2> QED
    BY <2>1, <2>2, ForemostIs
<1>20. CASE provider = "goose"
  <2> DEFINE ranks == [l \in logs |-> GooseRank(l)]
  <2>1. /\ Selected(logs) = Foremost(ranks) /\ EventCount(provider, log) = GooseEventCount(log)
        /\ EventCount(provider, other) = GooseEventCount(other)
    BY <1>20, Zenon DEF Selected, GooseSelected, EventCount
  <2>2. DOMAIN ranks = logs /\ \A l \in logs : ranks[l][1] = GooseEventCount(l) /\ 1 \in DOMAIN ranks[l]
    BY DEF GooseRank
  <2> HIDE DEF ranks
  <2> QED
    BY <2>1, <2>2, ForemostIs
<1>21. CASE provider = "kilo"
  <2> DEFINE ranks == [l \in logs |-> KiloRank(l)]
  <2>1. /\ Selected(logs) = Foremost(ranks) /\ EventCount(provider, log) = KiloEventCount(log)
        /\ EventCount(provider, other) = KiloEventCount(other)
    BY <1>21, Zenon DEF Selected, KiloSelected, EventCount
  <2>2. DOMAIN ranks = logs /\ \A l \in logs : ranks[l][1] = KiloEventCount(l) /\ 1 \in DOMAIN ranks[l]
    BY DEF KiloRank
  <2> HIDE DEF ranks
  <2> QED
    BY <2>1, <2>2, ForemostIs
<1>22. CASE provider = "gemini"
  <2> DEFINE ranks == [l \in logs |-> GeminiRank(l)]
  <2>1. /\ Selected(logs) = Foremost(ranks) /\ EventCount(provider, log) = GeminiEventCount(log)
        /\ EventCount(provider, other) = GeminiEventCount(other)
    BY <1>22, Zenon DEF Selected, GeminiSelected, EventCount
  <2>2. DOMAIN ranks = logs /\ \A l \in logs : ranks[l][1] = GeminiEventCount(l) /\ 1 \in DOMAIN ranks[l]
    BY DEF GeminiRank
  <2> HIDE DEF ranks
  <2> QED
    BY <2>1, <2>2, ForemostIs
<1>23. CASE provider = "gemini-json"
  <2> DEFINE ranks == [l \in logs |-> GeminiRank(l)]
  <2>1. /\ Selected(logs) = Foremost(ranks) /\ EventCount(provider, log) = GeminiEventCount(log)
        /\ EventCount(provider, other) = GeminiEventCount(other)
    BY <1>23, Zenon DEF Selected, GeminiSelected, EventCount
  <2>2. DOMAIN ranks = logs /\ \A l \in logs : ranks[l][1] = GeminiEventCount(l) /\ 1 \in DOMAIN ranks[l]
    BY DEF GeminiRank
  <2> HIDE DEF ranks
  <2> QED
    BY <2>1, <2>2, ForemostIs
<1> QED
  BY <1>1, <1>2, <1>3, <1>4, <1>5, <1>6, <1>7, <1>8, <1>9, <1>10, <1>11, <1>12, <1>13, <1>14,
     <1>15, <1>16, <1>17, <1>18, <1>19, <1>20, <1>21, <1>22, <1>23, Zenon DEF Tools

(* OpenCode counts the parts as well, and then looks when the log was updated. *)
LEMMA SelectedOfOpenCode ==
  ASSUME NEW logs, NEW log \in Selected(logs), NEW other \in logs, provider = "opencode"
  PROVE  /\ log \in logs
         /\ ~(OpenCodeRank(other)[1] > OpenCodeRank(log)[1])
         /\ OpenCodeRank(other)[1] = OpenCodeRank(log)[1] => ~(other.updated > log.updated)
<1> DEFINE ranks == [l \in logs |-> OpenCodeRank(l)]
<1>1. Selected(logs) = Foremost(ranks)
  BY Zenon DEF Selected, OpenCodeSelected
<1>2. DOMAIN ranks = logs /\ \A l \in logs : ranks[l] = OpenCodeRank(l)
  OBVIOUS
<1>3. \A l : {1, 2} \subseteq DOMAIN OpenCodeRank(l) /\ OpenCodeRank(l)[2] = l.updated
  BY DEF OpenCodeRank
<1> HIDE DEF ranks
<1> QED
  BY <1>1, <1>2, <1>3, ForemostIs
-----------------------------------------------------------------------------
(* A copy of some first facts of a session, *)
Copied(copy, f) ==
  /\ copy \in [seen : 1..Len(f), held : 1..Len(f), offered : 0..Len(f)]
  /\ copy.seen <= copy.held

(* and one that has as many events as the longest source that was offered with it. *)
Chosen(copy, tool, f) ==
  /\ Copied(copy, f)
  /\ copy.seen <= copy.offered
  /\ Events(tool, f, copy.seen) = Events(tool, f, copy.offered)

SelectedInv ==
  selected # <<>> => /\ selected[1] \in {"log", "backup"}
                     /\ Chosen(selected[2], provider, facts)
                     /\ selected[1] = "backup" => selected[2].held = backup
UploadInv == upload # Nothing => Chosen(upload, provider, facts)
StoredInv == stored # Nothing => Copied(stored, facts)
CurrentInv ==
  current => /\ stored # Nothing
             /\ Events(provider, facts, stored.seen) = Events(provider, facts, Len(facts))

(* What is under way has as many events as what it was chosen from, and what is      *)
(* stored as many as the log, if a collection that was offered the log was delivered *)
(* since it was last written.                                                        *)
LInv ==
  /\ provider \in Tools /\ SessionOf(provider, facts) /\ backup \in 0..Len(facts)
  /\ SelectedInv /\ UploadInv /\ StoredInv /\ CurrentInv

(* What a session may go on with. *)
LEMMA HappeningIs ==
  ASSUME NEW fact \in Happenings
  PROVE  /\ fact.kind \in TraitsOf(provider) \cap Kinds
         /\ fact.kind = "begin" => fact.tool = FALSE
         /\ fact.kind = "finish" => Unfinished(fact.turn)
<1>1. \A kind, turns : \A one \in Plain(kind, turns) : one.kind = kind
  BY DEF Plain, Fact
<1>2. \A kind, turns : \A one \in Ending(kind, turns) : one.kind = kind /\ one.turn \in turns
  BY DEF Ending, Fact
<1>3. \A kind, turns : \A one \in Billing(kind, turns) : one.kind = kind /\ one.tool = FALSE
  BY DEF Billing, Fact
<1>4. \A kind, turns : \A one \in Closing(kind, turns) : one.kind = kind
  BY DEF Closing, Fact
<1> DEFINE plain == Plain("ask", IF "branches" \in Traits THEN Places \cup {0} ELSE Places)
                     \cup Plain("again", {turn \in Places : Repeatable(turn)})
                     \cup Plain("fail", {turn \in Places : Open(turn)})
                     \cup Plain("compact", Places) \cup Plain("note", Places)
                     \cup Plain("rewind", Turns(GeminiStanding(facts)))
           answers == Ending("answer", {turn \in Places : Open(turn)})
           finished == Ending("finish", {turn \in Places : Unfinished(turn)})
           billed == Billing("begin", Places) \cup Billing("advised", Places)
                     \cup Billing("extra", Places) \cup Billing("side", Places)
<1>5. fact.kind \in TraitsOf(provider)
  BY Zenon DEF Happenings, Traits
<1>6. fact \in plain \cup answers \cup finished \cup billed \cup Closing("close", Places)
  BY Zenon DEF Happenings
<1>7. CASE fact \in plain
  <2>1. fact.kind \in {"ask", "again", "fail", "compact", "note", "rewind"}
    BY <1>1, <1>7
  <2> QED
    BY <1>5, <2>1 DEF Kinds
<1>8. CASE fact \in answers
  BY <1>2, <1>5, <1>8 DEF Kinds
<1>9. CASE fact \in finished
  <2>1. fact.kind = "finish" /\ fact.turn \in {turn \in Places : Unfinished(turn)}
    BY <1>2, <1>9
  <2> QED
    BY <1>5, <2>1 DEF Kinds
<1>10. CASE fact \in billed
  <2>1. fact.kind \in {"begin", "advised", "extra", "side"} /\ fact.tool = FALSE
    BY <1>3, <1>10
  <2> QED
    BY <1>5, <2>1 DEF Kinds
<1>11. CASE fact \in Closing("close", Places)
  BY <1>4, <1>5, <1>11 DEF Kinds
<1> HIDE DEF plain, answers, finished, billed
<1> QED
  BY <1>6, <1>7, <1>8, <1>9, <1>10, <1>11, Zenon

(* A session that goes on is one. *)
LEMMA SessionGoesOn ==
  ASSUME SessionOf(provider, facts), NEW fact \in Happenings
  PROVE  SessionOf(provider, Append(facts, fact))
<1> DEFINE n == Len(facts)
           longer == Append(facts, fact)
<1>1. n \in Nat /\ IsList(facts) /\ OfTool(facts, TraitsOf(provider)) /\ Sound(facts) /\ DOMAIN facts = 1..n
  BY DEF SessionOf, IsList
<1>2. /\ IsList(longer) /\ Len(longer) = n + 1 /\ longer[n + 1] = fact
      /\ \A i \in 1..n : longer[i] = facts[i]
  BY <1>1, SameStarts
<1>3. /\ fact.kind \in TraitsOf(provider) \cap Kinds
      /\ fact.kind = "begin" => fact.tool = FALSE
      /\ fact.kind = "finish" => Unfinished(fact.turn)
  BY HappeningIs
<1> HIDE DEF longer
<1>4. Continued(facts, longer)
  BY <1>1, <1>2 DEF Continued
<1> HIDE DEF n
<1>5. \A i \in 1..n + 1 : i \in 1..n \/ i = n + 1
  BY <1>1
<1>6. OfTool(longer, TraitsOf(provider))
  BY <1>1, <1>2, <1>3, <1>5 DEF OfTool, n
<1>7. ASSUME NEW i \in 1..n + 1, longer[i].kind = "finish"
      PROVE  \E j \in 1..i - 1 : Answers(longer, j, i)
  <2>1. CASE i \in 1..n
    <3>1. PICK j \in 1..i - 1 : Answers(facts, j, i)
      BY <1>1, <1>2, <1>7, <2>1 DEF Sound, n
    <3>2. j \in 1..n
      BY <1>1, <2>1
    <3> QED
      BY <1>4, <2>1, <3>1, <3>2, SameAnswers DEF n
  <2>2. CASE i = n + 1
    <3>1. fact.kind = "finish" /\ Unfinished(fact.turn)
      BY <1>2, <1>3, <1>7, <2>2
    <3>2. PICK j \in 1..n : /\ facts[j].kind = "begin" /\ facts[j].turn = fact.turn
                            /\ \A k \in j + 1..n : Within(facts, k) # fact.turn
      BY <1>1, <3>1 DEF Unfinished, n
    <3>3. ASSUME NEW k \in j + 1..n, facts[k].turn = fact.turn
          PROVE  facts[k].kind \notin {"begin", "finish"}
      BY <3>2, <3>3 DEF Within
    <3>4. ASSUME NEW k \in j + 1..i - 1, longer[k].turn = longer[j].turn
          PROVE  longer[k].kind \notin {"begin", "finish"}
      <4>1. k \in j + 1..n /\ k \in 1..n
        BY <1>1, <2>2
      <4> QED
        BY <1>2, <3>2, <3>3, <3>4, <4>1
    <3>5. i \in j + 1..n + 1 /\ j \in 1..i - 1
      BY <1>1, <2>2
    <3>6. Answers(longer, j, i)
      BY <1>2, <1>7, <2>2, <3>2, <3>4, <3>5 DEF Answers
    <3> QED
      BY <3>5, <3>6
  <2> QED
    BY <1>5, <2>1, <2>2
<1>8. Sound(longer)
  <2>1. \A i \in 1..n + 1 : longer[i].kind = "begin" => longer[i].tool = FALSE
    BY <1>1, <1>2, <1>3, <1>5 DEF Sound, n
  <2> QED
    BY <1>2, <1>7, <2>1 DEF Sound
<1> QED
  BY <1>2, <1>6, <1>8 DEF SessionOf, longer

(* A copy stays one while the session goes on, *)
LEMMA CopyStays ==
  ASSUME NEW tool, NEW f, IsList(f), NEW fact, NEW copy
  PROVE  /\ Copied(copy, f) => Copied(copy, Append(f, fact))
         /\ Chosen(copy, tool, f) => Chosen(copy, tool, Append(f, fact))
<1> DEFINE g == Append(f, fact)
<1>1. /\ Len(f) \in Nat /\ Len(g) = Len(f) + 1
      /\ \A k \in 0..Len(f) : SubSeq(g, 1, k) = SubSeq(f, 1, k)
  BY SameStarts DEF IsList
<1> HIDE DEF g
<1>2. ASSUME Copied(copy, f)
      PROVE  Copied(copy, g) /\ copy.seen \in 0..Len(f) /\ copy.offered \in 0..Len(f)
  BY <1>1, <1>2 DEF Copied
<1>3. ASSUME Chosen(copy, tool, f) PROVE Chosen(copy, tool, g)
  BY <1>1, <1>2, <1>3 DEF Chosen, Events
<1> QED
  BY <1>2, <1>3 DEF g


(* It holds at first, *)
LEMMA LInit == Init => LInv
<1> SUFFICES ASSUME Init PROVE LInv
  OBVIOUS
<1>1. /\ provider \in Providers /\ facts = <<>> /\ backup = 0 /\ selected = <<>>
      /\ upload = Nothing /\ stored = Nothing /\ current = FALSE
  BY DEF Init
<1>2. IsList(facts) /\ Len(facts) = 0
  BY <1>1, WrittenOut
<1>3. SessionOf(provider, facts)
  BY <1>2 DEF SessionOf, OfTool, Sound
<1>4. SelectedInv /\ UploadInv /\ StoredInv /\ CurrentInv
  BY <1>1 DEF SelectedInv, UploadInv, StoredInv, CurrentInv
<1> QED
  BY <1>1, <1>2, <1>3, <1>4, ProvidersAssumption DEF LInv

(* and stays when the tool writes on, *)
LEMMA LWrite == LInv /\ Write => LInv'
<1> SUFFICES ASSUME LInv, Write PROVE LInv'
  OBVIOUS
<1>1. PICK fact \in Happenings : facts' = Append(facts, fact)
  BY DEF Write
<1>2. /\ current' = FALSE /\ provider' = provider /\ backup' = backup /\ selected' = selected
      /\ upload' = upload /\ stored' = stored
  BY DEF Write
<1>3. /\ provider \in Tools /\ SessionOf(provider, facts) /\ IsList(facts) /\ backup \in 0..Len(facts)
      /\ SelectedInv /\ UploadInv /\ StoredInv
  BY DEF LInv, SessionOf
<1>4. SessionOf(provider, Append(facts, fact)) /\ Len(Append(facts, fact)) = Len(facts) + 1
  BY <1>3, SessionGoesOn, SameStarts
<1>5. \A copy : /\ Copied(copy, facts) => Copied(copy, facts')
                /\ Chosen(copy, provider, facts) => Chosen(copy, provider, facts')
  BY <1>1, <1>3, CopyStays
<1>6. SelectedInv' /\ UploadInv' /\ StoredInv' /\ CurrentInv'
  BY <1>2, <1>3, <1>5 DEF SelectedInv, UploadInv, StoredInv, CurrentInv, Nothing
<1>7. backup' \in 0..Len(facts')
  BY <1>1, <1>2, <1>3, <1>4 DEF IsList
<1> QED
  BY <1>1, <1>2, <1>3, <1>4, <1>6, <1>7 DEF LInv

(* when the user keeps a copy, *)
LEMMA LKeepCopy == LInv /\ KeepCopy => LInv'
<1> SUFFICES ASSUME LInv, KeepCopy PROVE LInv'
  OBVIOUS
<1>1. /\ backup = 0 /\ backup' = Len(facts) /\ provider' = provider /\ facts' = facts
      /\ selected' = selected /\ upload' = upload /\ stored' = stored /\ current' = current
  BY DEF KeepCopy
<1>2. /\ provider \in Tools /\ SessionOf(provider, facts) /\ Len(facts) \in Nat
      /\ SelectedInv /\ UploadInv /\ StoredInv /\ CurrentInv
  BY DEF LInv, SessionOf, IsList
<1>3. selected # <<>> => selected[2].held # 0 /\ selected[1] # "backup"
  BY <1>1, <1>2 DEF SelectedInv, Chosen, Copied
<1>4. SelectedInv'
  BY <1>1, <1>2, <1>3 DEF SelectedInv
<1>5. UploadInv' /\ StoredInv' /\ CurrentInv'
  BY <1>1, <1>2 DEF UploadInv, StoredInv, CurrentInv, Nothing
<1> QED
  BY <1>1, <1>2, <1>4, <1>5 DEF LInv

(* The most of some numbers, of which there are two. *)
LEMMA MaxIs ==
  ASSUME NEW a \in Nat, NEW b \in Nat, NEW S, S \subseteq {a, b}, S # {}
  PROVE  Max(S) \in S /\ \A y \in S : y <= Max(S)
<1>1. \E x \in S : \A y \in S : y <= x
  <2>1. (a \in S \/ b \in S) /\ \A y \in S : y = a \/ y = b
    OBVIOUS
  <2>2. CASE a \in S /\ (b \in S => b <= a)
    <3>1. \A y \in S : y <= a
      BY <2>1, <2>2
    <3> QED
      BY <2>2, <3>1
  <2>3. CASE b \in S /\ (a \in S => a <= b)
    <3>1. \A y \in S : y <= b
      BY <2>1, <2>3
    <3> QED
      BY <2>3, <3>1
  <2> QED
    BY <2>1, <2>2, <2>3
<1> QED
  BY <1>1 DEF Max

(* What a collection selects has as many events as the longest source it was offered. *)
LEMMA SelectedIsChosen ==
  ASSUME provider \in Tools, SessionOf(provider, facts), backup \in 0..Len(facts),
         NEW sources \in SUBSET {source \in {"log", "backup"} : Size(source) > 0},
         NEW source \in sources,
         Candidate(source) \in Selected({Candidate(other) : other \in sources})
  PROVE  Chosen([seen |-> Size(source), held |-> Size(source),
                 offered |-> Max({Size(other) : other \in sources})], provider, facts)
<1> DEFINE sizes == {Size(other) : other \in sources}
           k == Size(source)
           m == Max(sizes)
           logs == {Candidate(other) : other \in sources}
<1>1. Len(facts) \in Nat /\ backup \in Nat /\ IsList(facts)
  BY DEF SessionOf, IsList
<1>2. ASSUME NEW other \in sources PROVE Size(other) \in {Len(facts), backup} /\ Size(other) \in 1..Len(facts)
  BY <1>1 DEF Size
<1>3. k \in sizes /\ sizes # {} /\ sizes \subseteq {Len(facts), backup}
  BY <1>2
<1>4. m \in sizes /\ \A y \in sizes : y <= m
  <2> HIDE DEF sizes
  <2> QED
    BY <1>1, <1>3, MaxIs
<1>5. PICK top \in sources : m = Size(top)
  <2> HIDE DEF m
  <2> QED
    BY <1>4
<1>6. Candidate(top) \in logs
  OBVIOUS
<1>7. k \in 1..Len(facts) /\ m \in 1..Len(facts) /\ k <= m
  <2>1. k <= m
    <3> HIDE DEF sizes, m
    <3> QED
      BY <1>3, <1>4
  <2> QED
    BY <1>2, <1>5, <2>1
<1>8. Candidate(source) = LogOf(provider, SubSeq(facts, 1, k)) /\ Candidate(top) = LogOf(provider, SubSeq(facts, 1, m))
  BY <1>5 DEF Candidate
<1> HIDE DEF sizes, k, m
<1>9. k \in 0..Len(facts) /\ m \in 0..Len(facts)
  BY <1>7
<1>10. Events(provider, facts, k) = Events(provider, facts, m)
  <2>1. Grows(Events(provider, facts, k), Events(provider, facts, m))
    BY <1>7, <1>9, EventsAlong
  <2>2. CASE provider # "opencode"
    <3>1. ~(EventCount(provider, Candidate(top)) > EventCount(provider, Candidate(source)))
      <4> HIDE DEF logs
      <4> QED
        BY <1>6, <2>2, SelectedMost DEF logs
    <3>2. ~(Events(provider, facts, m) > Events(provider, facts, k))
      BY <1>8, <3>1 DEF Events
    <3> QED
      BY <2>1, <3>2 DEF Grows
  <2>3. CASE provider = "opencode"
    <3> DEFINE few == SubSeq(facts, 1, k)
               many == SubSeq(facts, 1, m)
    <3>1. /\ Continued(few, many) /\ Sound(few) /\ Sound(many) /\ Len(few) = k /\ Len(many) = m
      BY <1>1, <1>7, <1>9, SessionStarts, Starts DEF SessionOf
    <3> HIDE DEF few, many
    <3>2. Candidate(source) = OpenCodeLog(few) /\ Candidate(top) = OpenCodeLog(many)
      BY <1>8, <2>3, Zenon DEF LogOf, few, many
    <3>3. Grows(OpenCodeRank(OpenCodeLog(few))[1], OpenCodeRank(OpenCodeLog(many))[1])
      BY <3>1, OpenCodeGrows
    <3>4. /\ ~(OpenCodeRank(Candidate(top))[1] > OpenCodeRank(Candidate(source))[1])
          /\ OpenCodeRank(Candidate(top))[1] = OpenCodeRank(Candidate(source))[1] =>
               ~(Candidate(top).updated > Candidate(source).updated)
      <4> HIDE DEF logs
      <4> QED
        BY <1>6, <2>3, SelectedOfOpenCode DEF logs
    <3>5. ~(OpenCodeLog(many).updated > OpenCodeLog(few).updated)
      BY <3>2, <3>3, <3>4 DEF Grows
    <3>6. OpenCodeLog(few).updated = k /\ OpenCodeLog(many).updated = m
      BY <3>1 DEF OpenCodeLog
    <3>7. k = m
      BY <1>7, <3>5, <3>6
    <3> QED
      BY <3>7
  <2> QED
    BY <2>2, <2>3
<1>11. Chosen([seen |-> k, held |-> k, offered |-> m], provider, facts)
  BY <1>1, <1>7, <1>9, <1>10 DEF Chosen, Copied
<1> QED
  BY <1>11 DEF k, m, sizes


(* when a collection selects, *)
LEMMA LSelect == LInv /\ Select => LInv'
<1> SUFFICES ASSUME LInv, Select PROVE LInv'
  OBVIOUS
<1>1. /\ upload = Nothing /\ selected = <<>>
      /\ provider' = provider /\ facts' = facts /\ backup' = backup /\ stored' = stored
      /\ current' = current
  BY DEF Select
<1>2. PICK sources \in SUBSET {source \in {"log", "backup"} : Size(source) > 0} :
         \E source \in sources :
            /\ Candidate(source) \in Selected({Candidate(other) : other \in sources})
            /\ LET copy == [seen |-> Size(source), held |-> Size(source),
                            offered |-> Max({Size(other) : other \in sources})]
               IN  IF "rereads" \in Traits
                   THEN selected' = <<source, copy>> /\ UNCHANGED upload
                   ELSE upload' = copy /\ UNCHANGED selected
  BY DEF Select
<1>3. PICK source \in sources :
         /\ Candidate(source) \in Selected({Candidate(other) : other \in sources})
         /\ LET copy == [seen |-> Size(source), held |-> Size(source),
                         offered |-> Max({Size(other) : other \in sources})]
            IN  IF "rereads" \in Traits
                THEN selected' = <<source, copy>> /\ UNCHANGED upload
                ELSE upload' = copy /\ UNCHANGED selected
  BY <1>2
<1> DEFINE copy == [seen |-> Size(source), held |-> Size(source),
                    offered |-> Max({Size(other) : other \in sources})]
<1>4. /\ provider \in Tools /\ SessionOf(provider, facts) /\ backup \in 0..Len(facts)
      /\ StoredInv /\ CurrentInv
  BY DEF LInv
<1>5. Chosen(copy, provider, facts)
  BY <1>3, <1>4, SelectedIsChosen
<1>6. source \in {"log", "backup"} /\ (source = "backup" => copy.held = backup)
  BY DEF Size
<1>7. \/ selected' = <<source, copy>> /\ upload' = upload
      \/ upload' = copy /\ selected' = selected
  BY <1>3
<1> HIDE DEF copy
<1>8. SelectedInv'
  BY <1>1, <1>5, <1>6, <1>7 DEF SelectedInv
<1>9. UploadInv'
  BY <1>1, <1>5, <1>7 DEF UploadInv, Nothing
<1>10. StoredInv' /\ CurrentInv'
  BY <1>1, <1>4 DEF StoredInv, CurrentInv, Nothing
<1> QED
  BY <1>1, <1>4, <1>8, <1>9, <1>10 DEF LInv

(* when it reads again what it selected, *)
LEMMA LReadAgain == LInv /\ ReadAgain => LInv'
<1> SUFFICES ASSUME LInv, ReadAgain PROVE LInv'
  OBVIOUS
<1>1. /\ selected # <<>> /\ upload' = [selected[2] EXCEPT !.held = Size(selected[1])] /\ selected' = <<>>
      /\ provider' = provider /\ facts' = facts /\ backup' = backup /\ stored' = stored
      /\ current' = current
  BY DEF ReadAgain
<1>2. /\ provider \in Tools /\ SessionOf(provider, facts) /\ backup \in 0..Len(facts)
      /\ SelectedInv /\ StoredInv /\ CurrentInv /\ Len(facts) \in Nat
  BY DEF LInv, SessionOf, IsList
<1> DEFINE copy == selected[2]
           held == Size(selected[1])
<1>3. /\ selected[1] \in {"log", "backup"} /\ Chosen(copy, provider, facts)
      /\ selected[1] = "backup" => copy.held = backup
  BY <1>1, <1>2 DEF SelectedInv
<1>4. held = IF selected[1] = "log" THEN Len(facts) ELSE backup
  BY DEF Size
<1> HIDE DEF copy, held
<1>5. /\ copy \in [seen : 1..Len(facts), held : 1..Len(facts), offered : 0..Len(facts)]
      /\ copy.seen <= copy.held /\ copy.seen <= copy.offered
      /\ Events(provider, facts, copy.seen) = Events(provider, facts, copy.offered)
  BY <1>3 DEF Chosen, Copied
<1>6. held \in 1..Len(facts) /\ copy.seen <= held
  BY <1>2, <1>3, <1>4, <1>5
<1> DEFINE new == [copy EXCEPT !.held = held]
<1>7. /\ new \in [seen : 1..Len(facts), held : 1..Len(facts), offered : 0..Len(facts)]
      /\ new.held = held /\ new.seen = copy.seen /\ new.offered = copy.offered
  BY <1>5, <1>6
<1>8. upload' = new
  BY <1>1 DEF copy, held
<1> HIDE DEF new
<1>9. Chosen(new, provider, facts)
  BY <1>5, <1>6, <1>7 DEF Chosen, Copied
<1>10. UploadInv'
  BY <1>1, <1>8, <1>9 DEF UploadInv
<1>11. SelectedInv' /\ StoredInv' /\ CurrentInv'
  BY <1>1, <1>2 DEF SelectedInv, StoredInv, CurrentInv, Nothing
<1> QED
  BY <1>1, <1>2, <1>10, <1>11 DEF LInv

(* and when the store ingests the copy. *)
LEMMA LIngest == LInv /\ Ingest => LInv'
<1> SUFFICES ASSUME LInv, Ingest PROVE LInv'
  OBVIOUS
<1> DEFINE n == Len(facts)
           E(k) == Events(provider, facts, k)
<1>1. /\ upload # Nothing /\ upload' = Nothing
      /\ current' = (current \/ upload.offered = n)
      /\ provider' = provider /\ facts' = facts /\ backup' = backup /\ selected' = selected
  BY DEF Ingest
<1>2. PICK replaced \in Replaces(upload, stored) :
         stored' = IF replaced THEN [upload EXCEPT !.offered = 0] ELSE stored
  BY DEF Ingest
<1>3. /\ provider \in Tools /\ SessionOf(provider, facts) /\ backup \in 0..n
      /\ SelectedInv /\ UploadInv /\ StoredInv /\ CurrentInv /\ n \in Nat
  BY DEF LInv, SessionOf, IsList
<1>4. /\ upload \in [seen : 1..n, held : 1..n, offered : 0..n]
      /\ upload.seen <= upload.held /\ upload.seen <= upload.offered
      /\ E(upload.seen) = E(upload.offered)
  BY <1>1, <1>3 DEF UploadInv, Chosen, Copied
<1>5. stored # Nothing => stored \in [seen : 1..n, held : 1..n, offered : 0..n] /\ stored.seen <= stored.held
  BY <1>3 DEF StoredInv, Copied
<1>6. /\ replaced \in BOOLEAN
      /\ stored = Nothing => replaced
      /\ stored # Nothing /\ upload.seen = stored.seen => ~replaced
      /\ stored # Nothing /\ upload.seen # stored.seen /\ E(upload.seen) # E(stored.seen) =>
           IF replaced THEN E(upload.seen) > E(stored.seen) ELSE ~(E(upload.seen) > E(stored.seen))
  <2>1. replaced \in IF stored = Nothing THEN {TRUE}
                     ELSE IF upload.seen = stored.seen THEN {FALSE}
                     ELSE IF E(upload.seen) = E(stored.seen) THEN BOOLEAN
                     ELSE {E(upload.seen) > E(stored.seen)}
    BY <1>2, Zenon DEF Replaces, Events
  <2> HIDE DEF E
  <2>2. CASE stored = Nothing
    BY <2>1, <2>2, Zenon
  <2>3. CASE stored # Nothing /\ upload.seen = stored.seen
    BY <2>1, <2>3, Zenon
  <2>4. CASE stored # Nothing /\ upload.seen # stored.seen /\ E(upload.seen) = E(stored.seen)
    BY <2>1, <2>4, Zenon
  <2>5. CASE stored # Nothing /\ upload.seen # stored.seen /\ E(upload.seen) # E(stored.seen)
    <3>1. replaced = (E(upload.seen) > E(stored.seen))
      BY <2>1, <2>5, Zenon
    <3>2. replaced \in BOOLEAN
      BY <3>1
    <3> QED
      BY <2>5, <3>1, <3>2, Zenon
  <2> QED
    BY <2>2, <2>3, <2>4, <2>5, Zenon
<1>7. \A k \in 1..n : Grows(E(k), E(n))
  <2>1. \A k \in 1..n : k \in 0..n /\ n \in 0..n /\ k <= n
    BY <1>3
  <2> QED
    BY <1>3, <2>1, EventsAlong
<1> HIDE DEF n, E
<1>8. stored' # Nothing /\ StoredInv'
  <2>1. CASE replaced
    <3>1. /\ stored' \in [seen : 1..n, held : 1..n, offered : 0..n]
          /\ stored'.seen <= stored'.held /\ stored'.seen # 0
      BY <1>2, <1>3, <1>4, <2>1
    <3> QED
      BY <1>1, <3>1 DEF StoredInv, Copied, Nothing, n
  <2>2. CASE ~replaced
    BY <1>1, <1>2, <1>3, <1>6, <2>2 DEF StoredInv, Nothing
  <2> QED
    BY <1>6, <2>1, <2>2
<1>9. ASSUME current' PROVE E(stored'.seen) = E(n)
  <2>1. /\ upload.seen \in 1..n /\ Grows(E(upload.seen), E(n))
        /\ stored # Nothing => stored.seen \in 1..n /\ Grows(E(stored.seen), E(n))
    BY <1>4, <1>5, <1>7
  <2>2. E(upload.seen) = E(n) \/ (stored # Nothing /\ E(stored.seen) = E(n))
    BY <1>1, <1>3, <1>4, <1>9 DEF CurrentInv, E, n
  <2>3. CASE replaced
    <3>1. stored'.seen = upload.seen
      BY <1>2, <1>4, <2>3
    <3>2. E(upload.seen) = E(n)
      <4>1. CASE E(upload.seen) # E(n) /\ E(upload.seen) # E(stored.seen)
        BY <1>6, <2>1, <2>2, <2>3, <4>1 DEF Grows
      <4> QED
        BY <2>2, <4>1
    <3> QED
      BY <3>1, <3>2
  <2>4. CASE ~replaced
    <3>1. stored' = stored /\ stored # Nothing
      BY <1>2, <1>6, <2>4
    <3>2. E(stored.seen) = E(n)
      <4>1. CASE upload.seen = stored.seen
        BY <2>2, <4>1
      <4>2. CASE upload.seen # stored.seen
        BY <1>6, <2>1, <2>2, <2>4, <3>1, <4>2 DEF Grows
      <4> QED
        BY <4>1, <4>2
    <3> QED
      BY <3>1, <3>2
  <2> QED
    BY <1>6, <2>3, <2>4
<1>10. CurrentInv'
  BY <1>1, <1>8, <1>9 DEF CurrentInv, E, n, Nothing
<1>11. SelectedInv' /\ UploadInv'
  BY <1>1, <1>3 DEF SelectedInv, UploadInv, Nothing
<1> QED
  BY <1>1, <1>3, <1>8, <1>10, <1>11 DEF LInv, n

(* So it does at every step. *)
LEMMA LStep == LInv /\ [Next]_vars => LInv'
<1>1. LInv /\ UNCHANGED vars => LInv'
  BY DEF vars, LInv, SelectedInv, UploadInv, StoredInv, CurrentInv, Nothing
<1> QED
  BY <1>1, LWrite, LKeepCopy, LSelect, LReadAgain, LIngest DEF Next

(* Whichever copies of a session collections read, and in which order they deliver     *)
(* what they selected, the stored copy ends up as complete as the log: the adapters'   *)
(* choice of a candidate and the store's choice of a copy never lose an event for good, *)
(* for every tool, sessions of any length and answers of any kind.                     *)
THEOREM SettledIsCurrentAlways == Spec => []SettledIsCurrent
<1>1. LInv => SettledIsCurrent
  <2> SUFFICES ASSUME LInv, current PROVE SettledIsCurrent
    BY DEF SettledIsCurrent
  <2>1. Events(provider, facts, stored.seen) = Events(provider, facts, Len(facts)) /\ IsList(facts)
    BY DEF LInv, CurrentInv, SessionOf
  <2>2. SubSeq(facts, 1, Len(facts)) = facts
    BY <2>1, SameStarts
  <2> QED
    BY <2>1, <2>2 DEF SettledIsCurrent, Events
<1> QED
  BY <1>1, LInit, LStep, PTL DEF Spec
=============================================================================
