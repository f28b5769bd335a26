--------------------------- MODULE CollectionProofs ---------------------------
(***************************************************************************)
(* Every group of files is read into exactly one batch, and what commands  *)
(* store is what one collection would, for any number of commands, any     *)
(* stores and any ceilings.                                                *)
(*                                                                         *)
(* The first part is about the operators of Transcripts, for lists of      *)
(* files of any length: flattening keeps the order, a group holds whole    *)
(* classes, and a batch that holds them keeps the copies and the rows that *)
(* one collection of all the files keeps.                                  *)
(*                                                                         *)
(* Induction is by least elements: the library proves that < is well       *)
(* founded on Nat, so a set of naturals has a least element, and the least *)
(* counterexample to what is claimed of every number is none.              *)
(***************************************************************************)
EXTENDS Collection, WellFoundedInduction, SequenceTheorems, TLAPS

(* The order of the naturals, as the library states it, *)
LEMMA NaturalsAreWellFounded == IsWellFoundedOn({ss \in Nat \X Nat : ss[1] < ss[2]}, Nat)
BY NatLessThanWellFounded DEF OpToRel

(* and the least of some naturals. *)
LEMMA Least ==
  ASSUME NEW T, T \subseteq Nat, T # {}
  PROVE  \E x \in T : \A y \in T : x <= y
<1> DEFINE R == {ss \in Nat \X Nat : ss[1] < ss[2]}
<1>1. IsWellFoundedOn(R, Nat)
  BY NaturalsAreWellFounded
<1>2. PICK x \in T : \A y \in T : ~(<<y, x>> \in R)
  <2> HIDE DEF R
  <2> QED
    BY <1>1, WFMin
<1>3. ASSUME NEW y \in T PROVE x <= y
  <2>1. ~(y < x)
    BY <1>2
  <2> QED
    BY <2>1
<1> QED
  BY <1>3

(* Induction from m up to n, for the numbers in a set. *)
LEMMA Induction ==
  ASSUME NEW m \in Nat, NEW n \in Nat, NEW S, m \in S,
         \A i \in m..n - 1 : i \in S => i + 1 \in S
  PROVE  \A i \in m..n : i \in S
<1> SUFFICES ASSUME NEW i \in m..n, i \notin S PROVE FALSE
  OBVIOUS
<1> DEFINE T == {k \in m..n : k \notin S}
<1>1. PICK k \in T : \A j \in T : k <= j
  <2>1. T \subseteq Nat /\ i \in T
    OBVIOUS
  <2> HIDE DEF T
  <2> QED
    BY <2>1, Least
<1>2. k \in Nat /\ k # m /\ k - 1 \in m..n - 1
  OBVIOUS
<1>3. k - 1 \in S
  BY <1>1, <1>2
<1> QED
  BY <1>2, <1>3

(* What is defined for a number from the number before it exists. *)
Iterates(f, n, V, first, step) ==
  /\ f \in [0..n -> V] /\ f[0] = first
  /\ \A i \in 1..n : f[i] = step[i][f[i - 1]]

(* The recursive functions of the model are such. *)
LEMMA Iterated ==
  ASSUME NEW n \in Nat, NEW V, NEW first \in V, NEW step \in [1..n -> [V -> V]]
  PROVE  \E f : Iterates(f, n, V, first, step)
<1> DEFINE Upto(k) == \E f : Iterates(f, k, V, first, step)
           S == {k \in 0..n : Upto(k)}
<1>1. 0 \in S
  <2> DEFINE g == [i \in 0..0 |-> first]
  <2>1. g \in [0..0 -> V] /\ g[0] = first
    OBVIOUS
  <2>2. \A i \in 1..0 : g[i] = step[i][g[i - 1]]
    OBVIOUS
  <2>3. Upto(0)
    <3> HIDE DEF g
    <3> QED
      BY <2>1, <2>2 DEF Iterates
  <2> HIDE DEF Upto
  <2> QED
    BY <2>3
<1>2. ASSUME NEW k \in 0..n - 1, k \in S PROVE k + 1 \in S
  <2>1. PICK f :
          f \in [0..k -> V] /\ f[0] = first /\ \A i \in 1..k : f[i] = step[i][f[i - 1]]
    BY <1>2 DEF Iterates
  <2> DEFINE g == [i \in 0..k + 1 |-> IF i = k + 1 THEN step[k + 1][f[k]] ELSE f[i]]
  <2>2. k + 1 \in 1..n /\ k \in 0..k
    OBVIOUS
  <2>3. step[k + 1][f[k]] \in V
    BY <2>1, <2>2
  <2>4. g \in [0..k + 1 -> V] /\ g[0] = first
    BY <2>1, <2>3
  <2>5. ASSUME NEW i \in 1..k + 1 PROVE g[i] = step[i][g[i - 1]]
    <3>1. CASE i = k + 1
      <4>1. g[i] = step[k + 1][f[k]] /\ g[i - 1] = f[k]
        BY <3>1
      <4> QED
        BY <3>1, <4>1
    <3>2. CASE i # k + 1
      <4>1. i \in 1..k /\ g[i] = f[i] /\ g[i - 1] = f[i - 1]
        BY <3>2
      <4> HIDE DEF g
      <4> QED
        BY <2>1, <4>1
    <3> QED
      BY <3>1, <3>2
  <2>6. Upto(k + 1)
    <3> HIDE DEF g
    <3> QED
      BY <2>4, <2>5 DEF Iterates
  <2> HIDE DEF Upto
  <2> QED
    BY <2>2, <2>6
<1>3. n \in S
  <2> HIDE DEF S
  <2>1. \A k \in 0..n - 1 : k \in S => k + 1 \in S
    BY <1>2
  <2>2. \A k \in 0..n : k \in S
    BY <1>1, <2>1, Induction
  <2> QED
    BY <2>2
<1> QED
  BY <1>3
-----------------------------------------------------------------------------
(* How FlattenSeq goes on, list by list. *)
Flattens(f, V, lists) ==
  /\ f \in [1..Len(lists) -> Seq(V)]
  /\ FlattenSeq(lists) = f[Len(lists)]
  /\ f[1] = lists[1]
  /\ \A i \in 2..Len(lists) : f[i] = f[i - 1] \o lists[i]

(* Which it does. *)
LEMMA Flattening ==
  ASSUME NEW V, NEW lists \in Seq(Seq(V)), lists # <<>>
  PROVE  \E f : Flattens(f, V, lists)
<1> DEFINE n == Len(lists)
           Is(f) == f = [i \in 1..n |-> IF i = 1 THEN lists[i] ELSE f[i - 1] \o lists[i]]
<1>1. n \in Nat /\ n >= 1 /\ \A i \in 1..n : lists[i] \in Seq(V)
  OBVIOUS
<1>2. FlattenSeq(lists) = (CHOOSE f : Is(f))[n]
  BY <1>1 DEF FlattenSeq
<1> HIDE DEF n
<1>3. \E f : Is(f)
  <2> DEFINE step == [i \in 1..n - 1 |-> [s \in Seq(V) |-> s \o lists[i + 1]]]
  <2>1. ASSUME NEW i \in 1..n - 1, NEW s \in Seq(V)
        PROVE  step[i][s] = s \o lists[i + 1] /\ s \o lists[i + 1] \in Seq(V)
    <3>1. i + 1 \in 1..n
      BY <1>1
    <3>2. lists[i + 1] \in Seq(V)
      BY <1>1, <3>1
    <3> QED
      BY <3>2
  <2>2. step \in [1..n - 1 -> [Seq(V) -> Seq(V)]]
    BY <2>1
  <2>3. n - 1 \in Nat /\ lists[1] \in Seq(V)
    BY <1>1
  <2> HIDE DEF step
  <2>4. PICK g :
          /\ g \in [0..n - 1 -> Seq(V)] /\ g[0] = lists[1]
          /\ \A i \in 1..n - 1 : g[i] = step[i][g[i - 1]]
    <3> DEFINE m == n - 1
               W == Seq(V)
               first == lists[1]
    <3>1. m \in Nat /\ first \in W /\ step \in [1..m -> [W -> W]]
      BY <2>2, <2>3
    <3> HIDE DEF m, W, first
    <3>2. \E g : Iterates(g, m, W, first, step)
      BY <3>1, Iterated
    <3> QED
      BY <3>2 DEF m, W, first, Iterates
  <2> DEFINE f == [i \in 1..n |-> g[i - 1]]
  <2>5. ASSUME NEW i \in 1..n
        PROVE  f[i] = IF i = 1 THEN lists[i] ELSE f[i - 1] \o lists[i]
    <3>1. CASE i = 1
      BY <2>4, <3>1
    <3>2. CASE i # 1
      <4>1. PICK j \in 1..n - 1 : i = j + 1
        BY <1>1, <3>2
      <4>2. f[i] = g[j] /\ f[i - 1] = g[j - 1] /\ j - 1 \in 0..n - 1
        BY <1>1, <4>1
      <4>3. g[j - 1] \in Seq(V) /\ g[j] = step[j][g[j - 1]]
        BY <2>4, <4>2
      <4>4. g[j] = g[j - 1] \o lists[j + 1]
        BY <2>1, <4>3
      <4> HIDE DEF f
      <4> QED
        BY <3>2, <4>1, <4>2, <4>4
    <3> QED
      BY <3>1, <3>2
  <2>6. f = [i \in 1..n |-> f[i]]
    OBVIOUS
  <2>7. Is(f)
    <3> HIDE DEF f
    <3> QED
      BY <2>5, <2>6
  <2> QED
    BY <2>7
<1>4. PICK f : Is(f) /\ FlattenSeq(lists) = f[n]
  <2> HIDE DEF Is
  <2> QED
    BY <1>2, <1>3
<1>5. /\ f[1] = lists[1] /\ DOMAIN f = 1..n
      /\ \A i \in 2..n : f[i] = f[i - 1] \o lists[i]
  <2>1. DOMAIN f = 1..n
    BY <1>4
  <2>2. ASSUME NEW i \in 1..n PROVE f[i] = IF i = 1 THEN lists[i] ELSE f[i - 1] \o lists[i]
    BY <1>4
  <2> HIDE DEF Is
  <2>3. 1 \in 1..n /\ \A i \in 2..n : i \in 1..n /\ i # 1
    BY <1>1
  <2> QED
    BY <2>1, <2>2, <2>3
<1>6. \A i \in 1..n : f[i] \in Seq(V)
  <2> DEFINE S == {k \in 1..n : f[k] \in Seq(V)}
  <2>1. 1 \in S
    BY <1>1, <1>5
  <2>2. ASSUME NEW k \in 1..n - 1, k \in S PROVE k + 1 \in S
    <3>1. k + 1 \in 2..n /\ k + 1 \in 1..n /\ (k + 1) - 1 = k
      BY <1>1
    <3>2. f[k + 1] = f[k] \o lists[k + 1] /\ lists[k + 1] \in Seq(V)
      BY <1>1, <1>5, <3>1
    <3>3. f[k] \in Seq(V)
      BY <2>2
    <3>4. f[k] \o lists[k + 1] \in Seq(V)
      BY <3>2, <3>3
    <3> QED
      BY <3>1, <3>2, <3>4
  <2> HIDE DEF S
  <2>3. \A i \in 1..n : i \in S
    BY <1>1, <2>1, <2>2, Induction
  <2> QED
    BY <2>3 DEF S
<1>7. f = [i \in 1..n |-> f[i]]
  BY <1>4
<1>8. f \in [1..n -> Seq(V)]
  BY <1>6, <1>7
<1> QED
  BY <1>4, <1>5, <1>8 DEF n, Flattens

(* Where the members of the first m lists are in what they flatten to: member k
   is member `inside[k]` of list `list[k]`, in the order of lists and members. *)
Places(flat, lists, m, list, inside) ==
  /\ list \in [1..Len(flat) -> 1..m] /\ inside \in [1..Len(flat) -> Nat]
  /\ \A k \in 1..Len(flat) :
       inside[k] \in 1..Len(lists[list[k]]) /\ flat[k] = lists[list[k]][inside[k]]
  /\ \A k, l \in 1..Len(flat) :
       k < l => list[k] < list[l] \/ (list[k] = list[l] /\ inside[k] < inside[l])
  /\ \A g \in 1..m : \A o \in 1..Len(lists[g]) :
       \E k \in 1..Len(flat) : list[k] = g /\ inside[k] = o

(* The first list is at its own places, *)
LEMMA FirstPlaces ==
  ASSUME NEW V, NEW lists \in Seq(Seq(V)), lists # <<>>
  PROVE  \E list, inside : Places(lists[1], lists, 1, list, inside)
<1> DEFINE n == Len(lists[1])
           list == [k \in 1..n |-> 1]
           inside == [k \in 1..n |-> k]
<1>1. n \in Nat
  OBVIOUS
<1> HIDE DEF n
<1>2. list \in [1..n -> 1..1] /\ inside \in [1..n -> Nat]
      /\ \A k \in 1..n : list[k] = 1 /\ inside[k] = k
  BY <1>1
<1> HIDE DEF list, inside
<1>3. Places(lists[1], lists, 1, list, inside)
  BY <1>1, <1>2 DEF Places, n
<1> QED
  BY <1>3

(* one more list comes after the others, *)
LEMMA MorePlaces ==
  ASSUME NEW V, NEW lists \in Seq(Seq(V)), NEW m \in 1..Len(lists) - 1,
         NEW flat \in Seq(V), NEW list, NEW inside, Places(flat, lists, m, list, inside)
  PROVE  \E list2, inside2 : Places(flat \o lists[m + 1], lists, m + 1, list2, inside2)
<1> DEFINE n == Len(flat)
           more == Len(lists[m + 1])
           list2 == [k \in 1..n + more |-> IF k <= n THEN list[k] ELSE m + 1]
           inside2 == [k \in 1..n + more |-> IF k <= n THEN inside[k] ELSE k - n]
           all == flat \o lists[m + 1]
<1>1. /\ m \in Nat /\ m >= 1 /\ m + 1 \in 1..Len(lists) /\ n \in Nat
      /\ lists[m + 1] \in Seq(V)
  OBVIOUS
<1>2. /\ more \in Nat /\ Len(all) = n + more
      /\ \A k \in 1..n : all[k] = flat[k]
      /\ \A k \in n + 1..n + more : all[k] = lists[m + 1][k - n]
  BY <1>1
<1>3. /\ list \in [1..n -> 1..m] /\ inside \in [1..n -> Nat]
      /\ \A k \in 1..n :
           inside[k] \in 1..Len(lists[list[k]]) /\ flat[k] = lists[list[k]][inside[k]]
      /\ \A k, l \in 1..n :
           k < l => list[k] < list[l] \/ (list[k] = list[l] /\ inside[k] < inside[l])
      /\ \A g \in 1..m : \A o \in 1..Len(lists[g]) :
           \E k \in 1..n : list[k] = g /\ inside[k] = o
  BY DEF Places
<1> HIDE DEF n, more, all
<1>4. /\ list2 \in [1..n + more -> 1..m + 1] /\ inside2 \in [1..n + more -> Nat]
      /\ \A k \in 1..n : list2[k] = list[k] /\ inside2[k] = inside[k]
      /\ \A k \in n + 1..n + more : list2[k] = m + 1 /\ inside2[k] = k - n
  <2>1. n \in Nat /\ more \in Nat /\ m \in Nat /\ 1..m \subseteq 1..m + 1 /\ m + 1 \in 1..m + 1
    BY <1>1, <1>2
  <2>2. \A k \in 1..n : k \in 1..n + more /\ k <= n /\ list[k] \in 1..m /\ inside[k] \in Nat
    BY <1>3, <2>1
  <2>3. \A k \in n + 1..n + more : k \in 1..n + more /\ ~(k <= n) /\ k - n \in Nat
    BY <2>1
  <2>4. \A k \in 1..n + more : k \in 1..n \/ k \in n + 1..n + more
    BY <2>1
  <2>5. \A k \in 1..n : list2[k] = list[k] /\ inside2[k] = inside[k]
    BY <2>2
  <2>6. \A k \in n + 1..n + more : list2[k] = m + 1 /\ inside2[k] = k - n
    BY <2>3
  <2>7. /\ list2 = [k \in 1..n + more |-> list2[k]]
        /\ inside2 = [k \in 1..n + more |-> inside2[k]]
    OBVIOUS
  <2> HIDE DEF list2, inside2
  <2>8. \A k \in 1..n + more : list2[k] \in 1..m + 1 /\ inside2[k] \in Nat
    BY <2>1, <2>2, <2>3, <2>4, <2>5, <2>6
  <2> QED
    BY <2>5, <2>6, <2>7, <2>8
<1> HIDE DEF list2, inside2
<1>5. \A k \in 1..n + more : k \in 1..n \/ (k \in n + 1..n + more /\ k - n \in 1..more)
  BY <1>1, <1>2
<1>6. ASSUME NEW k \in 1..n + more
      PROVE  inside2[k] \in 1..Len(lists[list2[k]]) /\ all[k] = lists[list2[k]][inside2[k]]
  <2>1. CASE k \in 1..n
    BY <1>2, <1>3, <1>4, <2>1
  <2>2. CASE k \in n + 1..n + more /\ k - n \in 1..more
    BY <1>2, <1>4, <2>2 DEF more
  <2> QED
    BY <1>5, <2>1, <2>2
<1>7. ASSUME NEW k \in 1..n + more, NEW l \in 1..n + more, k < l
      PROVE  list2[k] < list2[l] \/ (list2[k] = list2[l] /\ inside2[k] < inside2[l])
  <2>1. CASE l \in 1..n
    <3>1. k \in 1..n
      BY <1>1, <1>2, <1>7, <2>1
    <3> QED
      BY <1>3, <1>4, <1>7, <2>1, <3>1
  <2>2. CASE k \in 1..n /\ l \in n + 1..n + more
    <3>1. list2[k] \in 1..m /\ list2[l] = m + 1
      BY <1>3, <1>4, <2>2
    <3> QED
      BY <1>1, <3>1
  <2>3. CASE k \in n + 1..n + more /\ l \in n + 1..n + more
    BY <1>1, <1>2, <1>4, <1>7, <2>3
  <2> QED
    BY <1>5, <2>1, <2>2, <2>3
<1>8. ASSUME NEW g \in 1..m + 1, NEW o \in 1..Len(lists[g])
      PROVE  \E k \in 1..n + more : list2[k] = g /\ inside2[k] = o
  <2>1. CASE g \in 1..m
    <3>1. PICK k \in 1..n : list[k] = g /\ inside[k] = o
      BY <1>3, <2>1
    <3>2. k \in 1..n + more /\ list2[k] = g /\ inside2[k] = o
      BY <1>1, <1>2, <1>4, <3>1
    <3> QED
      BY <3>2
  <2>2. CASE g = m + 1
    <3>1. o \in 1..more /\ n + o \in n + 1..n + more /\ (n + o) - n = o
      <4>1. o \in 1..more
        BY <2>2 DEF more
      <4>2. o \in Nat /\ 1 <= o /\ o <= more /\ n \in Nat /\ more \in Nat
        BY <1>1, <1>2, <4>1
      <4> QED
        BY <4>2
    <3>2. n + o \in 1..n + more
      BY <1>1, <1>2, <3>1
    <3> QED
      BY <1>4, <2>2, <3>1, <3>2
  <2>3. g \in 1..m \/ g = m + 1
    BY <1>1
  <2> QED
    BY <2>1, <2>2, <2>3
<1>9. Places(all, lists, m + 1, list2, inside2)
  <2>1. /\ list2 \in [1..Len(all) -> 1..m + 1] /\ inside2 \in [1..Len(all) -> Nat]
    BY <1>2, <1>4
  <2>2. \A k \in 1..Len(all) :
          inside2[k] \in 1..Len(lists[list2[k]]) /\ all[k] = lists[list2[k]][inside2[k]]
    BY <1>2, <1>6
  <2>3. \A k, l \in 1..Len(all) :
          k < l => list2[k] < list2[l] \/ (list2[k] = list2[l] /\ inside2[k] < inside2[l])
    BY <1>2, <1>7
  <2>4. \A g \in 1..m + 1 : \A o \in 1..Len(lists[g]) :
          \E k \in 1..Len(all) : list2[k] = g /\ inside2[k] = o
    <3> TAKE g \in 1..m + 1
    <3> TAKE o \in 1..Len(lists[g])
    <3>1. PICK k \in 1..n + more : list2[k] = g /\ inside2[k] = o
      BY <1>8
    <3>2. k \in 1..Len(all)
      BY <1>2, <3>1
    <3> QED
      BY <3>1, <3>2
  <2> QED
    BY <2>1, <2>2, <2>3, <2>4 DEF Places
<1> QED
  BY <1>9 DEF all

(* and so all members have their places. *)
LEMMA PlacesOfAll ==
  ASSUME NEW V, NEW lists \in Seq(Seq(V))
  PROVE  /\ FlattenSeq(lists) \in Seq(V)
         /\ \E list, inside : Places(FlattenSeq(lists), lists, Len(lists), list, inside)
<1> DEFINE placed == /\ FlattenSeq(lists) \in Seq(V)
                     /\ \E list, inside :
                          Places(FlattenSeq(lists), lists, Len(lists), list, inside)
<1> SUFFICES placed
  BY Zenon
<1> HIDE DEF placed
<1>1. CASE lists = <<>>
  <2>1. FlattenSeq(lists) = <<>> /\ Len(lists) = 0 /\ Len(<<>>) = 0
    BY <1>1 DEF FlattenSeq
  <2> DEFINE none == [k \in 1..0 |-> 1]
  <2>2. none \in [1..0 -> 1..0] /\ none \in [1..0 -> Nat]
    OBVIOUS
  <2> HIDE DEF none
  <2>3. Places(<<>>, lists, 0, none, none)
    BY <2>1, <2>2 DEF Places
  <2> QED
    BY <2>1, <2>3 DEF placed
<1>2. CASE lists # <<>>
  <2>1. PICK f : Flattens(f, V, lists)
    BY <1>2, Flattening
  <2>2. /\ f \in [1..Len(lists) -> Seq(V)]
        /\ FlattenSeq(lists) = f[Len(lists)]
        /\ f[1] = lists[1]
        /\ \A i \in 2..Len(lists) : f[i] = f[i - 1] \o lists[i]
    BY <2>1 DEF Flattens
  <2>3. Len(lists) \in Nat /\ Len(lists) >= 1
    BY <1>2
  <2> DEFINE n == Len(lists)
             S == {m \in 1..n : \E list, inside : Places(f[m], lists, m, list, inside)}
  <2>4. 1 \in S
    BY <1>2, <2>2, <2>3, FirstPlaces
  <2>5. ASSUME NEW m \in 1..n - 1, m \in S PROVE m + 1 \in S
    <3>1. PICK list, inside : Places(f[m], lists, m, list, inside)
      BY <2>5
    <3>2. m \in 1..n /\ m + 1 \in 2..n /\ (m + 1) - 1 = m /\ m + 1 \in 1..n
      BY <2>3
    <3>3. f[m] \in Seq(V) /\ f[m + 1] = f[m] \o lists[m + 1]
      BY <2>2, <3>2
    <3>4. \E list2, inside2 : Places(f[m] \o lists[m + 1], lists, m + 1, list2, inside2)
      BY <3>1, <3>3, MorePlaces
    <3> QED
      BY <3>2, <3>3, <3>4
  <2> HIDE DEF S
  <2>6. n \in S
    <3>1. n \in Nat /\ n \in 1..n /\ 1 \in Nat
      BY <2>3
    <3> HIDE DEF n
    <3>2. \A i \in 1..n : i \in S
      BY <2>4, <2>5, <3>1, Induction
    <3> QED
      BY <3>1, <3>2
  <2>7. \E list, inside : Places(f[n], lists, n, list, inside)
    BY <2>6 DEF S
  <2> QED
    <3>1. FlattenSeq(lists) \in Seq(V)
      <4>1. f \in [1..n -> Seq(V)] /\ FlattenSeq(lists) = f[n]
        BY <2>2
      <4>2. n \in 1..n
        BY <2>3
      <4> HIDE DEF n
      <4> QED
        BY <4>1, <4>2
    <3>2. FlattenSeq(lists) = f[n]
      BY <2>2
    <3>3. \E list, inside : Places(FlattenSeq(lists), lists, n, list, inside)
      BY <2>7, <3>2, Zenon
    <3> QED
      BY <3>1, <3>3 DEF placed
<1> QED
  BY <1>1, <1>2
-----------------------------------------------------------------------------
(* Ordered lists the positions up to n, each once and ascending. *)
Lists(s, positions, n) ==
  /\ s \in Seq(Nat)
  /\ \A a \in 1..Len(s) : s[a] \in positions /\ s[a] \in 1..n
  /\ \A a, b \in 1..Len(s) : a < b => s[a] < s[b]
  /\ \A i \in 1..n : i \in positions => \E a \in 1..Len(s) : s[a] = i

(* With one more position, *)
LEMMA ListsMore ==
  ASSUME NEW k \in Nat, NEW positions, NEW s, Lists(s, positions, k)
  PROVE  Lists(IF k + 1 \in positions THEN Append(s, k + 1) ELSE s, positions, k + 1)
<1>1. /\ s \in Seq(Nat)
      /\ \A a \in 1..Len(s) : s[a] \in positions /\ s[a] \in 1..k
      /\ \A a, b \in 1..Len(s) : a < b => s[a] < s[b]
      /\ \A i \in 1..k : i \in positions => \E a \in 1..Len(s) : s[a] = i
  BY DEF Lists
<1>2. /\ k + 1 \in Nat /\ \A i \in 1..k + 1 : i \in 1..k \/ i = k + 1
      /\ \A i \in 1..k : i \in 1..k + 1 /\ i < k + 1
  OBVIOUS
<1>3. CASE k + 1 \in positions
  <2> DEFINE t == Append(s, k + 1)
             n == Len(s)
  <2>1. /\ t \in Seq(Nat) /\ n \in Nat /\ Len(t) = n + 1
        /\ t[n + 1] = k + 1 /\ \A a \in 1..n : t[a] = s[a]
    BY <1>1, <1>2
  <2> HIDE DEF t
  <2>2. ASSUME NEW a \in 1..n + 1 PROVE a \in 1..n \/ a = n + 1
    BY <2>1
  <2>3. ASSUME NEW a \in 1..n + 1 PROVE t[a] \in positions /\ t[a] \in 1..k + 1
    <3>1. CASE a \in 1..n
      BY <1>1, <1>2, <2>1, <3>1
    <3>2. CASE a = n + 1
      BY <1>2, <1>3, <2>1, <3>2
    <3> QED
      BY <2>2, <3>1, <3>2
  <2>4. ASSUME NEW a \in 1..n + 1, NEW b \in 1..n + 1, a < b PROVE t[a] < t[b]
    <3>1. a \in 1..n
      BY <2>1, <2>4
    <3>2. CASE b \in 1..n
      BY <1>1, <2>1, <2>4, <3>1, <3>2
    <3>3. CASE b = n + 1
      BY <1>1, <1>2, <2>1, <3>1, <3>3
    <3> QED
      BY <2>2, <3>2, <3>3
  <2>5. ASSUME NEW i \in 1..k + 1, i \in positions PROVE \E a \in 1..n + 1 : t[a] = i
    <3>1. CASE i \in 1..k
      <4>1. PICK a \in 1..n : s[a] = i
        BY <1>1, <2>5, <3>1
      <4>2. a \in 1..n + 1 /\ t[a] = i
        BY <2>1, <4>1
      <4> QED
        BY <4>2
    <3>2. CASE i = k + 1
      <4>1. n + 1 \in 1..n + 1
        BY <2>1
      <4> QED
        BY <2>1, <3>2, <4>1
    <3> QED
      BY <1>2, <3>1, <3>2
  <2>6. Lists(t, positions, k + 1)
    <3> HIDE DEF n
    <3> QED
      BY <2>1, <2>3, <2>4, <2>5 DEF Lists
  <2> QED
    BY <1>3, <2>6 DEF t
<1>4. CASE k + 1 \notin positions
  <2>1. ASSUME NEW i \in 1..k + 1, i \in positions PROVE \E a \in 1..Len(s) : s[a] = i
    BY <1>1, <1>2, <1>4, <2>1
  <2>2. Lists(s, positions, k + 1)
    BY <1>1, <1>2, <2>1 DEF Lists
  <2> QED
    BY <1>4, <2>2
<1> QED
  BY <1>3, <1>4

(* and with all of them. *)
LEMMA InOrderLists ==
  ASSUME NEW n \in Nat, NEW positions
  PROVE  Lists(Ordered(positions, n), positions, n)
<1> DEFINE Is(f) == f = [i \in 0..n |->
             IF i = 0 THEN <<>>
             ELSE IF i \in positions THEN Append(f[i - 1], i) ELSE f[i - 1]]
<1>1. Ordered(positions, n) = (CHOOSE f : Is(f))[n]
  BY DEF Ordered
<1>2. \E f : Is(f)
  <2> DEFINE W == Seq(Nat)
             step == [i \in 1..n |->
                        [s \in W |-> IF i \in positions THEN Append(s, i) ELSE s]]
  <2>1. ASSUME NEW i \in 1..n, NEW s \in W
        PROVE  /\ step[i][s] = IF i \in positions THEN Append(s, i) ELSE s
               /\ (IF i \in positions THEN Append(s, i) ELSE s) \in W
    OBVIOUS
  <2>2. step \in [1..n -> [W -> W]] /\ <<>> \in W
    BY <2>1
  <2> HIDE DEF step, W
  <2>3. PICK f : Iterates(f, n, W, <<>>, step)
    BY <2>2, Iterated
  <2>4. /\ f \in [0..n -> W] /\ f[0] = <<>>
        /\ \A i \in 1..n : f[i] = step[i][f[i - 1]]
    BY <2>3 DEF Iterates
  <2>5. ASSUME NEW i \in 0..n
        PROVE  f[i] = IF i = 0 THEN <<>>
                      ELSE IF i \in positions THEN Append(f[i - 1], i) ELSE f[i - 1]
    <3>1. CASE i # 0
      <4>1. i \in 1..n /\ i - 1 \in 0..n
        BY <3>1
      <4>2. f[i - 1] \in W
        BY <2>4, <4>1
      <4> QED
        BY <2>1, <2>4, <3>1, <4>1, <4>2
    <3> QED
      BY <2>4, <3>1
  <2>6. f = [i \in 0..n |-> f[i]]
    BY <2>4
  <2>7. Is(f)
    BY <2>5, <2>6
  <2> QED
    BY <2>7
<1>3. PICK f : Is(f) /\ Ordered(positions, n) = f[n]
  <2> HIDE DEF Is
  <2> QED
    BY <1>1, <1>2
<1>4. \A i \in 0..n :
        f[i] = IF i = 0 THEN <<>>
               ELSE IF i \in positions THEN Append(f[i - 1], i) ELSE f[i - 1]
  BY <1>3
<1> DEFINE S == {k \in 0..n : Lists(f[k], positions, k)}
<1>5. 0 \in S
  <2>1. f[0] = <<>> /\ <<>> \in Seq(Nat) /\ Len(<<>>) = 0
    BY <1>4
  <2>2. Lists(f[0], positions, 0)
    BY <2>1 DEF Lists
  <2> QED
    BY <2>2
<1>6. ASSUME NEW k \in 0..n - 1, k \in S PROVE k + 1 \in S
  <2>1. k \in Nat /\ k + 1 \in 0..n /\ k + 1 # 0 /\ (k + 1) - 1 = k
    OBVIOUS
  <2>2. f[k + 1] = IF k + 1 \in positions THEN Append(f[k], k + 1) ELSE f[k]
    BY <1>4, <2>1
  <2>3. Lists(f[k], positions, k)
    BY <1>6
  <2>4. Lists(f[k + 1], positions, k + 1)
    BY <2>1, <2>2, <2>3, ListsMore
  <2> QED
    BY <2>1, <2>4
<1>7. n \in S
  <2> HIDE DEF S
  <2>1. \A i \in 0..n : i \in S
    BY <1>5, <1>6, Induction
  <2> QED
    BY <2>1
<1> QED
  BY <1>3, <1>7
-----------------------------------------------------------------------------
(* Roots keeps every child with its parent: what has been joined is moved as one. *)
LEMMA RootsJoin ==
  ASSUME NEW files \in Seq(Files)
  PROVE  /\ Roots(files) \in [Conversations -> Conversations]
         /\ \A i \in 1..Len(files) :
              files[i].key # None /\ files[i].parent # None
                => Roots(files)[files[i].key] = Roots(files)[files[i].parent]
<1> DEFINE n == Len(files)
           W == [Conversations -> Conversations]
           own == [key \in Conversations |-> key]
           Joined(root, file) ==
             IF file.key = None \/ file.parent = None THEN root
             ELSE [key \in Conversations |->
                     IF root[key] = root[file.key] THEN root[file.parent] ELSE root[key]]
           Is(f) == f = [i \in 0..n |-> IF i = 0 THEN own ELSE Joined(f[i - 1], files[i])]
<1>1. n \in Nat /\ \A i \in 1..n : files[i] \in Files
  OBVIOUS
<1>2. Roots(files) = (CHOOSE f : Is(f))[n]
  BY DEF Roots
<1>3. own \in W
  OBVIOUS
<1> HIDE DEF n, own
<1>4. ASSUME NEW root \in W, NEW file \in Files
      PROVE  /\ Joined(root, file) \in W
             /\ file.key # None /\ file.parent # None
                  => Joined(root, file)[file.key] = Joined(root, file)[file.parent]
             /\ \A a, b \in Conversations :
                  root[a] = root[b] => Joined(root, file)[a] = Joined(root, file)[b]
  <2>1. /\ file.key \in Conversations \cup {None}
        /\ file.parent \in Conversations \cup {None}
    BY DEF Files
  <2>2. CASE file.key = None \/ file.parent = None
    BY <2>2
  <2>3. CASE ~(file.key = None \/ file.parent = None)
    <3> DEFINE moved == [key \in Conversations |->
                 IF root[key] = root[file.key] THEN root[file.parent] ELSE root[key]]
    <3>1. file.key \in Conversations /\ file.parent \in Conversations
          /\ Joined(root, file) = moved
      BY <2>1, <2>3
    <3>2. moved \in W
      BY <3>1
    <3>3. \A key \in Conversations :
            moved[key] = IF root[key] = root[file.key] THEN root[file.parent] ELSE root[key]
      OBVIOUS
    <3> HIDE DEF moved, Joined, W
    <3>4. moved[file.key] = moved[file.parent]
      BY <3>1, <3>3
    <3>5. \A a, b \in Conversations : root[a] = root[b] => moved[a] = moved[b]
      BY <3>3
    <3> QED
      BY <3>1, <3>2, <3>4, <3>5
  <2> QED
    BY <2>2, <2>3
<1> HIDE DEF Joined, W
<1>5. \E f : Is(f)
  <2> DEFINE step == [i \in 1..n |-> [root \in W |-> Joined(root, files[i])]]
  <2>1. step \in [1..n -> [W -> W]]
    BY <1>1, <1>4
  <2>2. \A i \in 1..n : \A root \in W : step[i][root] = Joined(root, files[i])
    OBVIOUS
  <2> HIDE DEF step
  <2>3. PICK f : Iterates(f, n, W, own, step)
    BY <1>1, <1>3, <2>1, Iterated
  <2>4. /\ f \in [0..n -> W] /\ f[0] = own
        /\ \A i \in 1..n : f[i] = step[i][f[i - 1]]
    BY <2>3 DEF Iterates
  <2>5. ASSUME NEW i \in 0..n
        PROVE  f[i] = IF i = 0 THEN own ELSE Joined(f[i - 1], files[i])
    <3>1. CASE i # 0
      <4>1. i \in 1..n /\ i - 1 \in 0..n
        BY <1>1, <3>1
      <4>2. f[i - 1] \in W
        BY <2>4, <4>1
      <4> QED
        BY <2>2, <2>4, <3>1, <4>1, <4>2
    <3> QED
      BY <2>4, <3>1
  <2>6. f = [i \in 0..n |-> f[i]]
    BY <2>4
  <2>7. Is(f)
    BY <2>5, <2>6
  <2> QED
    BY <2>7
<1>6. PICK f : Is(f) /\ Roots(files) = f[n]
  <2> HIDE DEF Is
  <2> QED
    BY <1>2, <1>5
<1>7. \A i \in 0..n : f[i] = IF i = 0 THEN own ELSE Joined(f[i - 1], files[i])
  BY <1>6
<1> DEFINE S == {k \in 0..n :
             /\ f[k] \in W
             /\ \A i \in 1..k : files[i].key # None /\ files[i].parent # None
                  => f[k][files[i].key] = f[k][files[i].parent]}
<1>8. 0 \in S
  BY <1>1, <1>3, <1>7
<1>9. ASSUME NEW k \in 0..n - 1, k \in S PROVE k + 1 \in S
  <2>1. k \in Nat /\ k + 1 \in 1..n /\ k + 1 \in 0..n /\ k + 1 # 0 /\ (k + 1) - 1 = k
    BY <1>1
  <2>2. f[k + 1] = Joined(f[k], files[k + 1])
    BY <1>7, <2>1
  <2>3. f[k] \in W /\ files[k + 1] \in Files
    BY <1>1, <1>9, <2>1
  <2>4. f[k + 1] \in W
    BY <1>4, <2>2, <2>3
  <2>5. ASSUME NEW i \in 1..k + 1, files[i].key # None, files[i].parent # None
        PROVE  f[k + 1][files[i].key] = f[k + 1][files[i].parent]
    <3> DEFINE root == f[k]
               file == files[k + 1]
    <3>1. root \in W /\ file \in Files /\ f[k + 1] = Joined(root, file)
      BY <2>2, <2>3
    <3>2. /\ file.key # None /\ file.parent # None
               => f[k + 1][file.key] = f[k + 1][file.parent]
          /\ \A a, b \in Conversations : root[a] = root[b] => f[k + 1][a] = f[k + 1][b]
      <4> HIDE DEF root, file
      <4> QED
        BY <1>4, <3>1
    <3>3. CASE i = k + 1
      BY <2>5, <3>3, <3>2
    <3>4. CASE i # k + 1
      <4>1. i \in 1..k /\ i \in 1..n
        BY <1>1, <2>1, <3>4
      <4>2. f[k][files[i].key] = f[k][files[i].parent]
        BY <1>9, <2>5, <4>1
      <4>3. files[i].key \in Conversations /\ files[i].parent \in Conversations
        BY <1>1, <2>5, <4>1 DEF Files
      <4> QED
        BY <3>2, <4>2, <4>3
    <3> QED
      BY <3>3, <3>4
  <2> QED
    BY <2>1, <2>4, <2>5
<1>10. n \in S
  <2> HIDE DEF S
  <2>1. \A i \in 0..n : i \in S
    BY <1>1, <1>8, <1>9, Induction
  <2> QED
    BY <1>1, <2>1
<1> QED
  BY <1>6, <1>10 DEF n, W
-----------------------------------------------------------------------------
(* Of each conversation one copy is kept. *)
LEMMA OneIsSelected ==
  ASSUME NEW files \in Seq(Files), NEW i \in KeptCopies(files), NEW j \in KeptCopies(files),
         files[i].key = files[j].key
  PROVE  i = j
<1>1. i \in 1..Len(files) /\ j \in 1..Len(files) /\ Best(files, i, j) /\ Best(files, j, i)
  BY DEF KeptCopies
<1>2. files[i] \in Files /\ files[j] \in Files
  BY <1>1
<1>3. files[i].rank \in Nat /\ files[j].rank \in Nat
  BY <1>2 DEF Files
<1> QED
  BY <1>1, <1>3 DEF Best

(* Its rank is the one that subagents are filtered against, *)
LEMMA SelectedRank ==
  ASSUME NEW files \in Seq(Files), NEW i \in KeptCopies(files)
  PROVE  RankIn(files, files[i].key) = files[i].rank
<1> DEFINE kept == {j \in KeptCopies(files) : files[j].key = files[i].key}
<1>1. kept = {i}
  BY OneIsSelected
<1>2. RankIn(files, files[i].key) = IF kept = {} THEN 0 ELSE files[CHOOSE j \in kept : TRUE].rank
  BY DEF RankIn
<1> HIDE DEF kept
<1> QED
  BY <1>1, <1>2

(* its row the one of the conversation, *)
LEMMA SelectedRow ==
  ASSUME NEW files \in Seq(Files), NEW i \in KeptCopies(files)
  PROVE  /\ files[i].key \in DOMAIN Normalized(files)
         /\ Normalized(files)[files[i].key] = Row(files, i)
<1> DEFINE key == files[i].key
           Kept(j) == j \in KeptCopies(files) /\ files[j].key = key
<1>1. key \in {files[j].key : j \in KeptCopies(files)}
  OBVIOUS
<1>2. (CHOOSE j \in KeptCopies(files) : files[j].key = key) = i
  BY OneIsSelected
<1> QED
  BY <1>1, <1>2 DEF Normalized

(* and every row is of such a copy. *)
LEMMA RowOfSelected ==
  ASSUME NEW files, NEW key \in DOMAIN Normalized(files)
  PROVE  \E i \in KeptCopies(files) : files[i].key = key
BY DEF Normalized

(* Some of the files of a list, of which the copies of one conversation are in
   their order; and those that hold all copies of their conversations and of the
   parents of these. *)
Within(some, files, place) ==
  /\ place \in [1..Len(some) -> 1..Len(files)]
  /\ \A k \in 1..Len(some) : some[k] = files[place[k]]
  /\ \A k, l \in 1..Len(some) :
       k < l /\ some[k].key = some[l].key /\ some[k].key # None => place[k] < place[l]

Closed(some, files, place) ==
  \A k \in 1..Len(some), i \in 1..Len(files) :
    /\ some[k].key # None /\ files[i].key # None
    /\ files[i].key = some[k].key \/ files[i].key = some[k].parent
    => \E l \in 1..Len(some) : place[l] = i

(* The copy that is kept of all files is kept of some of them. *)
LEMMA SelectedWithin ==
  ASSUME NEW some \in Seq(Files), NEW files \in Seq(Files), NEW place,
         Within(some, files, place), NEW k \in 1..Len(some), place[k] \in KeptCopies(files)
  PROVE  k \in KeptCopies(some)
<1>1. some[k].key # None
  BY DEF KeptCopies, Within
<1>2. ASSUME NEW l \in 1..Len(some), some[l].key = some[k].key PROVE Best(some, k, l)
  <2>1. /\ place[k] \in 1..Len(files) /\ place[l] \in 1..Len(files)
        /\ some[k] = files[place[k]] /\ some[l] = files[place[l]]
        /\ l < k => place[l] < place[k]
    BY <1>1, <1>2 DEF Within
  <2>2. Best(files, place[k], place[l])
    BY <1>2, <2>1 DEF KeptCopies
  <2>3. Len(some) \in Nat /\ Len(files) \in Nat
    OBVIOUS
  <2> QED
    BY <2>1, <2>2, <2>3 DEF Best
<1> QED
  BY <1>1, <1>2 DEF KeptCopies

(* Some files that hold all copies keep what all files keep. *)
LEMMA SelectedClosed ==
  ASSUME NEW some \in Seq(Files), NEW files \in Seq(Files), NEW place,
         Within(some, files, place), Closed(some, files, place), NEW k \in KeptCopies(some)
  PROVE  place[k] \in KeptCopies(files)
<1>1. /\ k \in 1..Len(some) /\ some[k].key # None /\ place[k] \in 1..Len(files)
      /\ some[k] = files[place[k]]
  BY DEF KeptCopies, Within
<1>2. ASSUME NEW i \in 1..Len(files), files[i].key = files[place[k]].key
      PROVE  Best(files, place[k], i)
  <2>1. PICK l \in 1..Len(some) : place[l] = i
    BY <1>1, <1>2 DEF Closed
  <2>2. some[l] = files[i] /\ (k < l => place[k] < i)
    BY <1>1, <1>2, <2>1 DEF Within
  <2>3. Best(some, k, l)
    BY <1>1, <1>2, <2>2 DEF KeptCopies
  <2>4. Len(some) \in Nat /\ Len(files) \in Nat
    OBVIOUS
  <2> QED
    BY <1>1, <2>1, <2>2, <2>3, <2>4 DEF Best
<1> QED
  BY <1>1, <1>2 DEF KeptCopies

(* The rows of such files are those of all files. *)
LEMMA ClosedRows ==
  ASSUME NEW some \in Seq(Files), NEW files \in Seq(Files), NEW place,
         Within(some, files, place), Closed(some, files, place),
         NEW key \in DOMAIN Normalized(some)
  PROVE  key \in DOMAIN Normalized(files) /\ Normalized(some)[key] = Normalized(files)[key]
<1>1. PICK k \in KeptCopies(some) : some[k].key = key
  BY RowOfSelected
<1>2. /\ k \in 1..Len(some) /\ place[k] \in KeptCopies(files) /\ some[k] = files[place[k]]
      /\ key # None
  BY <1>1, SelectedClosed DEF KeptCopies, Within
<1>3. /\ Normalized(some)[key] = Row(some, k)
      /\ key \in DOMAIN Normalized(files) /\ Normalized(files)[key] = Row(files, place[k])
  BY <1>1, <1>2, SelectedRow
<1> DEFINE parent == some[k].parent
<1>4. CASE parent = None
  BY <1>2, <1>3, <1>4 DEF Row
<1>5. CASE parent # None
  <2>1. RankIn(some, parent) = RankIn(files, parent)
    <3>1. CASE \E l \in KeptCopies(some) : some[l].key = parent
      <4>1. PICK l \in KeptCopies(some) : some[l].key = parent
        BY <3>1
      <4>2. l \in 1..Len(some) /\ place[l] \in KeptCopies(files) /\ some[l] = files[place[l]]
        BY SelectedClosed DEF KeptCopies, Within
      <4> QED
        BY <4>1, <4>2, SelectedRank
    <3>2. CASE ~\E l \in KeptCopies(some) : some[l].key = parent
      <4>1. ASSUME NEW i \in KeptCopies(files), files[i].key = parent PROVE FALSE
        <5>1. i \in 1..Len(files) /\ files[i].key # None
          BY DEF KeptCopies
        <5>2. PICK l \in 1..Len(some) : place[l] = i
          BY <1>1, <1>2, <4>1, <5>1 DEF Closed
        <5>3. l \in KeptCopies(some) /\ some[l] = files[i]
          BY <5>2, SelectedWithin DEF Within
        <5> QED
          BY <3>2, <4>1, <5>3
      <4> QED
        BY <3>2, <4>1 DEF RankIn
    <3> QED
      BY <3>1, <3>2
  <2> QED
    BY <1>2, <1>3, <1>5, <2>1 DEF Row
<1> QED
  BY <1>3, <1>4, <1>5
-----------------------------------------------------------------------------
(* The classes of transcripts are those of an equivalence, and hold whole sessions. *)
LEMMA Classes ==
  ASSUME NEW files, NEW i \in 1..Len(files)
  PROVE  /\ Class(files, i) \subseteq 1..Len(files) /\ i \in Class(files, i)
         /\ \A j \in Class(files, i) : Class(files, j) = Class(files, i)
<1>1. Class(files, i) \subseteq 1..Len(files) /\ i \in Class(files, i)
  BY DEF Class, Together
<1>2. ASSUME NEW j \in Class(files, i), NEW k \in 1..Len(files)
      PROVE  k \in Class(files, j) <=> k \in Class(files, i)
  BY <1>2 DEF Class, Together
<1>3. \A j \in Class(files, i) : Class(files, j) \subseteq 1..Len(files)
  BY DEF Class
<1> QED
  BY <1>1, <1>2, <1>3

(* Copies of a session and its subagents are in its class. *)
LEMMA ClassesHoldSessions ==
  ASSUME NEW files \in Seq(Files), NEW i \in 1..Len(files), NEW j \in 1..Len(files),
         files[i].key # None, files[j].key # None,
         files[j].key = files[i].key \/ files[j].key = files[i].parent
  PROVE  j \in Class(files, i)
BY RootsJoin DEF Class, Together

Leader(files, g) == Ordered(Firsts(files), Len(files))[g]
Members(files, g) == Ordered(Class(files, Leader(files, g)), Len(files))

(* What Groups is, in these terms. *)
LEMMA GroupsByMembers ==
  ASSUME NEW files \in Seq(Files)
  PROVE  /\ Groups(files) \in Seq(Seq(Files))
         /\ \A g \in 1..Len(Groups(files)) :
              /\ Leader(files, g) \in 1..Len(files)
              /\ Len(Groups(files)[g]) = Len(Members(files, g))
              /\ \A k \in 1..Len(Members(files, g)) :
                   Groups(files)[g][k] = files[Members(files, g)[k]]
<1> DEFINE n == Len(files)
           firsts == Ordered(Firsts(files), n)
           members(g) == Ordered(Class(files, firsts[g]), n)
           group(g) == [k \in 1..Len(members(g)) |-> files[members(g)[k]]]
<1>1. n \in Nat
  OBVIOUS
<1>2. Groups(files) = [g \in 1..Len(firsts) |-> group(g)]
  BY DEF Groups
<1>3. firsts \in Seq(Nat) /\ \A g \in 1..Len(firsts) : firsts[g] \in 1..n
  BY <1>1, InOrderLists DEF Lists
<1>4. ASSUME NEW g
      PROVE  /\ group(g) \in Seq(Files) /\ Len(group(g)) = Len(members(g))
             /\ \A k \in 1..Len(members(g)) : group(g)[k] = files[members(g)[k]]
  <2>1. members(g) \in Seq(Nat) /\ \A k \in 1..Len(members(g)) : members(g)[k] \in 1..n
    BY <1>1, InOrderLists DEF Lists
  <2> HIDE DEF members
  <2>2. /\ Len(members(g)) \in Nat
        /\ \A k \in 1..Len(members(g)) : files[members(g)[k]] \in Files
    BY <2>1
  <2> QED
    BY <2>2
<1> HIDE DEF group, members, firsts
<1>5. Groups(files) \in Seq(Seq(Files)) /\ Len(Groups(files)) = Len(firsts)
  BY <1>2, <1>3, <1>4
<1>6. \A g \in 1..Len(firsts) : Groups(files)[g] = group(g)
  BY <1>2
<1>7. \A g : Members(files, g) = members(g) /\ Leader(files, g) = firsts[g]
  BY DEF Members, Leader, members, firsts
<1>8. ASSUME NEW g \in 1..Len(Groups(files))
      PROVE  /\ Leader(files, g) \in 1..Len(files)
             /\ Len(Groups(files)[g]) = Len(Members(files, g))
             /\ \A k \in 1..Len(Members(files, g)) :
                  Groups(files)[g][k] = files[Members(files, g)[k]]
  <2>1. g \in 1..Len(firsts) /\ Groups(files)[g] = group(g)
    BY <1>5, <1>6
  <2>2. Leader(files, g) \in 1..Len(files)
    BY <1>3, <1>7, <2>1 DEF n
  <2> QED
    BY <1>4, <1>7, <2>1, <2>2
<1> QED
  BY <1>5, <1>8

(* Every transcript is in a group, *)
LEMMA HasGroup ==
  ASSUME NEW files \in Seq(Files), NEW i \in 1..Len(files)
  PROVE  \E g \in 1..Len(Groups(files)) : i \in Class(files, Leader(files, g))
<1>1. Class(files, i) \subseteq Nat /\ Class(files, i) # {}
  BY Classes
<1>2. PICK first \in Class(files, i) : \A j \in Class(files, i) : first <= j
  BY <1>1, Least
<1>3. first \in 1..Len(files) /\ Class(files, first) = Class(files, i)
  BY Classes
<1>4. first \in Firsts(files)
  BY <1>2, <1>3 DEF Firsts
<1>5. PICK g \in 1..Len(Ordered(Firsts(files), Len(files))) : Leader(files, g) = first
  <2>1. Len(files) \in Nat
    OBVIOUS
  <2> QED
    BY <1>3, <1>4, <2>1, InOrderLists DEF Lists, Leader
<1>6. Len(Groups(files)) = Len(Ordered(Firsts(files), Len(files)))
  <2>1. Ordered(Firsts(files), Len(files)) \in Seq(Nat)
    BY InOrderLists DEF Lists
  <2> QED
    BY <2>1 DEF Groups
<1> QED
  BY <1>3, <1>5, <1>6, Classes

(* and in no other. *)
LEMMA GroupsApart ==
  ASSUME NEW files \in Seq(Files),
         NEW g \in 1..Len(Groups(files)), NEW h \in 1..Len(Groups(files)),
         Class(files, Leader(files, g)) = Class(files, Leader(files, h))
  PROVE  g = h
<1> DEFINE firsts == Ordered(Firsts(files), Len(files))
<1>1. Lists(firsts, Firsts(files), Len(files)) /\ Len(files) \in Nat
  BY InOrderLists
<1>2. g \in 1..Len(firsts) /\ h \in 1..Len(firsts) /\ Len(firsts) \in Nat
  <2>1. firsts \in Seq(Nat)
    BY <1>1 DEF Lists
  <2> QED
    BY <2>1 DEF Groups
<1>3. /\ Leader(files, g) = firsts[g] /\ Leader(files, h) = firsts[h]
      /\ firsts[g] \in Firsts(files) /\ firsts[h] \in Firsts(files)
      /\ g < h => firsts[g] < firsts[h]
      /\ h < g => firsts[h] < firsts[g]
  BY <1>1, <1>2 DEF Lists, Leader
<1> HIDE DEF firsts
<1>4. firsts[g] \in 1..Len(files) /\ firsts[h] \in 1..Len(files)
  BY <1>3 DEF Firsts
<1>5. firsts[g] \in Class(files, firsts[h]) /\ firsts[h] \in Class(files, firsts[g])
  BY <1>3, <1>4, Classes
<1>6. firsts[g] <= firsts[h] /\ firsts[h] <= firsts[g]
  BY <1>3, <1>5 DEF Firsts
<1> QED
  BY <1>1, <1>2, <1>3, <1>4, <1>6
-----------------------------------------------------------------------------
(* A batch of groups of transcripts: each copy once, in order, and whole sessions. *)
LEMMA GroupedBatch ==
  ASSUME NEW files \in Seq(Files), NEW first \in Nat, NEW last \in Nat,
         1 <= first, first <= last + 1, last <= Len(Groups(files))
  PROVE  LET some == FlattenSeq(SubSeq(Groups(files), first, last))
         IN  /\ some \in Seq(Files)
             /\ \E place :
                  /\ Within(some, files, place) /\ Closed(some, files, place)
                  /\ \A g \in first..last : \A i \in Class(files, Leader(files, g)) :
                       \E k \in 1..Len(some) : place[k] = i
<1> DEFINE groups == Groups(files)
           lists == SubSeq(groups, first, last)
           m == last - first + 1
           some == FlattenSeq(lists)
           n == Len(files)
<1>1. /\ groups \in Seq(Seq(Files)) /\ n \in Nat
      /\ \A g \in 1..Len(groups) :
           /\ Leader(files, g) \in 1..n
           /\ Len(groups[g]) = Len(Members(files, g))
           /\ \A k \in 1..Len(Members(files, g)) : groups[g][k] = files[Members(files, g)[k]]
  BY GroupsByMembers
<1> HIDE DEF groups
<1>2. /\ lists \in Seq(Seq(Files)) /\ Len(lists) = m /\ m \in Nat
      /\ \A h \in 1..m : lists[h] = groups[first - 1 + h] /\ first - 1 + h \in 1..Len(groups)
  BY <1>1 DEF groups
<1>3. \A g \in first..last : g - first + 1 \in 1..m /\ first - 1 + (g - first + 1) = g
  OBVIOUS
<1> HIDE DEF lists, m
<1>4. some \in Seq(Files) /\ \E list, inside : Places(some, lists, m, list, inside)
  BY <1>2, PlacesOfAll
<1> HIDE DEF some
<1>5. PICK list, inside : Places(some, lists, m, list, inside)
  BY <1>4
<1> DEFINE size == Len(some)
           group(k) == first - 1 + list[k]
<1>6. /\ size \in Nat
      /\ \A k \in 1..size :
           /\ list[k] \in 1..m /\ inside[k] \in 1..Len(lists[list[k]])
           /\ some[k] = lists[list[k]][inside[k]]
      /\ \A k, l \in 1..size :
           k < l => list[k] < list[l] \/ (list[k] = list[l] /\ inside[k] < inside[l])
      /\ \A h \in 1..m : \A o \in 1..Len(lists[h]) :
           \E k \in 1..size : list[k] = h /\ inside[k] = o
  BY <1>4, <1>5 DEF Places
<1> HIDE DEF size
<1> DEFINE place == [k \in 1..size |-> Members(files, group(k))[inside[k]]]
<1>7. \A g :
              /\ Members(files, g) \in Seq(Nat)
              /\ \A x \in 1..Len(Members(files, g)) :
                   /\ Members(files, g)[x] \in Class(files, Leader(files, g))
                   /\ Members(files, g)[x] \in 1..n
              /\ \A x, y \in 1..Len(Members(files, g)) :
                   x < y => Members(files, g)[x] < Members(files, g)[y]
              /\ \A i \in 1..n : i \in Class(files, Leader(files, g))
                   => \E x \in 1..Len(Members(files, g)) : Members(files, g)[x] = i
  <2> SUFFICES ASSUME NEW g
               PROVE  Lists(Members(files, g), Class(files, Leader(files, g)), n)
    BY DEF Lists
  <2> QED
    BY <1>1, InOrderLists DEF Members
<1>8. ASSUME NEW k \in 1..size
      PROVE  /\ group(k) \in 1..Len(groups) /\ group(k) = first - 1 + list[k]
             /\ inside[k] \in 1..Len(Members(files, group(k)))
             /\ place[k] = Members(files, group(k))[inside[k]]
             /\ place[k] \in 1..n
             /\ place[k] \in Class(files, Leader(files, group(k)))
             /\ some[k] = files[place[k]]
  <2>1. group(k) \in 1..Len(groups) /\ lists[list[k]] = groups[group(k)]
    BY <1>2, <1>6
  <2>2. place[k] = Members(files, group(k))[inside[k]]
    OBVIOUS
  <2> HIDE DEF group, place
  <2>3. inside[k] \in 1..Len(Members(files, group(k)))
    BY <1>1, <1>6, <2>1
  <2>4. some[k] = files[place[k]]
    <3>1. some[k] = lists[list[k]][inside[k]]
      BY <1>6
    <3> QED
      BY <1>1, <2>1, <2>2, <2>3, <3>1
  <2>5. place[k] \in 1..n /\ place[k] \in Class(files, Leader(files, group(k)))
    BY <1>7, <2>2, <2>3
  <2> QED
    BY <2>1, <2>2, <2>3, <2>4, <2>5 DEF group
<1>9. ASSUME NEW k \in 1..size, NEW l \in 1..size, group(k) = group(l)
      PROVE  list[k] = list[l]
  <2>1. list[k] \in 1..m /\ list[l] \in 1..m /\ m \in Nat
    BY <1>2, <1>6
  <2> HIDE DEF m
  <2>2. list[k] \in Nat /\ list[l] \in Nat
    BY <2>1
  <2> QED
    BY <1>9, <2>2
<1>10. DOMAIN place = 1..size
  OBVIOUS
<1> HIDE DEF place, group
<1>11. \A k \in 1..size : Class(files, place[k]) = Class(files, Leader(files, group(k)))
  <2> TAKE k \in 1..size
  <2>1. Leader(files, group(k)) \in 1..n /\ place[k] \in Class(files, Leader(files, group(k)))
    BY <1>1, <1>8
  <2> QED
    BY <2>1, Classes DEF n
<1>12. ASSUME NEW g \in first..last, NEW i \in Class(files, Leader(files, g))
       PROVE  \E k \in 1..size : place[k] = i
  <2> DEFINE h == g - first + 1
  <2>1. h \in 1..m /\ first - 1 + h = g
    BY <1>3
  <2> HIDE DEF h
  <2>2. g \in 1..Len(groups) /\ lists[h] = groups[g]
    BY <1>2, <2>1
  <2>3. i \in 1..n
    BY <1>1, <2>2, Classes DEF n
  <2>4. PICK a \in 1..Len(Members(files, g)) : Members(files, g)[a] = i
    <3>1. \A j \in 1..n : j \in Class(files, Leader(files, g))
            => \E a \in 1..Len(Members(files, g)) : Members(files, g)[a] = j
      <4>1. Class(files, Leader(files, g)) \subseteq 1..n
        BY DEF Class, n
      <4>2. Lists(Members(files, g), Class(files, Leader(files, g)), n)
        BY <1>1, <4>1, InOrderLists DEF Members
      <4> QED
        BY <4>2 DEF Lists
    <3> QED
      BY <2>3, <3>1
  <2>5. a \in 1..Len(lists[h])
    BY <1>1, <2>2
  <2>6. PICK k \in 1..size : list[k] = h /\ inside[k] = a
    BY <1>6, <2>1, <2>5
  <2>7. group(k) = g
    BY <1>8, <2>1, <2>6
  <2>8. place[k] = i
    BY <1>8, <2>4, <2>6, <2>7
  <2> QED
    BY <2>8
<1>13. ASSUME NEW k \in 1..size PROVE group(k) \in first..last
  <2>1. list[k] \in 1..m /\ group(k) = first - 1 + list[k]
    BY <1>6, <1>8
  <2> HIDE DEF group
  <2> QED
    BY <2>1 DEF m
<1>14. Within(some, files, place)
  <2>1. place \in [1..size -> 1..n]
    <3>1. place = [k \in 1..size |-> place[k]]
      BY <1>10 DEF place
    <3> QED
      BY <1>8, <3>1
  <2>2. ASSUME NEW k \in 1..size, NEW l \in 1..size, k < l,
               some[k].key = some[l].key, some[k].key # None
        PROVE  place[k] < place[l]
    <3>1. /\ place[k] \in 1..n /\ place[l] \in 1..n
          /\ some[k] = files[place[k]] /\ some[l] = files[place[l]]
      BY <1>8
    <3>2. place[l] \in Class(files, place[k])
      BY <2>2, <3>1, ClassesHoldSessions DEF n
    <3>3. Class(files, place[l]) = Class(files, place[k])
      BY <3>1, <3>2, Classes DEF n
    <3>4. group(k) = group(l)
      <4>1. Class(files, Leader(files, group(k))) = Class(files, Leader(files, group(l)))
        BY <1>11, <3>3
      <4>2. group(k) \in 1..Len(Groups(files)) /\ group(l) \in 1..Len(Groups(files))
        BY <1>8 DEF groups
      <4> QED
        BY <4>1, <4>2, GroupsApart
    <3>5. list[k] = list[l]
      BY <1>9, <3>4
    <3>6. inside[k] < inside[l]
      <4>1. list[k] \in Nat
        BY <1>2, <1>6
      <4> QED
        BY <1>6, <2>2, <3>5, <4>1
    <3>7. /\ place[k] = Members(files, group(k))[inside[k]]
          /\ place[l] = Members(files, group(k))[inside[l]]
          /\ inside[k] \in 1..Len(Members(files, group(k)))
          /\ inside[l] \in 1..Len(Members(files, group(k)))
      BY <1>8, <3>4
    <3>8. \A a, b \in 1..Len(Members(files, group(k))) :
            a < b => Members(files, group(k))[a] < Members(files, group(k))[b]
      BY <1>7
    <3> QED
      BY <3>6, <3>7, <3>8
  <2> QED
    BY <1>8, <2>1, <2>2 DEF Within, size, n
<1>15. Closed(some, files, place)
  <2>1. ASSUME NEW k \in 1..size, NEW i \in 1..n,
               some[k].key # None, files[i].key # None,
               files[i].key = some[k].key \/ files[i].key = some[k].parent
        PROVE  \E l \in 1..size : place[l] = i
    <3>1. place[k] \in 1..n /\ some[k] = files[place[k]]
      BY <1>8
    <3>2. i \in Class(files, place[k])
      BY <2>1, <3>1, ClassesHoldSessions DEF n
    <3> QED
      BY <1>11, <1>12, <1>13, <3>2
  <2> QED
    BY <2>1 DEF Closed, size, n
<1> QED
  BY <1>4, <1>12, <1>14, <1>15 DEF some, size, lists, groups

(* A batch of single files of one source. *)
Takes(some, files, list, inside, s, first, last, place) ==
  /\ Within(some, files, place)
  /\ \A i \in 1..Len(files) : list[i] = s /\ inside[i] \in first..last
       => \E k \in 1..Len(some) : place[k] = i

(* Adding the same number keeps an order. *)
LEMMA SmallerShifted ==
  ASSUME NEW x, NEW y, NEW base \in Int, NEW a \in Nat, NEW b \in Nat,
         x = base + a, y = base + b, a < b
  PROVE  x < y
  OBVIOUS

(* Such a batch holds the files at its positions. *)
LEMMA SingleBatch ==
  ASSUME NEW sources \in Seq(Seq(Files)), NEW list, NEW inside,
         Places(FlattenSeq(sources), sources, Len(sources), list, inside),
         NEW s \in 1..Len(sources), NEW first \in Nat, NEW last \in Nat,
         1 <= first, first <= last + 1, last <= Len(sources[s])
  PROVE  LET files == FlattenSeq(sources)
             some == FlattenSeq(SubSeq([i \in 1..Len(sources[s]) |-> <<sources[s][i]>>],
                                       first, last))
         IN  /\ some \in Seq(Files)
             /\ \E place : Takes(some, files, list, inside, s, first, last, place)
<1> DEFINE files == FlattenSeq(sources)
           source == sources[s]
           singles == [i \in 1..Len(source) |-> <<source[i]>>]
           lists == SubSeq(singles, first, last)
           m == last - first + 1
           some == FlattenSeq(lists)
           n == Len(files)
<1>1. source \in Seq(Files) /\ Len(source) \in Nat /\ Len(sources) \in Nat
  OBVIOUS
<1>2. files \in Seq(Files) /\ n \in Nat
  BY PlacesOfAll
<1> HIDE DEF files, n
<1>3. /\ list \in [1..n -> 1..Len(sources)] /\ inside \in [1..n -> Nat]
      /\ \A i \in 1..n :
           inside[i] \in 1..Len(sources[list[i]]) /\ files[i] = sources[list[i]][inside[i]]
      /\ \A i, j \in 1..n :
           i < j => list[i] < list[j] \/ (list[i] = list[j] /\ inside[i] < inside[j])
      /\ \A g \in 1..Len(sources) : \A o \in 1..Len(sources[g]) :
           \E i \in 1..n : list[i] = g /\ inside[i] = o
  BY DEF Places, files, n
<1> HIDE DEF source
<1>4. /\ singles \in Seq(Seq(Files)) /\ Len(singles) = Len(source)
      /\ \A i \in 1..Len(source) : singles[i] = <<source[i]>>
  BY <1>1
<1> HIDE DEF singles
<1>5. last <= Len(source)
  BY DEF source
<1>6. /\ lists \in Seq(Seq(Files)) /\ Len(lists) = m /\ m \in Nat
      /\ \A h \in 1..m : lists[h] = singles[first - 1 + h] /\ first - 1 + h \in 1..Len(source)
  BY <1>1, <1>4, <1>5
<1> HIDE DEF lists
<1>7. ASSUME NEW h \in 1..m
      PROVE  Len(lists[h]) = 1 /\ lists[h][1] = source[first - 1 + h]
  <2> DEFINE j == first - 1 + h
  <2>1. lists[h] = singles[j] /\ j \in 1..Len(source)
    BY <1>6
  <2> HIDE DEF j
  <2>2. lists[h] = <<source[j]>>
    BY <1>4, <2>1
  <2> QED
    BY <2>2 DEF j
<1>8. \A o \in first..last : o - first + 1 \in 1..m /\ first - 1 + (o - first + 1) = o
  OBVIOUS
<1> HIDE DEF m
<1>9. some \in Seq(Files) /\ \E at, in : Places(some, lists, m, at, in)
  BY <1>6, PlacesOfAll
<1> HIDE DEF some
<1>10. PICK at, in : Places(some, lists, m, at, in)
  BY <1>9
<1> DEFINE size == Len(some)
<1>11. /\ size \in Nat
       /\ \A k \in 1..size :
            at[k] \in 1..m /\ in[k] \in 1..Len(lists[at[k]]) /\ some[k] = lists[at[k]][in[k]]
       /\ \A k, l \in 1..size :
            k < l => at[k] < at[l] \/ (at[k] = at[l] /\ in[k] < in[l])
       /\ \A h \in 1..m : \A o \in 1..Len(lists[h]) :
            \E k \in 1..size : at[k] = h /\ in[k] = o
  BY <1>9, <1>10 DEF Places
<1> HIDE DEF size
<1>12. ASSUME NEW k \in 1..size
       PROVE  in[k] = 1 /\ some[k] = source[first - 1 + at[k]]
              /\ first - 1 + at[k] \in 1..Len(source) /\ at[k] \in Nat
  <2>1. at[k] \in 1..m /\ in[k] \in 1..1 /\ some[k] = lists[at[k]][in[k]]
    <3>1. at[k] \in 1..m /\ in[k] \in 1..Len(lists[at[k]]) /\ some[k] = lists[at[k]][in[k]]
      BY <1>11
    <3> QED
      BY <1>7, <3>1
  <2>2. in[k] = 1 /\ at[k] \in Nat
    BY <1>6, <2>1
  <2>3. lists[at[k]][1] = source[first - 1 + at[k]] /\ first - 1 + at[k] \in 1..Len(source)
    BY <1>6, <1>7, <2>1
  <2> QED
    BY <2>1, <2>2, <2>3
<1> DEFINE Is(k, i) == list[i] = s /\ inside[i] = first - 1 + at[k]
           place == [k \in 1..size |-> CHOOSE i \in 1..n : Is(k, i)]
<1>13. ASSUME NEW k \in 1..size
       PROVE  place[k] \in 1..n /\ Is(k, place[k]) /\ some[k] = files[place[k]]
  <2>1. \E i \in 1..n : Is(k, i)
    BY <1>3, <1>12 DEF source
  <2>2. place[k] \in 1..n /\ Is(k, place[k])
    <3>1. place[k] = CHOOSE i \in 1..n : Is(k, i)
      OBVIOUS
    <3> HIDE DEF Is, place
    <3> QED
      BY <2>1, <3>1
  <2> HIDE DEF place
  <2>3. files[place[k]] = source[first - 1 + at[k]]
    BY <1>3, <2>2 DEF source
  <2> QED
    BY <1>12, <2>2, <2>3
<1>14. place \in [1..size -> 1..n]
  BY <1>13
<1> HIDE DEF place
<1>15. Within(some, files, place)
  <2>1. ASSUME NEW k \in 1..size, NEW l \in 1..size, k < l PROVE place[k] < place[l]
    <3>1. at[k] < at[l] /\ at[k] \in Nat /\ at[l] \in Nat
      <4>1. in[k] = 1 /\ in[l] = 1 /\ at[k] \in Nat /\ at[l] \in Nat
        BY <1>12
      <4>2. at[k] < at[l] \/ (at[k] = at[l] /\ in[k] < in[l])
        BY <1>11, <2>1
      <4> QED
        BY <4>1, <4>2
    <3>2. /\ place[k] \in 1..n /\ place[l] \in 1..n
          /\ list[place[k]] = s /\ list[place[l]] = s
          /\ inside[place[k]] = first - 1 + at[k] /\ inside[place[l]] = first - 1 + at[l]
      BY <1>13
    <3>3. place[l] < place[k] => inside[place[l]] < inside[place[k]]
      <4>1. s \in Nat
        OBVIOUS
      <4> QED
        BY <1>3, <3>2, <4>1
    <3>4. place[k] # place[l] /\ ~(place[l] < place[k])
      <4>1. inside[place[k]] < inside[place[l]] /\ inside[place[k]] \in Nat
            /\ inside[place[l]] \in Nat
        <5>1. inside[place[k]] \in Nat /\ inside[place[l]] \in Nat
          BY <1>3, <3>2
        <5>2. first - 1 \in Int
          OBVIOUS
        <5> QED
          BY <3>1, <3>2, <5>1, <5>2, SmallerShifted
      <4> QED
        BY <3>3, <4>1
    <3> QED
      BY <1>2, <3>2, <3>4
  <2> QED
    BY <1>13, <1>14, <2>1 DEF Within, size, n
<1>16. ASSUME NEW i \in 1..n, list[i] = s, inside[i] \in first..last
       PROVE  \E k \in 1..size : place[k] = i
  <2> DEFINE h == inside[i] - first + 1
  <2>1. h \in 1..m /\ first - 1 + h = inside[i]
    BY <1>8, <1>16
  <2> HIDE DEF h
  <2>2. 1 \in 1..Len(lists[h])
    BY <1>7, <2>1
  <2>3. PICK k \in 1..size : at[k] = h
    BY <1>11, <2>1, <2>2
  <2>4. /\ place[k] \in 1..n /\ list[place[k]] = list[i] /\ inside[place[k]] = inside[i]
    BY <1>13, <1>16, <2>1, <2>3
  <2>5. list[i] \in Nat /\ inside[i] \in Nat
    BY <1>1, <1>3
  <2>6. ~(place[k] < i) /\ ~(i < place[k])
    <3>1. /\ place[k] < i => \/ list[place[k]] < list[i]
                             \/ inside[place[k]] < inside[i]
          /\ i < place[k] => \/ list[i] < list[place[k]]
                             \/ inside[i] < inside[place[k]]
      BY <1>3, <2>4
    <3> QED
      BY <2>4, <2>5, <3>1
  <2> QED
    BY <1>2, <2>4, <2>6
<1> QED
  BY <1>9, <1>15, <1>16 DEF some, size, lists, singles, source, files, n, Takes
-----------------------------------------------------------------------------
(* Every file of a provider is in a group of a stream, and a batch of consecutive
   groups holds theirs, as it should. *)
BatchFiles(provider, s, first, last) ==
  FlattenSeq(SubSeq(Streams(provider)[s], first, last))

Holds(provider, stream, group, s, first, last) ==
  \E place :
    /\ Within(BatchFiles(provider, s, first, last), AllFiles(provider), place)
    /\ provider.grouped =>
         Closed(BatchFiles(provider, s, first, last), AllFiles(provider), place)
    /\ \A i \in 1..Len(AllFiles(provider)) :
         stream[i] = s /\ group[i] \in first..last
           => \E k \in 1..Len(BatchFiles(provider, s, first, last)) : place[k] = i

Sorted(provider, stream, group) ==
  /\ \A i \in 1..Len(AllFiles(provider)) :
       /\ stream[i] \in 1..Len(Streams(provider))
       /\ group[i] \in 1..Len(Streams(provider)[stream[i]])
  /\ \A s \in 1..Len(Streams(provider)) : \A first, last \in Nat :
       1 <= first /\ first <= last + 1 /\ last <= Len(Streams(provider)[s])
         => /\ BatchFiles(provider, s, first, last) \in Seq(Files)
            /\ Holds(provider, stream, group, s, first, last)

(* Whether they are grouped or not. *)
LEMMA FilesAreSorted ==
  ASSUME NEW provider, provider.sources \in Seq(Seq(Files)), provider.grouped \in BOOLEAN
  PROVE  \E stream, group : Sorted(provider, stream, group)
<1> DEFINE files == AllFiles(provider)
           n == Len(files)
<1>1. files \in Seq(Files)
  BY PlacesOfAll DEF AllFiles
<1> HIDE DEF files
<1>2. CASE provider.grouped
  <2>1. Streams(provider) = <<Groups(files)>>
    BY <1>2 DEF Streams, files
  <2>2. Len(Streams(provider)) = 1 /\ Streams(provider)[1] = Groups(files)
    BY <2>1
  <2> DEFINE stream == [i \in 1..n |-> 1]
             In(i, g) == i \in Class(files, Leader(files, g))
             group == [i \in 1..n |-> CHOOSE g \in 1..Len(Groups(files)) : In(i, g)]
  <2>3. ASSUME NEW i \in 1..n
        PROVE  stream[i] = 1 /\ group[i] \in 1..Len(Groups(files)) /\ In(i, group[i])
    <3>1. \E g \in 1..Len(Groups(files)) : In(i, g)
      BY <1>1, HasGroup
    <3>2. group[i] = CHOOSE g \in 1..Len(Groups(files)) : In(i, g)
      OBVIOUS
    <3>3. group[i] \in 1..Len(Groups(files)) /\ In(i, group[i])
      <4> HIDE DEF In, group
      <4> QED
        BY <3>1, <3>2
    <3> QED
      BY <3>3
  <2> HIDE DEF stream, group
  <2>4. ASSUME NEW s \in 1..Len(Streams(provider)), NEW first \in Nat, NEW last \in Nat,
               1 <= first, first <= last + 1, last <= Len(Streams(provider)[s])
        PROVE  /\ BatchFiles(provider, s, first, last) \in Seq(Files)
               /\ Holds(provider, stream, group, s, first, last)
    <3> DEFINE some == FlattenSeq(SubSeq(Groups(files), first, last))
    <3>1. s = 1 /\ last <= Len(Groups(files))
      BY <2>2, <2>4
    <3>2. BatchFiles(provider, s, first, last) = some
      BY <2>2, <3>1 DEF BatchFiles
    <3>3. /\ some \in Seq(Files)
          /\ \E place :
               /\ Within(some, files, place) /\ Closed(some, files, place)
               /\ \A g \in first..last : \A i \in Class(files, Leader(files, g)) :
                    \E k \in 1..Len(some) : place[k] = i
      BY <1>1, <2>4, <3>1, GroupedBatch
    <3> HIDE DEF some
    <3>4. PICK place :
               /\ Within(some, files, place) /\ Closed(some, files, place)
               /\ \A g \in first..last : \A i \in Class(files, Leader(files, g)) :
                    \E k \in 1..Len(some) : place[k] = i
      BY <3>3
    <3>5. \A i \in 1..n : group[i] \in first..last => \E k \in 1..Len(some) : place[k] = i
      BY <2>3, <3>4
    <3>6. Holds(provider, stream, group, s, first, last)
      BY <3>2, <3>4, <3>5 DEF Holds, files
    <3> QED
      BY <3>2, <3>3, <3>6
  <2>5. \A i \in 1..Len(AllFiles(provider)) :
          /\ stream[i] \in 1..Len(Streams(provider))
          /\ group[i] \in 1..Len(Streams(provider)[stream[i]])
    BY <2>2, <2>3 DEF files
  <2>6. Sorted(provider, stream, group)
    BY <2>4, <2>5 DEF Sorted
  <2> QED
    BY <2>6
<1>3. CASE ~provider.grouped
  <2> DEFINE sources == provider.sources
             singles(s) == [i \in 1..Len(sources[s]) |-> <<sources[s][i]>>]
  <2>1. Streams(provider) = [s \in 1..Len(sources) |-> singles(s)]
    BY <1>3 DEF Streams
  <2>2. sources \in Seq(Seq(Files)) /\ files = FlattenSeq(sources)
    BY DEF files, AllFiles
  <2> HIDE DEF sources
  <2>3. /\ Len(Streams(provider)) = Len(sources)
        /\ \A s \in 1..Len(sources) :
             Streams(provider)[s] = singles(s) /\ Len(singles(s)) = Len(sources[s])
    BY <2>1, <2>2
  <2>4. PICK stream, group : Places(files, sources, Len(sources), stream, group)
    BY <2>2, PlacesOfAll
  <2>5. \A i \in 1..n :
          stream[i] \in 1..Len(sources) /\ group[i] \in 1..Len(sources[stream[i]])
    BY <2>4 DEF Places
  <2>6. ASSUME NEW s \in 1..Len(Streams(provider)), NEW first \in Nat, NEW last \in Nat,
               1 <= first, first <= last + 1, last <= Len(Streams(provider)[s])
        PROVE  /\ BatchFiles(provider, s, first, last) \in Seq(Files)
               /\ Holds(provider, stream, group, s, first, last)
    <3> DEFINE some == FlattenSeq(SubSeq(singles(s), first, last))
    <3>1. s \in 1..Len(sources) /\ last <= Len(sources[s])
      BY <2>3, <2>6
    <3>2. BatchFiles(provider, s, first, last) = some
      BY <2>3, <3>1 DEF BatchFiles
    <3>3. /\ some \in Seq(Files)
          /\ \E place : Takes(some, files, stream, group, s, first, last, place)
      <4> DEFINE all == FlattenSeq(sources)
      <4>1. /\ some \in Seq(Files)
            /\ \E place : Takes(some, all, stream, group, s, first, last, place)
        <5>1. Places(FlattenSeq(sources), sources, Len(sources), stream, group)
          BY <2>2, <2>4
        <5> QED
          BY <2>2, <2>6, <3>1, <5>1, SingleBatch
      <4>2. all = files
        BY <2>2
      <4> QED
        BY <4>1, <4>2
    <3> HIDE DEF some
    <3> QED
      BY <1>3, <3>2, <3>3 DEF Holds, Takes, files
  <2>7. \A i \in 1..Len(AllFiles(provider)) :
          /\ stream[i] \in 1..Len(Streams(provider))
          /\ group[i] \in 1..Len(Streams(provider)[stream[i]])
    BY <2>3, <2>5 DEF files
  <2>8. Sorted(provider, stream, group)
    BY <2>6, <2>7 DEF Sorted
  <2> QED
    BY <2>8
<1> QED
  BY <1>2, <1>3
-----------------------------------------------------------------------------
Parts == [first : Nat, last : Nat]
BatchType == [at : Nat, stream : Nat, first : Nat, last : Nat]
Stages == {"plan", "direct", "pull", "take", "write", "done", "failed", "killed"}
Progress ==
  [options : OptionsType, stage : Stages, plans : Seq({"whole", "single", "batched"}),
   at : Nat, stream : Nat, from : Nat, next : Nat, split : Seq(Parts),
   yielded : BOOLEAN, batch : BatchType \cup {None}, batches : Nat,
   staged : Seq(BatchType), report : Nat, printed : Nat \cup {None}]

TypeOK ==
  /\ input \in Inputs
  /\ runs \in [Commands -> Seq(BatchType)]
  /\ command \in [Commands -> Progress]
-----------------------------------------------------------------------------
(* What has been read so far: the batches and the one under way. *)
Collecting(c) == command[c].stage \in {"pull", "take"}
Finished(c) ==
  command[c].stage = "write" \/ (command[c].stage = "done" /\ Incremental(c))

Handed(c) ==
  {Batches(c)[i] : i \in 1..Len(Batches(c))}
    \cup (IF command[c].stage = "take" THEN {command[c].batch} ELSE {})

Covers(b, p, s, g) == b.at = p /\ b.stream = s /\ b.first <= g /\ g <= b.last

(* The first group of the current stream that is in no batch yet. *)
After(c, split) == IF split = <<>> THEN command[c].from ELSE split[1].first
Frontier(c) == After(c, command[c].split)

(* The command is at one of its streams, and the parts left of the last packed
   groups are consecutive and end where packing goes on. *)
Place(c) ==
  Collecting(c) =>
    /\ command[c].at \in 1..Len(input)
    /\ command[c].stream \in 1..StreamsAt(c, command[c].at)
    /\ 1 <= command[c].from /\ command[c].from <= command[c].next
    /\ command[c].next <= Len(GroupsOf(c)) + 1

Linked(c, split) ==
  \A i \in 1..Len(split) :
    /\ 1 <= split[i].first /\ split[i].first <= split[i].last
    /\ split[i].last + 1 =
         IF i = Len(split) THEN command[c].from ELSE split[i + 1].first
Pieces(c) == Collecting(c) => Linked(c, command[c].split)

(* No batch reaches beyond the frontier, *)
Behind(c, b) ==
  \/ b.at < command[c].at
  \/ b.at = command[c].at /\ b.stream < command[c].stream
  \/ /\ b.at = command[c].at /\ b.stream = command[c].stream
     /\ command[c].yielded /\ b.last < Frontier(c)
NoneAhead(c) ==
  Collecting(c) =>
    /\ \A b \in Handed(c) : Behind(c, b)
    /\ command[c].yielded => Handed(c) # {}

(* and nothing before it is left out. *)
Passed(c, p, s, g) ==
  \/ Finished(c)
  \/ p < command[c].at
  \/ p = command[c].at /\ s < command[c].stream
  \/ p = command[c].at /\ s = command[c].stream /\ g < Frontier(c)
NoneSkipped(c) ==
  Collecting(c) \/ Finished(c) =>
    \A p \in 1..Len(input) : \A s \in 1..StreamsAt(c, p) :
      \A g \in 1..Len(GroupsAt(c, p, s)) :
        Passed(c, p, s, g) => \E b \in Handed(c) : Covers(b, p, s, g)

(* No group is twice in the batches, nor again in the one under way. *)
NoneTwice(c) ==
  /\ \A i, j \in 1..Len(Batches(c)) :
       i < j /\ SameStream(Batches(c)[i], Batches(c)[j])
         => Batches(c)[i].last < Batches(c)[j].first
  /\ command[c].stage = "take" =>
       \A i \in 1..Len(Batches(c)) :
         SameStream(Batches(c)[i], command[c].batch)
           => Batches(c)[i].last < command[c].batch.first

(* What the stages before and beside collecting in batches look like. *)
Stage(c) ==
  /\ command[c].stage = "plan" =>
       /\ runs[c] = <<>> /\ command[c].staged = <<>> /\ command[c].split = <<>>
       /\ command[c].stream = 1 /\ command[c].from = 1 /\ command[c].next = 1
       /\ ~command[c].yielded
  /\ command[c].stage = "direct" =>
       ~Incremental(c) /\ \A b \in Handed(c) : b.at < command[c].at
  /\ command[c].stage = "take" => command[c].batch \in BatchType
  /\ command[c].stage = "write" =>
       Strict(c) /\ command[c].at \in 1..Len(command[c].staged)

Covered(c) ==
  /\ Place(c) /\ Pieces(c) /\ NoneAhead(c)
  /\ NoneSkipped(c) /\ NoneTwice(c) /\ Stage(c)

IInv == TypeOK /\ \A c \in Commands : Covered(c)
-----------------------------------------------------------------------------
(* A command in an invariant state has its types. *)
LEMMA Types ==
  ASSUME TypeOK, NEW c \in Commands
  PROVE  /\ command[c] \in Progress /\ runs[c] \in Seq(BatchType)
         /\ Batches(c) \in Seq(BatchType)
         /\ input \in Seq(ProviderType) /\ Len(input) \in Nat /\ Len(input) >= 1
<1>1. command[c] \in Progress /\ runs[c] \in Seq(BatchType)
  BY DEF TypeOK
<1>2. Batches(c) \in Seq(BatchType)
  BY <1>1 DEF Batches, Progress
<1>3. input \in Seq(ProviderType) /\ input # <<>>
  BY InputsAssumption DEF TypeOK
<1> QED
  BY <1>1, <1>2, <1>3

(* Streams are lists of groups, and there is at least one. *)
LEMMA StreamTypes ==
  ASSUME TypeOK, NEW c \in Commands, NEW p \in 1..Len(input)
  PROVE  /\ StreamsAt(c, p) \in Nat /\ StreamsAt(c, p) >= 1
         /\ \A s \in 1..StreamsAt(c, p) : Len(GroupsAt(c, p, s)) \in Nat
<1>1. input[p].streams \in Seq(Seq(Seq(Files))) /\ input[p].streams # <<>>
  <2>1. input \in Seq(ProviderType) /\ Len(input) \in Nat
    BY Types
  <2>2. input[p] \in ProviderType
    BY <2>1
  <2> QED
    BY <2>2 DEF ProviderType
<1>2. StreamsAt(c, p) \in Nat /\ StreamsAt(c, p) >= 1
  BY <1>1 DEF StreamsAt
<1>3. ASSUME NEW s \in 1..StreamsAt(c, p)
      PROVE  GroupsAt(c, p, s) \in Seq(Seq(Files))
  <2>1. CASE Batched(c, p)
    BY <1>1, <2>1 DEF StreamsAt, GroupsAt
  <2>2. CASE ~Batched(c, p)
    BY <2>2 DEF GroupsAt
  <2> QED
    BY <2>1, <2>2
<1> QED
  BY <1>2, <1>3

(* What stays the same when a command keeps its plans and its batches. *)
LEMMA SamePlans ==
  ASSUME NEW c, input' = input,
         command'[c].options = command[c].options,
         command'[c].plans = command[c].plans
  PROVE  /\ Strict(c)' = Strict(c) /\ (Incremental(c)' <=> Incremental(c))
         /\ \A p : StreamsAt(c, p)' = StreamsAt(c, p)
         /\ \A p, s : GroupsAt(c, p, s)' = GroupsAt(c, p, s)
BY DEF Strict, Incremental, Forced, Batched, StreamsAt, GroupsAt

(* A step of one command leaves the others as they are. *)
LEMMA OthersKeep ==
  ASSUME NEW c \in Commands, Covered(c), input' = input,
         command'[c] = command[c], runs'[c] = runs[c]
  PROVE  Covered(c)'
<1>1. /\ Strict(c)' = Strict(c) /\ (Incremental(c)' <=> Incremental(c))
      /\ \A p : StreamsAt(c, p)' = StreamsAt(c, p)
      /\ \A p, s : GroupsAt(c, p, s)' = GroupsAt(c, p, s)
  BY SamePlans
<1>2. Batches(c)' = Batches(c) /\ Frontier(c)' = Frontier(c) /\ GroupsOf(c)' = GroupsOf(c)
  BY <1>1 DEF Batches, Frontier, After, GroupsOf
<1>3. Handed(c)' = Handed(c) /\ \A b : Behind(c, b)' <=> Behind(c, b)
  BY <1>2 DEF Handed, Behind
<1>4. /\ Collecting(c)' <=> Collecting(c)
      /\ Finished(c)' <=> Finished(c)
      /\ \A p, s, g : Passed(c, p, s, g)' <=> Passed(c, p, s, g)
  BY <1>1, <1>2 DEF Collecting, Finished, Passed
<1>5. Place(c)' /\ Pieces(c)' /\ NoneAhead(c)'
  BY <1>1, <1>2, <1>3, <1>4 DEF Covered, Place, Pieces, Linked, NoneAhead
<1>6. NoneSkipped(c)'
  <2> SUFFICES ASSUME Collecting(c)' \/ Finished(c)', NEW p \in 1..Len(input'),
                      NEW s \in 1..StreamsAt(c, p)', NEW g \in 1..Len(GroupsAt(c, p, s)'),
                      Passed(c, p, s, g)'
               PROVE  \E b \in Handed(c)' : Covers(b, p, s, g)
    BY DEF NoneSkipped, Covers
  <2>1. /\ Collecting(c) \/ Finished(c)
        /\ p \in 1..Len(input) /\ s \in 1..StreamsAt(c, p)
        /\ g \in 1..Len(GroupsAt(c, p, s)) /\ Passed(c, p, s, g)
    BY <1>1, <1>4
  <2> QED
    BY <2>1, <1>3 DEF Covered, NoneSkipped
<1>7. NoneTwice(c)'
  BY <1>2 DEF Covered, NoneTwice, SameStream
<1>8. Stage(c)'
  BY <1>1, <1>3 DEF Covered, Stage
<1> QED
  BY <1>5, <1>6, <1>7, <1>8 DEF Covered
-----------------------------------------------------------------------------
(* A step of one command: it becomes k, and the batches it has ingested r. *)
Becomes(c, k, r) ==
  /\ input' = input
  /\ command' = [command EXCEPT ![c] = k]
  /\ runs' = [runs EXCEPT ![c] = r]

(* What such a step leaves as it is. *)
LEMMA Becoming ==
  ASSUME NEW c \in Commands, TypeOK, NEW k \in Progress, NEW r \in Seq(BatchType),
         Becomes(c, k, r)
  PROVE  /\ TypeOK' /\ command'[c] = k /\ runs'[c] = r /\ input' = input
         /\ \A d \in Commands \ {c} : command'[d] = command[d] /\ runs'[d] = runs[d]
BY DEF Becomes, TypeOK

(* Keeping the batches is setting them to what they are. *)
LEMMA RunsKept ==
  ASSUME NEW c \in Commands, TypeOK, runs' = runs
  PROVE  runs' = [runs EXCEPT ![c] = runs[c]] /\ runs[c] \in Seq(BatchType)
BY DEF TypeOK

(* It is enough to show what the command itself becomes. *)
LEMMA OneCovered ==
  ASSUME NEW c \in Commands, IInv, NEW k \in Progress, NEW r \in Seq(BatchType),
         Becomes(c, k, r), Covered(c)'
  PROVE  IInv'
<1>1. ASSUME NEW d \in Commands, d # c PROVE Covered(d)'
  BY <1>1, Becoming, OthersKeep DEF IInv
<1> QED
  BY <1>1, Becoming DEF IInv

(* A step within the reading of a stream that moves neither its frontier nor its
   batches: only the place and the pieces have to be looked at. *)
LEMMA Repacking ==
  ASSUME NEW c \in Commands, Covered(c), input' = input, runs'[c] = runs[c],
         command[c].stage = "pull", command'[c].stage = "pull",
         command'[c].options = command[c].options, command'[c].plans = command[c].plans,
         command'[c].staged = command[c].staged, command'[c].at = command[c].at,
         command'[c].stream = command[c].stream,
         command'[c].yielded = command[c].yielded,
         Frontier(c)' = Frontier(c), Place(c)', Pieces(c)'
  PROVE  Covered(c)'
<1>1. /\ Strict(c)' = Strict(c)
      /\ \A p : StreamsAt(c, p)' = StreamsAt(c, p)
      /\ \A p, s : GroupsAt(c, p, s)' = GroupsAt(c, p, s)
  BY SamePlans
<1>2. Batches(c)' = Batches(c)
  BY <1>1 DEF Batches
<1>3. Handed(c)' = Handed(c)
  BY <1>2 DEF Handed
<1>4. NoneAhead(c)'
  BY <1>3 DEF Covered, NoneAhead, Collecting, Behind
<1>5. NoneSkipped(c)'
  <2> SUFFICES ASSUME NEW p \in 1..Len(input'), NEW s \in 1..StreamsAt(c, p)',
                      NEW g \in 1..Len(GroupsAt(c, p, s)'), Passed(c, p, s, g)'
               PROVE  \E b \in Handed(c)' : Covers(b, p, s, g)
    BY DEF NoneSkipped, Covers
  <2>1. /\ p \in 1..Len(input) /\ s \in 1..StreamsAt(c, p)
        /\ g \in 1..Len(GroupsAt(c, p, s)) /\ Passed(c, p, s, g)
    BY <1>1 DEF Passed, Finished
  <2> QED
    BY <2>1, <1>3 DEF Covered, NoneSkipped, Collecting
<1>6. NoneTwice(c)' /\ Stage(c)'
  BY <1>2 DEF Covered, NoneTwice, SameStream, Stage
<1> QED
  BY <1>4, <1>5, <1>6 DEF Covered

(* Where a command that reads in batches is. *)
LEMMA PlaceTypes ==
  ASSUME NEW c \in Commands, TypeOK, Covered(c), Collecting(c)
  PROVE  /\ command[c].at \in 1..Len(input)
         /\ command[c].stream \in 1..StreamsAt(c, command[c].at)
         /\ command[c].from \in Nat /\ command[c].next \in Nat
         /\ 1 <= command[c].from /\ command[c].from <= command[c].next
         /\ command[c].next <= Len(GroupsOf(c)) + 1
         /\ Len(GroupsOf(c)) \in Nat /\ command[c].split \in Seq(Parts)
<1>1. command[c] \in Progress
  BY Types
<1>2. /\ command[c].at \in 1..Len(input)
      /\ command[c].stream \in 1..StreamsAt(c, command[c].at)
      /\ 1 <= command[c].from /\ command[c].from <= command[c].next
      /\ command[c].next <= Len(GroupsOf(c)) + 1
  BY DEF Covered, Place
<1>3. Len(GroupsOf(c)) \in Nat
  BY <1>2, StreamTypes DEF GroupsOf
<1> QED
  BY <1>1, <1>2, <1>3 DEF Progress

(* One more group is packed. *)
LEMMA PackStep ==
  ASSUME NEW c \in Commands, IInv, Pack(c)
  PROVE  IInv'
<1> DEFINE k == [command[c] EXCEPT !.next = @ + 1]
<1>1. TypeOK /\ Covered(c) /\ command[c] \in Progress
  BY DEF IInv, TypeOK
<1>2. k \in Progress
  <2>1. command[c].next + 1 \in Nat
    BY <1>1 DEF Progress
  <2> QED
    BY <2>1, <1>1 DEF Progress
<1>3. Becomes(c, k, runs[c])
  <2>1. command' = [command EXCEPT ![c] = k]
    BY <1>1 DEF Pack
  <2>2. runs' = [runs EXCEPT ![c] = runs[c]]
    BY <1>1, RunsKept DEF Pack
  <2> QED
    BY <2>1, <2>2 DEF Pack, Becomes
<1>4. command'[c] = k /\ runs'[c] = runs[c] /\ input' = input
  BY <1>1, <1>2, <1>3, Becoming, Types
<1>5. \A p, s : GroupsAt(c, p, s)' = GroupsAt(c, p, s) /\ StreamsAt(c, p)' = StreamsAt(c, p)
  BY <1>1, <1>4, SamePlans DEF Progress
<1>6. Place(c)'
  <2>1. Collecting(c) /\ command[c].next <= Len(GroupsOf(c))
    <3>1. Collecting(c)
      BY DEF Pack, Pulling, Collecting
    <3> QED
      BY <3>1, <1>1, PlaceTypes DEF Pack, Exhausted
  <2>2. GroupsOf(c)' = GroupsOf(c)
    BY <1>1, <1>4, <1>5 DEF GroupsOf, Progress
  <2> QED
    BY <2>1, <2>2, <1>1, <1>4, <1>5, PlaceTypes DEF Place, Progress
<1>7. Pieces(c)'
  BY <1>1, <1>4 DEF Covered, Pack, Pulling, Pieces, Linked, Collecting
<1>8. /\ command[c].stage = "pull" /\ k.stage = "pull"
      /\ k.options = command[c].options /\ k.plans = command[c].plans
      /\ k.staged = command[c].staged /\ k.at = command[c].at
      /\ k.stream = command[c].stream /\ k.yielded = command[c].yielded
      /\ k.split = command[c].split /\ k.from = command[c].from
  BY <1>1 DEF Pack, Pulling, Progress
<1> HIDE DEF k
<1>9. Frontier(c)' = Frontier(c)
  BY <1>4, <1>8 DEF Frontier, After
<1>10. Covered(c)'
  BY <1>1, <1>4, <1>6, <1>7, <1>8, <1>9, Repacking
<1> QED
  BY <1>1, <1>2, <1>3, <1>10, OneCovered, Types

(* What has been read are batches. *)
LEMMA HandedTypes ==
  ASSUME NEW c \in Commands, TypeOK, Covered(c), NEW h \in Handed(c)
  PROVE  h \in BatchType /\ h.at \in Nat /\ h.stream \in Nat /\ h.last \in Nat
<1>1. Batches(c) \in Seq(BatchType) /\ (command[c].stage = "take" => command[c].batch \in BatchType)
  BY Types DEF Covered, Stage
<1>2. h \in BatchType
  BY <1>1 DEF Handed
<1> QED
  BY <1>2 DEF BatchType

(* The packed groups become one part. *)
LEMMA FlushStep ==
  ASSUME NEW c \in Commands, IInv, Flush(c)
  PROVE  IInv'
<1> DEFINE part == [first |-> command[c].from, last |-> command[c].next - 1]
           k == [command[c] EXCEPT !.split = <<part>>, !.from = command[c].next]
<1>1. TypeOK /\ Covered(c) /\ command[c] \in Progress /\ Collecting(c)
  BY DEF IInv, TypeOK, Flush, Pulling, Collecting
<1>2. /\ command[c].from \in Nat /\ command[c].next \in Nat
      /\ 1 <= command[c].from /\ command[c].from < command[c].next
      /\ command[c].split = <<>> /\ command[c].stage = "pull"
  BY <1>1, PlaceTypes DEF Flush, Pulling, Packed
<1>3. k \in Progress
  <2>1. part \in Parts
    BY <1>2 DEF Parts
  <2>2. <<part>> \in Seq(Parts)
    BY <2>1
  <2> HIDE DEF part
  <2> QED
    BY <2>2, <1>1, <1>2 DEF Progress
<1>4. Becomes(c, k, runs[c])
  <2>1. command' = [command EXCEPT ![c] = k]
    BY <1>1 DEF Flush
  <2>2. runs' = [runs EXCEPT ![c] = runs[c]]
    BY <1>1, RunsKept DEF Flush
  <2> QED
    BY <2>1, <2>2 DEF Flush, Becomes
<1>5. command'[c] = k /\ runs'[c] = runs[c] /\ input' = input
  BY <1>1, <1>3, <1>4, Becoming, Types
<1>6. /\ k.stage = "pull" /\ k.split = <<part>> /\ k.from = command[c].next
      /\ k.options = command[c].options /\ k.plans = command[c].plans
      /\ k.staged = command[c].staged /\ k.at = command[c].at
      /\ k.stream = command[c].stream /\ k.yielded = command[c].yielded
      /\ k.next = command[c].next
  BY <1>1, <1>2 DEF Progress
<1>7. part.first = command[c].from /\ part.last = command[c].next - 1
  OBVIOUS
<1> HIDE DEF k, part
<1>8. \A p, s : GroupsAt(c, p, s)' = GroupsAt(c, p, s) /\ StreamsAt(c, p)' = StreamsAt(c, p)
  BY <1>5, <1>6, SamePlans
<1>9. GroupsOf(c)' = GroupsOf(c)
  BY <1>5, <1>6, <1>8 DEF GroupsOf
<1>10. Place(c)'
  BY <1>1, <1>2, <1>5, <1>6, <1>8, <1>9, PlaceTypes DEF Place
<1>11. Pieces(c)'
  BY <1>2, <1>5, <1>6, <1>7 DEF Pieces, Linked
<1>12. Frontier(c)' = Frontier(c)
  BY <1>2, <1>5, <1>6, <1>7 DEF Frontier, After
<1>13. Covered(c)'
  BY <1>1, <1>2, <1>5, <1>6, <1>10, <1>11, <1>12, Repacking
<1> QED
  BY <1>1, <1>3, <1>4, <1>13, OneCovered, Types

(* A command that ends keeps the batches it has ingested and drops the staged. *)
LEMMA Ending ==
  ASSUME NEW c \in Commands, IInv, NEW stage \in {"failed", "killed"},
         NEW printed \in Nat \cup {None}, Becomes(c, Ended(c, stage, printed), runs[c])
  PROVE  IInv'
<1> DEFINE k == Ended(c, stage, printed)
<1>1. TypeOK /\ Covered(c) /\ command[c] \in Progress
  BY DEF IInv, TypeOK
<1>2. k \in Progress
  <2>1. Start(command[c].options) \in Progress
    BY <1>1 DEF Start, Progress, Stages
  <2>2. command[c].plans \in Seq({"whole", "single", "batched"}) /\ stage \in Stages
    BY <1>1 DEF Progress, Stages
  <2> QED
    BY <2>1, <2>2 DEF Ended, Progress
<1>3. command'[c] = k /\ runs'[c] = runs[c] /\ input' = input
  BY <1>1, <1>2, Becoming, Types
<1>4. /\ k.options = command[c].options /\ k.plans = command[c].plans
      /\ k.staged = <<>> /\ k.stage = stage
  BY DEF Ended, Start
<1>5. Strict(c)' = Strict(c)
  BY <1>3, <1>4 DEF Strict
<1>6. NoneTwice(c)'
  BY <1>1, <1>3, <1>4, <1>5 DEF Covered, NoneTwice, Batches, SameStream
<1>7. Covered(c)'
  BY <1>3, <1>4, <1>6 DEF Covered, Place, Pieces, NoneAhead, NoneSkipped, Stage,
                          Collecting, Finished
<1> QED
  BY <1>1, <1>2, <1>7, OneCovered, Types

(* A command fails. *)
LEMMA Failing ==
  ASSUME NEW c \in Commands, IInv, Fail(c), UNCHANGED <<input, runs>>
  PROVE  IInv'
<1>1. TypeOK /\ command[c] \in Progress
  BY DEF IInv, TypeOK
<1>2. Printed(c) \in Nat \cup {None}
  BY <1>1 DEF Printed, Progress
<1>3. Becomes(c, Ended(c, "failed", Printed(c)), runs[c])
  BY <1>1, RunsKept DEF Fail, Becomes
<1> QED
  BY <1>2, <1>3, Ending

(* A batch b is handed over: it starts at the frontier and what is left of the
   last packed groups, split, starts behind it. *)
LEMMA Yielding ==
  ASSUME NEW c \in Commands, IInv, command[c].stage = "pull", UNCHANGED <<input, runs>>,
         NEW b \in BatchType, b.at = command[c].at, b.stream = command[c].stream,
         NEW split \in Seq(Parts), Yield(c, b, split), Linked(c, split),
         Frontier(c) \in Nat, After(c, split) \in Nat,
         Frontier(c) <= After(c, split), b.last < After(c, split),
         \A g \in Nat : Frontier(c) <= g /\ g < After(c, split)
                         => b.first <= g /\ g <= b.last,
         command[c].yielded => b.first = Frontier(c)
  PROVE  IInv'
<1> DEFINE f == After(c, split)
<1>1. CASE command[c].batches + 1 > MaxBatches
  BY <1>1, Failing DEF Yield
<1>2. CASE ~(command[c].batches + 1 > MaxBatches)
  <2> DEFINE k == [command[c] EXCEPT !.stage = "take", !.batch = b, !.batches = @ + 1,
                                     !.split = split, !.yielded = TRUE]
  <2>1. TypeOK /\ Covered(c) /\ command[c] \in Progress /\ Collecting(c)
    BY DEF IInv, TypeOK, Collecting
  <2>2. k \in Progress
    <3>1. command[c].batches + 1 \in Nat /\ "take" \in Stages
      BY <2>1 DEF Progress, Stages
    <3> QED
      BY <2>1, <3>1 DEF Progress
  <2>3. Becomes(c, k, runs[c])
    <3>1. command' = [command EXCEPT ![c] = k]
      BY <1>2, <2>1 DEF Yield
    <3> QED
      BY <3>1, <2>1, RunsKept DEF Becomes
  <2>4. command'[c] = k /\ runs'[c] = runs[c] /\ input' = input
    BY <2>1, <2>2, <2>3, Becoming, Types
  <2>5. /\ k.stage = "take" /\ k.split = split /\ k.from = command[c].from
        /\ k.options = command[c].options /\ k.plans = command[c].plans
        /\ k.staged = command[c].staged /\ k.at = command[c].at
        /\ k.stream = command[c].stream /\ k.yielded /\ k.batch = b
        /\ k.next = command[c].next
    BY <2>1 DEF Progress
  <2> HIDE DEF k
  <2>6. /\ Strict(c)' = Strict(c)
        /\ \A p : StreamsAt(c, p)' = StreamsAt(c, p)
        /\ \A p, s : GroupsAt(c, p, s)' = GroupsAt(c, p, s)
    BY <2>4, <2>5, SamePlans
  <2>7. /\ Batches(c)' = Batches(c) /\ GroupsOf(c)' = GroupsOf(c)
        /\ Frontier(c)' = f
    BY <2>4, <2>5, <2>6 DEF Batches, GroupsOf, Frontier, After
  <2>8. Handed(c)' = Handed(c) \cup {b}
    BY <2>4, <2>5, <2>7 DEF Handed
  <2>9. Place(c)' /\ Pieces(c)'
    BY <2>1, <2>4, <2>5, <2>6, <2>7, PlaceTypes DEF Place, Pieces, Linked
  <2>10. NoneAhead(c)'
    <3>1. ASSUME NEW h \in Handed(c) PROVE Behind(c, h)'
      <4>1. Behind(c, h) /\ h.last \in Nat
        BY <2>1, HandedTypes DEF Covered, NoneAhead
      <4> QED
        BY <4>1, <2>4, <2>5, <2>7 DEF Behind, BatchType
    <3>2. Behind(c, b)'
      BY <2>4, <2>5, <2>7 DEF Behind
    <3> QED
      BY <2>8, <3>1, <3>2 DEF NoneAhead
  <2>11. NoneSkipped(c)'
    <3> SUFFICES ASSUME NEW p \in 1..Len(input), NEW s \in 1..StreamsAt(c, p),
                        NEW g \in 1..Len(GroupsAt(c, p, s)), Passed(c, p, s, g)'
                 PROVE  \E h \in Handed(c)' : Covers(h, p, s, g)
      <4> SUFFICES ASSUME NEW p \in 1..Len(input'), NEW s \in 1..StreamsAt(c, p)',
                          NEW g \in 1..Len(GroupsAt(c, p, s)'), Passed(c, p, s, g)'
                   PROVE  \E h \in Handed(c)' : Covers(h, p, s, g)
        BY DEF NoneSkipped, Covers
      <4> QED
        BY <2>4, <2>6
    <3>1. CASE Passed(c, p, s, g)
      BY <2>1, <2>8, <3>1 DEF Covered, NoneSkipped
    <3>2. CASE ~Passed(c, p, s, g)
      <4>1. p = b.at /\ s = b.stream /\ g < f /\ ~(g < Frontier(c))
        BY <2>4, <2>5, <2>7, <3>2 DEF Passed, Finished
      <4>2. g \in Nat
        BY <2>1, StreamTypes
      <4> QED
        BY <2>8, <4>1, <4>2 DEF Covers
    <3> QED
      BY <3>1, <3>2
  <2>12. NoneTwice(c)'
    <3>1. ASSUME NEW i \in 1..Len(Batches(c)), SameStream(Batches(c)[i], b)
          PROVE  Batches(c)[i].last < b.first
      <4>1. Batches(c)[i] \in Handed(c) /\ Behind(c, Batches(c)[i])
        BY <2>1 DEF Handed, Covered, NoneAhead
      <4>2. command[c].at \in Nat /\ command[c].stream \in Nat
        BY <2>1 DEF Progress
      <4> QED
        BY <3>1, <4>1, <4>2 DEF Behind, SameStream
    <3>2. \A i, j \in 1..Len(Batches(c)) :
            i < j /\ SameStream(Batches(c)[i], Batches(c)[j])
              => Batches(c)[i].last < Batches(c)[j].first
      BY <2>1 DEF Covered, NoneTwice
    <3> QED
      BY <2>4, <2>5, <2>7, <3>1, <3>2 DEF NoneTwice, SameStream
  <2>13. Stage(c)'
    BY <2>4, <2>5 DEF Stage
  <2> QED
    BY <2>1, <2>2, <2>3, <2>9, <2>10, <2>11, <2>12, <2>13, OneCovered, Types DEF Covered
<1> QED
  BY <1>1, <1>2

(* A stream without groups is handed over as a batch that has none. *)
LEMMA YieldWholeStep ==
  ASSUME NEW c \in Commands, IInv, YieldWhole(c)
  PROVE  IInv'
<1> DEFINE b == BatchOf(c, 1, 0)
<1>1. TypeOK /\ Covered(c) /\ command[c] \in Progress /\ Collecting(c)
  BY DEF IInv, TypeOK, YieldWhole, Pulling, Collecting
<1>2. /\ command[c].stage = "pull" /\ command[c].split = <<>> /\ ~command[c].yielded
      /\ UNCHANGED <<input, runs>> /\ (Fail(c) \/ Yield(c, b, <<>>))
  BY DEF YieldWhole, Pulling
<1>3. /\ b \in BatchType /\ b.at = command[c].at /\ b.stream = command[c].stream
      /\ b.first = 1 /\ b.last = 0
  BY <1>1 DEF BatchOf, BatchType, Progress
<1>4. /\ Frontier(c) = command[c].from /\ command[c].from \in Nat
      /\ 1 <= command[c].from
  BY <1>1, <1>2, PlaceTypes DEF Frontier, After
<1>5. CASE Fail(c)
  BY <1>2, <1>5, Failing
<1>6. CASE Yield(c, b, <<>>)
  <2> HIDE DEF b
  <2> DEFINE none == <<>>
  <2>1. /\ none \in Seq(Parts) /\ Yield(c, b, none) /\ Linked(c, none)
        /\ After(c, none) = command[c].from
    BY <1>6 DEF Linked, After
  <2> HIDE DEF none
  <2> QED
    BY <1>2, <1>3, <1>4, <2>1, Yielding
<1> QED
  BY <1>2, <1>5, <1>6

(* The middle of a part that is no single group divides it in two. *)
LEMMA HalvesMeet ==
  ASSUME NEW part \in Parts, part.first < part.last
  PROVE  /\ Halves(part) \in Seq(Parts) /\ Len(Halves(part)) = 2
         /\ Halves(part)[1].first = part.first
         /\ part.first <= Halves(part)[1].last
         /\ Halves(part)[1].last + 1 = Halves(part)[2].first
         /\ 1 <= Halves(part)[2].first /\ Halves(part)[2].first <= part.last
         /\ Halves(part)[2].last = part.last
<1> DEFINE middle == part.first + (part.last - part.first + 1) \div 2
           low == [first |-> part.first, last |-> middle - 1]
           high == [first |-> middle, last |-> part.last]
<1>1. part.first \in Nat /\ part.last \in Nat
  BY DEF Parts
<1>2. middle \in Nat /\ part.first < middle /\ middle <= part.last
  BY <1>1
<1>3. low \in Parts /\ high \in Parts
  BY <1>1, <1>2 DEF Parts
<1>4. Halves(part) = <<low, high>>
  BY DEF Halves
<1>5. /\ low.first = part.first /\ low.last = middle - 1
      /\ high.first = middle /\ high.last = part.last
  OBVIOUS
<1> HIDE DEF middle, low, high
<1> QED
  BY <1>1, <1>2, <1>3, <1>4, <1>5

(* Two halves that meet, and end where the parts left begin, come before them. *)
LEMMA HalvesLinked ==
  ASSUME NEW c, NEW halves \in Seq(Parts), Len(halves) = 2,
         NEW rest \in Seq(Parts), Linked(c, rest),
         1 <= halves[1].first, halves[1].first <= halves[1].last,
         halves[1].last + 1 = halves[2].first, 1 <= halves[2].first,
         halves[2].first <= halves[2].last, halves[2].last + 1 = After(c, rest)
  PROVE  /\ halves \o rest \in Seq(Parts)
         /\ Linked(c, halves \o rest)
         /\ After(c, halves \o rest) = halves[1].first
<1> DEFINE split == halves \o rest
<1>1. /\ split \in Seq(Parts) /\ Len(split) = Len(rest) + 2 /\ Len(rest) \in Nat
      /\ split[1] = halves[1] /\ split[2] = halves[2]
      /\ \A i \in 1..Len(rest) : split[i + 2] = rest[i]
  <2>1. /\ split \in Seq(Parts) /\ Len(split) = Len(halves) + Len(rest)
        /\ \A i \in 1..(Len(halves) + Len(rest)) :
             split[i] = IF i <= Len(halves) THEN halves[i] ELSE rest[i - Len(halves)]
    BY ConcatProperties
  <2>2. Len(rest) \in Nat
    OBVIOUS
  <2> HIDE DEF split
  <2>3. split[1] = halves[1] /\ split[2] = halves[2]
    BY <2>1, <2>2
  <2>4. ASSUME NEW i \in 1..Len(rest) PROVE split[i + 2] = rest[i]
    <3>1. i + 2 \in 1..(Len(halves) + Len(rest)) /\ ~(i + 2 <= 2) /\ i + 2 - 2 = i
      BY <2>2
    <3> QED
      BY <2>1, <3>1
  <2> QED
    BY <2>1, <2>2, <2>3, <2>4
<1> HIDE DEF split
<1>2. After(c, split) = halves[1].first
  BY <1>1 DEF After
<1>3. ASSUME NEW i \in 1..Len(split)
      PROVE  /\ 1 <= split[i].first /\ split[i].first <= split[i].last
             /\ split[i].last + 1 =
                  IF i = Len(split) THEN command[c].from ELSE split[i + 1].first
  <2>1. CASE i = 1
    BY <1>1, <2>1
  <2>2. CASE i = 2
    <3>1. CASE rest = <<>>
      BY <1>1, <2>2, <3>1 DEF After
    <3>2. CASE rest # <<>>
      <4>1. Len(rest) >= 1 /\ split[3] = rest[1]
        BY <1>1, <3>2
      <4> QED
        BY <1>1, <2>2, <3>2, <4>1 DEF After
    <3> QED
      BY <3>1, <3>2
  <2>3. CASE i > 2
    <3>1. i - 2 \in 1..Len(rest) /\ split[i] = rest[i - 2]
      BY <1>1, <2>3
    <3>2. i # Len(split) => split[i + 1] = rest[i - 2 + 1]
      <4>1. i \in Nat /\ i <= 2 + Len(rest) /\ Len(split) = 2 + Len(rest) /\ Len(rest) \in Nat
        BY <1>1
      <4>2. ASSUME i # Len(split)
            PROVE  i - 1 \in 1..Len(rest) /\ i - 1 + 2 = i + 1 /\ i - 2 + 1 = i - 1
        BY <2>3, <4>1, <4>2
      <4>3. i # Len(split) => split[i - 1 + 2] = rest[i - 1]
        BY <1>1, <4>2
      <4> QED
        BY <4>2, <4>3
    <3>3. /\ 1 <= rest[i - 2].first /\ rest[i - 2].first <= rest[i - 2].last
          /\ rest[i - 2].last + 1 =
               IF i - 2 = Len(rest) THEN command[c].from ELSE rest[i - 2 + 1].first
      BY <3>1 DEF Linked
    <3> QED
      BY <1>1, <3>1, <3>2, <3>3
  <2> QED
    BY <2>1, <2>2, <2>3
<1>4. Linked(c, split)
  BY <1>3 DEF Linked
<1> QED
  BY <1>1, <1>2, <1>4 DEF split

(* The first part becomes a batch, or two halves. *)
LEMMA CollectPartStep ==
  ASSUME NEW c \in Commands, IInv, CollectPart(c)
  PROVE  IInv'
<1> DEFINE part == Head(command[c].split)
           rest == Tail(command[c].split)
           b == BatchOf(c, part.first, part.last)
<1>1. TypeOK /\ Covered(c) /\ command[c] \in Progress /\ Collecting(c)
  BY DEF IInv, TypeOK, CollectPart, Collecting
<1>2. /\ command[c].split \in Seq(Parts) /\ command[c].split # <<>>
      /\ Linked(c, command[c].split)
      /\ command[c].from \in Nat
  BY <1>1, PlaceTypes DEF CollectPart, Covered, Pieces
<1>3. /\ part \in Parts /\ part = command[c].split[1]
      /\ rest \in Seq(Parts) /\ Len(rest) = Len(command[c].split) - 1
      /\ \A i \in 1..Len(rest) : rest[i] = command[c].split[i + 1]
  BY <1>2
<1>4. /\ Frontier(c) = part.first /\ 1 <= part.first /\ part.first <= part.last
      /\ part.first \in Nat /\ part.last \in Nat
  BY <1>2, <1>3 DEF Frontier, After, Linked, Parts
<1>5. Linked(c, rest) /\ After(c, rest) = part.last + 1
  <2> DEFINE split == command[c].split
  <2>1. /\ split \in Seq(Parts) /\ Len(split) \in Nat /\ Len(split) >= 1
        /\ Linked(c, split) /\ part = split[1] /\ rest \in Seq(Parts)
        /\ Len(rest) = Len(split) - 1
        /\ \A i \in 1..Len(rest) : rest[i] = split[i + 1]
    BY <1>2, <1>3
  <2> HIDE DEF split, part, rest
  <2>2. Linked(c, rest)
    BY <2>1 DEF Linked
  <2>3. CASE rest = <<>>
    <3>1. Len(split) = 1 /\ 1 \in 1..Len(split)
      BY <2>1, <2>3
    <3>2. split[1].last + 1 = IF 1 = Len(split) THEN command[c].from ELSE split[1 + 1].first
      BY <2>1, <3>1 DEF Linked
    <3>3. split[1].last + 1 = command[c].from
      BY <3>1, <3>2
    <3> QED
      BY <2>1, <2>2, <2>3, <3>3 DEF After
  <2>4. CASE rest # <<>>
    BY <2>1, <2>2, <2>4 DEF After, Linked
  <2> QED
    BY <2>2, <2>3, <2>4
<1>6. CASE Yield(c, b, rest)
  <2>1. /\ b \in BatchType /\ b.at = command[c].at /\ b.stream = command[c].stream
        /\ b.first = part.first /\ b.last = part.last
    BY <1>1, <1>4 DEF BatchOf, BatchType, Progress
  <2>2. command[c].stage = "pull" /\ UNCHANGED <<input, runs>>
    BY DEF CollectPart
  <2> HIDE DEF part, rest, b
  <2>3. \A g \in Nat : part.first <= g /\ g < part.last + 1 => part.first <= g /\ g <= part.last
    BY <1>4
  <2>4. /\ part.last + 1 \in Nat /\ part.first <= part.last + 1 /\ b.last < part.last + 1
    BY <1>4, <2>1
  <2>5. rest \in Seq(Parts)
    BY <1>3
  <2> QED
    BY <1>4, <1>5, <1>6, <2>1, <2>2, <2>3, <2>4, <2>5, Yielding
<1>7. CASE Fail(c)
  BY <1>7, Failing DEF CollectPart
<1>8. CASE /\ part.first # part.last
           /\ command' = [command EXCEPT ![c].split = Halves(part) \o rest]
  <2> DEFINE split == Halves(part) \o rest
             k == [command[c] EXCEPT !.split = split]
  <2>1. part.first < part.last
    BY <1>4, <1>8
  <2>2. /\ split \in Seq(Parts) /\ Linked(c, split) /\ After(c, split) = part.first
    <3> DEFINE halves == Halves(part)
    <3>1. /\ halves \in Seq(Parts) /\ Len(halves) = 2 /\ halves[1].first = part.first
          /\ part.first <= halves[1].last /\ halves[1].last + 1 = halves[2].first
          /\ 1 <= halves[2].first /\ halves[2].first <= part.last
          /\ halves[2].last = part.last
      BY <1>3, <2>1, HalvesMeet
    <3> HIDE DEF halves, rest, part
    <3>2. /\ 1 <= halves[1].first /\ halves[1].first <= halves[1].last
          /\ halves[2].first <= halves[2].last
          /\ halves[2].last + 1 = After(c, rest)
      BY <1>4, <1>5, <3>1
    <3>3. /\ halves \o rest \in Seq(Parts) /\ Linked(c, halves \o rest)
          /\ After(c, halves \o rest) = part.first
      BY <1>3, <1>5, <3>1, <3>2, HalvesLinked
    <3> QED
      BY <3>3 DEF halves
  <2>3. command[c].stage = "pull" /\ UNCHANGED <<input, runs>>
    BY DEF CollectPart
  <2> HIDE DEF split, part, rest
  <2>5. k \in Progress
    BY <1>1, <2>2 DEF Progress
  <2>6. Becomes(c, k, runs[c])
    <3>1. command' = [command EXCEPT ![c] = k]
      BY <1>1, <1>8 DEF split
    <3> QED
      BY <3>1, <1>1, <2>3, RunsKept DEF Becomes
  <2>7. command'[c] = k /\ runs'[c] = runs[c] /\ input' = input
    BY <1>1, <2>5, <2>6, Becoming, Types
  <2>8. /\ k.stage = "pull" /\ k.split = split /\ k.from = command[c].from
        /\ k.options = command[c].options /\ k.plans = command[c].plans
        /\ k.staged = command[c].staged /\ k.at = command[c].at
        /\ k.stream = command[c].stream /\ k.yielded = command[c].yielded
        /\ k.next = command[c].next
    BY <1>1, <2>3 DEF Progress
  <2> HIDE DEF k
  <2>9. \A p, s : GroupsAt(c, p, s)' = GroupsAt(c, p, s) /\ StreamsAt(c, p)' = StreamsAt(c, p)
    BY <2>7, <2>8, SamePlans
  <2>10. GroupsOf(c)' = GroupsOf(c)
    BY <2>7, <2>8, <2>9 DEF GroupsOf
  <2>11. Place(c)'
    BY <1>1, <2>7, <2>8, <2>9, <2>10, PlaceTypes DEF Place
  <2>12. Pieces(c)' /\ Frontier(c)' = Frontier(c)
    BY <1>4, <2>2, <2>7, <2>8 DEF Pieces, Linked, Frontier, After
  <2>13. Covered(c)'
    BY <1>1, <2>3, <2>7, <2>8, <2>11, <2>12, Repacking
  <2> QED
    BY <1>1, <2>5, <2>6, <2>13, OneCovered, Types
<1> QED
  BY <1>6, <1>7, <1>8 DEF CollectPart

(* A command that has read a stream moves on, and all it leaves behind is read. *)
LEMMA Moving ==
  ASSUME NEW c \in Commands, IInv, command[c].stage = "pull",
         NEW k \in Progress, Becomes(c, k, runs[c]),
         k.stage = "pull", k.options = command[c].options, k.plans = command[c].plans,
         k.staged = command[c].staged, k.split = <<>>, k.from = 1, k.next = 1,
         k.at \in 1..Len(input), k.stream \in 1..StreamsAt(c, k.at), ~k.yielded,
         \/ command[c].at < k.at
         \/ command[c].at = k.at /\ command[c].stream < k.stream,
         \A p \in 1..Len(input) : \A s \in 1..StreamsAt(c, p) :
           \A g \in 1..Len(GroupsAt(c, p, s)) :
             p < k.at \/ (p = k.at /\ s < k.stream) => Passed(c, p, s, g)
  PROVE  IInv'
<1>1. TypeOK /\ Covered(c) /\ command[c] \in Progress /\ Collecting(c)
  BY DEF IInv, TypeOK, Collecting
<1>2. command'[c] = k /\ runs'[c] = runs[c] /\ input' = input
  BY <1>1, Becoming, Types
<1>3. /\ Strict(c)' = Strict(c)
      /\ \A p : StreamsAt(c, p)' = StreamsAt(c, p)
      /\ \A p, s : GroupsAt(c, p, s)' = GroupsAt(c, p, s)
  BY <1>2, SamePlans
<1>4. Batches(c)' = Batches(c) /\ Frontier(c)' = 1
  BY <1>2, <1>3 DEF Batches, Frontier, After
<1>5. Handed(c)' = Handed(c)
  BY <1>2, <1>4 DEF Handed
<1>6. Place(c)'
  <2>1. Len(GroupsAt(c, k.at, k.stream)) \in Nat
    BY <1>1, StreamTypes
  <2>2. GroupsOf(c)' = GroupsAt(c, k.at, k.stream)
    BY <1>2, <1>3 DEF GroupsOf
  <2> QED
    BY <1>2, <1>3, <2>1, <2>2 DEF Place
<1>7. Pieces(c)'
  BY <1>2 DEF Pieces, Linked
<1>8. NoneAhead(c)'
  <2>1. ASSUME NEW h \in Handed(c) PROVE Behind(c, h)'
    <3>1. Behind(c, h) /\ h.at \in Nat /\ h.stream \in Nat
      BY <1>1, HandedTypes DEF Covered, NoneAhead
    <3>2. command[c].at \in Nat /\ command[c].stream \in Nat /\ k.at \in Nat /\ k.stream \in Nat
      BY <1>1 DEF Progress
    <3> QED
      BY <3>1, <3>2, <1>2 DEF Behind
  <2> QED
    BY <2>1, <1>2, <1>5 DEF NoneAhead
<1>9. NoneSkipped(c)'
  <2> SUFFICES ASSUME NEW p \in 1..Len(input'), NEW s \in 1..StreamsAt(c, p)',
                      NEW g \in 1..Len(GroupsAt(c, p, s)'), Passed(c, p, s, g)'
               PROVE  \E b \in Handed(c)' : Covers(b, p, s, g)
    BY DEF NoneSkipped, Covers
  <2>1. /\ p \in 1..Len(input) /\ s \in 1..StreamsAt(c, p)
        /\ g \in 1..Len(GroupsAt(c, p, s))
    BY <1>2, <1>3
  <2>2. p < k.at \/ (p = k.at /\ s < k.stream)
    <3>1. Len(GroupsAt(c, p, s)) \in Nat
      BY <1>1, <2>1, StreamTypes
    <3>2. g \in Nat /\ ~(g < 1)
      BY <2>1, <3>1
    <3>3. ~Finished(c)'
      BY <1>2 DEF Finished
    <3>4. p < k.at \/ (p = k.at /\ s < k.stream) \/ g < 1
      BY <1>2, <1>4, <3>3 DEF Passed
    <3> QED
      BY <3>2, <3>4
  <2> QED
    BY <1>1, <1>5, <2>1, <2>2 DEF Covered, NoneSkipped
<1>10. NoneTwice(c)' /\ Stage(c)'
  BY <1>1, <1>2, <1>4 DEF Covered, NoneTwice, SameStream, Stage
<1> QED
  BY <1>1, <1>6, <1>7, <1>8, <1>9, <1>10, OneCovered, Types DEF Covered

(* A command that has read everything turns to what it staged, or is done. *)
LEMMA Finishing ==
  ASSUME NEW c \in Commands, IInv, NEW k \in Progress, NEW r \in Seq(BatchType),
         Becomes(c, k, r), Collecting(c) \/ Finished(c),
         k.stage \in {"write", "done"}, command[c].stage # "take",
         k.options = command[c].options, k.plans = command[c].plans,
         k.staged = command[c].staged, Strict(c) \/ r = runs[c],
         k.stage = "write" => Strict(c) /\ k.at \in 1..Len(k.staged),
         \A p \in 1..Len(input) : \A s \in 1..StreamsAt(c, p) :
           \A g \in 1..Len(GroupsAt(c, p, s)) : Passed(c, p, s, g)
  PROVE  IInv'
<1>1. TypeOK /\ Covered(c)
  BY DEF IInv
<1>2. command'[c] = k /\ runs'[c] = r /\ input' = input
  BY <1>1, Becoming
<1>3. /\ Strict(c)' = Strict(c)
      /\ \A p : StreamsAt(c, p)' = StreamsAt(c, p)
      /\ \A p, s : GroupsAt(c, p, s)' = GroupsAt(c, p, s)
  BY <1>2, SamePlans
<1>4. Batches(c)' = Batches(c)
  BY <1>2, <1>3 DEF Batches
<1>5. Handed(c)' = Handed(c)
  BY <1>2, <1>4 DEF Handed
<1>6. Place(c)' /\ Pieces(c)' /\ NoneAhead(c)'
  BY <1>2 DEF Place, Pieces, NoneAhead, Collecting
<1>7. NoneSkipped(c)'
  <2> SUFFICES ASSUME NEW p \in 1..Len(input'), NEW s \in 1..StreamsAt(c, p)',
                      NEW g \in 1..Len(GroupsAt(c, p, s)')
               PROVE  \E b \in Handed(c)' : Covers(b, p, s, g)
    BY DEF NoneSkipped, Covers
  <2>1. /\ p \in 1..Len(input) /\ s \in 1..StreamsAt(c, p)
        /\ g \in 1..Len(GroupsAt(c, p, s))
    BY <1>2, <1>3
  <2> QED
    BY <1>1, <1>5, <2>1 DEF Covered, NoneSkipped
<1>8. NoneTwice(c)' /\ Stage(c)'
  BY <1>1, <1>2, <1>3, <1>4 DEF Covered, NoneTwice, SameStream, Stage
<1> QED
  BY <1>6, <1>7, <1>8, OneCovered DEF Covered

(* A stream is exhausted. *)
LEMMA AdvanceStep ==
  ASSUME NEW c \in Commands, IInv, Advance(c)
  PROVE  IInv'
<1> DEFINE at == command[c].at
           stream == command[c].stream
           begin == [command[c] EXCEPT !.from = 1, !.next = 1, !.yielded = FALSE]
<1>1. TypeOK /\ Covered(c) /\ command[c] \in Progress /\ Collecting(c)
  BY DEF IInv, TypeOK, Advance, Pulling, Collecting
<1>2. /\ command[c].stage = "pull" /\ command[c].split = <<>> /\ command[c].yielded
      /\ UNCHANGED <<input, runs>> /\ runs' = [runs EXCEPT ![c] = runs[c]]
  BY <1>1, RunsKept DEF Advance, Pulling
<1>3. Frontier(c) = Len(GroupsOf(c)) + 1
  BY <1>1, <1>2, PlaceTypes DEF Advance, Exhausted, Packed, Frontier, After
<1>4. at \in 1..Len(input) /\ stream \in 1..StreamsAt(c, at) /\ Len(input) \in Nat
  BY <1>1, PlaceTypes, Types
<1>5. StreamsAt(c, at) \in Nat
  BY <1>1, <1>4, StreamTypes
<1>6. ASSUME NEW p \in 1..Len(input), NEW s \in 1..StreamsAt(c, p),
             NEW g \in 1..Len(GroupsAt(c, p, s)), p < at \/ (p = at /\ s <= stream)
      PROVE  Passed(c, p, s, g)
  <2>1. Len(GroupsAt(c, p, s)) \in Nat /\ StreamsAt(c, p) \in Nat
    BY <1>1, StreamTypes
  <2>2. CASE p = at /\ s = stream
    <3>1. g < Len(GroupsOf(c)) + 1
      BY <2>1, <2>2 DEF GroupsOf
    <3> QED
      BY <2>2, <3>1, <1>3 DEF Passed
  <2>3. CASE ~(p = at /\ s = stream)
    BY <1>4, <1>5, <1>6, <2>1, <2>3 DEF Passed
  <2> QED
    BY <2>2, <2>3
<1>7. /\ begin \in Progress /\ begin.stage = "pull" /\ begin.split = <<>>
      /\ begin.from = 1 /\ begin.next = 1 /\ ~begin.yielded
      /\ begin.options = command[c].options /\ begin.plans = command[c].plans
      /\ begin.staged = command[c].staged /\ begin.at = at /\ begin.stream = stream
      /\ begin.report = command[c].report
  BY <1>1, <1>2 DEF Progress
<1>8. command' = [command EXCEPT ![c] =
        IF stream < StreamsAt(c, at) THEN [begin EXCEPT !.stream = @ + 1]
        ELSE IF at < Len(input) THEN [begin EXCEPT !.at = @ + 1, !.stream = 1]
        ELSE IF Strict(c) THEN [begin EXCEPT !.stage = "write", !.at = 1]
        ELSE [begin EXCEPT !.stage = "done", !.printed = command[c].report]]
  BY DEF Advance
<1>9. command[c].report \in Nat
  BY <1>1 DEF Progress
<1> HIDE DEF begin
<1>10. CASE stream < StreamsAt(c, at)
  <2> DEFINE k == [begin EXCEPT !.stream = @ + 1]
  <2>1. command' = [command EXCEPT ![c] = k]
    BY <1>8, <1>10
  <2>2. stream + 1 \in Nat /\ stream + 1 \in 1..StreamsAt(c, at)
    BY <1>4, <1>5, <1>10
  <2>3. /\ k \in Progress /\ k.stage = "pull" /\ k.split = <<>>
        /\ k.from = 1 /\ k.next = 1 /\ ~k.yielded
        /\ k.options = command[c].options /\ k.plans = command[c].plans
        /\ k.staged = command[c].staged /\ k.at = at /\ k.stream = stream + 1
    BY <1>7, <2>2 DEF Progress
  <2> HIDE DEF k
  <2>4. ASSUME NEW p \in 1..Len(input), NEW s \in 1..StreamsAt(c, p),
               NEW g \in 1..Len(GroupsAt(c, p, s)), p < k.at \/ (p = k.at /\ s < k.stream)
        PROVE  Passed(c, p, s, g)
    <3>1. StreamsAt(c, p) \in Nat
      BY <1>1, StreamTypes
    <3>2. p < at \/ (p = at /\ s <= stream)
      BY <1>4, <1>5, <2>3, <2>4, <3>1
    <3> QED
      BY <1>6, <3>2
  <2>5. stream < stream + 1
    BY <1>4, <1>5
  <2>6. Becomes(c, k, runs[c])
    BY <1>2, <2>1 DEF Becomes
  <2> QED
    BY <1>2, <1>4, <2>2, <2>3, <2>4, <2>5, <2>6, Moving
<1>11. CASE ~(stream < StreamsAt(c, at)) /\ at < Len(input)
  <2> DEFINE k == [begin EXCEPT !.at = @ + 1, !.stream = 1]
  <2>1. command' = [command EXCEPT ![c] = k]
    BY <1>8, <1>11
  <2>2. at + 1 \in Nat /\ at + 1 \in 1..Len(input) /\ at < at + 1
    BY <1>4, <1>11
  <2>3. /\ k \in Progress /\ k.stage = "pull" /\ k.split = <<>>
        /\ k.from = 1 /\ k.next = 1 /\ ~k.yielded
        /\ k.options = command[c].options /\ k.plans = command[c].plans
        /\ k.staged = command[c].staged /\ k.at = at + 1 /\ k.stream = 1
    BY <1>7, <2>2 DEF Progress
  <2> HIDE DEF k
  <2>4. ASSUME NEW p \in 1..Len(input), NEW s \in 1..StreamsAt(c, p),
               NEW g \in 1..Len(GroupsAt(c, p, s)), p < k.at \/ (p = k.at /\ s < k.stream)
        PROVE  Passed(c, p, s, g)
    <3>1. StreamsAt(c, p) \in Nat
      BY <1>1, StreamTypes
    <3>2. p < at \/ (p = at /\ s <= stream)
      BY <1>4, <1>5, <1>11, <2>3, <2>4, <3>1
    <3> QED
      BY <1>6, <3>2
  <2>5. 1 \in 1..StreamsAt(c, k.at)
    BY <1>1, <2>2, <2>3, StreamTypes
  <2>6. Becomes(c, k, runs[c])
    BY <1>2, <2>1 DEF Becomes
  <2> QED
    BY <1>2, <2>2, <2>3, <2>4, <2>5, <2>6, Moving
<1>12. CASE ~(stream < StreamsAt(c, at)) /\ ~(at < Len(input))
  <2>1. ASSUME NEW p \in 1..Len(input), NEW s \in 1..StreamsAt(c, p),
               NEW g \in 1..Len(GroupsAt(c, p, s))
        PROVE  Passed(c, p, s, g)
    <3>1. StreamsAt(c, p) \in Nat
      BY <1>1, StreamTypes
    <3>2. at = Len(input) /\ stream = StreamsAt(c, at)
      BY <1>4, <1>5, <1>12
    <3>3. p = at => s <= stream
      BY <3>1, <3>2
    <3>4. p <= at
      BY <1>4, <3>2
    <3>5. p < at \/ p = at
      BY <1>4, <3>4
    <3> QED
      BY <1>6, <3>3, <3>5
  <2>2. runs[c] \in Seq(BatchType)
    BY <1>1, Types
  <2>3. CASE Strict(c)
    <3> DEFINE k == [begin EXCEPT !.stage = "write", !.at = 1]
    <3>1. command' = [command EXCEPT ![c] = k]
      BY <1>8, <1>12, <2>3
    <3>2. /\ k \in Progress /\ k.stage = "write" /\ k.at = 1
          /\ k.options = command[c].options /\ k.plans = command[c].plans
          /\ k.staged = command[c].staged
      BY <1>7 DEF Progress, Stages
    <3>3. 1 \in 1..Len(command[c].staged)
      <4>1. Handed(c) # {} /\ Batches(c) = command[c].staged
        BY <1>1, <1>2, <2>3 DEF Covered, NoneAhead, Batches
      <4>2. Len(command[c].staged) \in Nat
        BY <1>1 DEF Progress
      <4> QED
        BY <1>2, <4>1, <4>2 DEF Handed
    <3> HIDE DEF k
    <3>4. Becomes(c, k, runs[c])
      BY <1>2, <3>1 DEF Becomes
    <3> QED
      BY <1>1, <1>2, <2>1, <2>2, <2>3, <3>2, <3>3, <3>4, Finishing
  <2>4. CASE ~Strict(c)
    <3> DEFINE k == [begin EXCEPT !.stage = "done", !.printed = command[c].report]
    <3>1. command' = [command EXCEPT ![c] = k]
      BY <1>8, <1>12, <2>4
    <3>2. /\ k \in Progress /\ k.stage = "done"
          /\ k.options = command[c].options /\ k.plans = command[c].plans
          /\ k.staged = command[c].staged
      BY <1>7, <1>9 DEF Progress, Stages
    <3> HIDE DEF k
    <3>3. Becomes(c, k, runs[c])
      BY <1>2, <3>1 DEF Becomes
    <3> QED
      BY <1>1, <1>2, <2>1, <2>2, <3>2, <3>3, Finishing
  <2> QED
    BY <2>3, <2>4
<1> QED
  BY <1>10, <1>11, <1>12

(* The batch handed over is ingested or staged, and reading goes on. *)
LEMMA Taking ==
  ASSUME NEW c \in Commands, IInv, command[c].stage = "take",
         NEW k \in Progress, NEW r \in Seq(BatchType), Becomes(c, k, r),
         k.stage = "pull", k.options = command[c].options, k.plans = command[c].plans,
         k.at = command[c].at, k.stream = command[c].stream, k.from = command[c].from,
         k.next = command[c].next, k.split = command[c].split,
         k.yielded = command[c].yielded,
         IF Strict(c) THEN k.staged = Append(command[c].staged, command[c].batch)
                      ELSE r = Append(runs[c], command[c].batch)
  PROVE  IInv'
<1> DEFINE b == command[c].batch
<1>1. TypeOK /\ Covered(c) /\ command[c] \in Progress /\ Collecting(c)
  BY DEF IInv, TypeOK, Collecting
<1>2. command'[c] = k /\ runs'[c] = r /\ input' = input
  BY <1>1, Becoming
<1>3. /\ Strict(c)' = Strict(c)
      /\ \A p : StreamsAt(c, p)' = StreamsAt(c, p)
      /\ \A p, s : GroupsAt(c, p, s)' = GroupsAt(c, p, s)
  BY <1>2, SamePlans
<1>4. b \in BatchType /\ Batches(c) \in Seq(BatchType)
  BY <1>1, Types DEF Covered, Stage
<1>5. Batches(c)' = Append(Batches(c), b)
  BY <1>2, <1>3 DEF Batches
<1> HIDE DEF b
<1>6. /\ Len(Batches(c)) \in Nat /\ Len(Batches(c)') = Len(Batches(c)) + 1
      /\ \A i \in 1..Len(Batches(c)) : Batches(c)'[i] = Batches(c)[i]
      /\ Batches(c)'[Len(Batches(c)) + 1] = b
  BY <1>4, <1>5
<1>7. Handed(c)' = Handed(c)
  <2>1. Handed(c) = {Batches(c)[i] : i \in 1..Len(Batches(c))} \cup {b}
    BY DEF Handed, b
  <2>2. Handed(c)' = {Batches(c)'[i] : i \in 1..Len(Batches(c)')}
    BY <1>2 DEF Handed
  <2>3. 1..Len(Batches(c)') = 1..Len(Batches(c)) \cup {Len(Batches(c)) + 1}
    BY <1>6
  <2> QED
    BY <2>1, <2>2, <2>3, <1>6
<1>8. Frontier(c)' = Frontier(c) /\ GroupsOf(c)' = GroupsOf(c)
  BY <1>2, <1>3 DEF Frontier, After, GroupsOf
<1>9. Place(c)' /\ Pieces(c)'
  BY <1>1, <1>2, <1>3, <1>8 DEF Covered, Place, Pieces, Linked, Collecting
<1>10. NoneAhead(c)'
  BY <1>1, <1>2, <1>7, <1>8 DEF Covered, NoneAhead, Behind
<1>11. NoneSkipped(c)'
  <2> SUFFICES ASSUME NEW p \in 1..Len(input'), NEW s \in 1..StreamsAt(c, p)',
                      NEW g \in 1..Len(GroupsAt(c, p, s)'), Passed(c, p, s, g)'
               PROVE  \E h \in Handed(c)' : Covers(h, p, s, g)
    BY DEF NoneSkipped, Covers
  <2>1. /\ p \in 1..Len(input) /\ s \in 1..StreamsAt(c, p)
        /\ g \in 1..Len(GroupsAt(c, p, s))
    BY <1>2, <1>3
  <2>2. Passed(c, p, s, g)
    BY <1>2, <1>8 DEF Passed, Finished
  <2> QED
    BY <1>1, <1>7, <2>1, <2>2 DEF Covered, NoneSkipped
<1>12. NoneTwice(c)'
  <2> SUFFICES ASSUME NEW i \in 1..Len(Batches(c)'), NEW j \in 1..Len(Batches(c)'),
                      i < j, SameStream(Batches(c)'[i], Batches(c)'[j])
               PROVE  Batches(c)'[i].last < Batches(c)'[j].first
    BY <1>2 DEF NoneTwice, SameStream
  <2>1. i \in 1..Len(Batches(c)) /\ Batches(c)'[i] = Batches(c)[i]
    BY <1>6
  <2>2. CASE j = Len(Batches(c)) + 1
    <3>1. SameStream(Batches(c)[i], b) /\ Batches(c)'[j] = b
      BY <1>6, <2>1, <2>2
    <3> QED
      BY <1>1, <2>1, <3>1 DEF Covered, NoneTwice, b
  <2>3. CASE j # Len(Batches(c)) + 1
    <3>1. j \in 1..(Len(Batches(c)) + 1)
      BY <1>6
    <3>2. j \in 1..Len(Batches(c))
      BY <1>6, <2>3, <3>1
    <3>3. Batches(c)'[j] = Batches(c)[j]
      BY <1>6, <3>2
    <3> QED
      BY <1>1, <2>1, <3>2, <3>3 DEF Covered, NoneTwice
  <2> QED
    BY <2>2, <2>3
<1>13. Stage(c)'
  BY <1>2 DEF Stage
<1> QED
  BY <1>1, <1>9, <1>10, <1>11, <1>12, <1>13, OneCovered DEF Covered

(* What Go makes of a command's progress. *)
LEMMA Going ==
  ASSUME NEW c \in Commands, TypeOK, NEW stage \in Stages, NEW at \in Nat,
         Go(c, stage, at)
  PROVE  \E k \in Progress :
           /\ command' = [command EXCEPT ![c] = k]
           /\ k.stage = stage /\ k.at = at
           /\ k.options = command[c].options /\ k.plans = command[c].plans
           /\ k.stream = command[c].stream /\ k.from = command[c].from
           /\ k.next = command[c].next /\ k.split = command[c].split
           /\ k.yielded = command[c].yielded /\ k.staged = command[c].staged
<1> DEFINE printed == IF stage = "done" THEN command[c].report + 1 ELSE command[c].printed
           k == [command[c] EXCEPT !.stage = stage, !.at = at, !.batch = None,
                   !.report = @ + 1, !.printed = printed]
<1>1. command[c] \in Progress
  BY DEF TypeOK
<1>2. command[c].report + 1 \in Nat /\ printed \in Nat \cup {None}
  BY <1>1 DEF Progress
<1>3. command' = [command EXCEPT ![c] = k]
  BY <1>1 DEF Go, TypeOK
<1> HIDE DEF printed
<1>4. k \in Progress
  BY <1>1, <1>2 DEF Progress
<1>5. /\ k.stage = stage /\ k.at = at
      /\ k.options = command[c].options /\ k.plans = command[c].plans
      /\ k.stream = command[c].stream /\ k.from = command[c].from
      /\ k.next = command[c].next /\ k.split = command[c].split
      /\ k.yielded = command[c].yielded /\ k.staged = command[c].staged
  BY <1>1 DEF Progress
<1> HIDE DEF k
<1> QED
  BY <1>3, <1>4, <1>5

(* A batch is ingested. *)
LEMMA IngestBatchStep ==
  ASSUME NEW c \in Commands, IInv, IngestBatch(c)
  PROVE  IInv'
<1>1. TypeOK /\ Covered(c) /\ command[c] \in Progress
  BY DEF IInv, TypeOK
<1>2. command[c].stage = "take" /\ ~Strict(c) /\ input' = input
  BY DEF IngestBatch
<1>3. CASE Fail(c) /\ UNCHANGED <<storedRows, runs>>
  BY <1>2, <1>3, Failing
<1>4. CASE IngestRows(c, command[c].batch) /\ Go(c, "pull", command[c].at)
  <2>1. command[c].batch \in BatchType /\ command[c].at \in Nat /\ "pull" \in Stages
    BY <1>1, <1>2 DEF Covered, Stage, Progress, Stages
  <2>2. PICK k \in Progress :
          /\ command' = [command EXCEPT ![c] = k]
          /\ k.stage = "pull" /\ k.at = command[c].at
          /\ k.options = command[c].options /\ k.plans = command[c].plans
          /\ k.stream = command[c].stream /\ k.from = command[c].from
          /\ k.next = command[c].next /\ k.split = command[c].split
          /\ k.yielded = command[c].yielded /\ k.staged = command[c].staged
    BY <1>1, <1>4, <2>1, Going
  <2> DEFINE r == Append(runs[c], command[c].batch)
  <2>3. r \in Seq(BatchType) /\ runs' = [runs EXCEPT ![c] = r]
    BY <1>1, <1>4, <2>1, Types DEF IngestRows, TypeOK
  <2>4. Becomes(c, k, r)
    BY <1>2, <2>2, <2>3 DEF Becomes
  <2> HIDE DEF r
  <2>5. r = Append(runs[c], command[c].batch)
    BY DEF r
  <2> QED
    BY <1>2, <2>2, <2>3, <2>4, <2>5, Taking
<1> QED
  BY <1>3, <1>4 DEF IngestBatch

(* A batch is staged. *)
LEMMA StageBatchStep ==
  ASSUME NEW c \in Commands, IInv, StageBatch(c)
  PROVE  IInv'
<1> DEFINE staged == Append(command[c].staged, command[c].batch)
           k == [command[c] EXCEPT !.stage = "pull", !.batch = None, !.staged = staged]
<1>1. TypeOK /\ Covered(c) /\ command[c] \in Progress
  BY DEF IInv, TypeOK
<1>2. /\ command[c].stage = "take" /\ Strict(c) /\ input' = input
      /\ runs' = runs /\ runs' = [runs EXCEPT ![c] = runs[c]] /\ runs[c] \in Seq(BatchType)
  BY <1>1, RunsKept DEF StageBatch
<1>3. CASE Fail(c)
  BY <1>2, <1>3, Failing
<1>4. CASE command' = [command EXCEPT ![c].stage = "pull", ![c].batch = None,
                                      ![c].staged = Append(@, command[c].batch)]
  <2>1. command' = [command EXCEPT ![c] = k]
    BY <1>1, <1>4 DEF TypeOK
  <2>2. staged \in Seq(BatchType)
    <3>1. command[c].batch \in BatchType /\ command[c].staged \in Seq(BatchType)
      BY <1>1, <1>2 DEF Covered, Stage, Progress
    <3> QED
      BY <3>1
  <2>3. staged = Append(command[c].staged, command[c].batch)
    OBVIOUS
  <2> HIDE DEF staged
  <2>4. k \in Progress
    BY <1>1, <2>2 DEF Progress, Stages
  <2>5. /\ k.stage = "pull" /\ k.at = command[c].at
        /\ k.options = command[c].options /\ k.plans = command[c].plans
        /\ k.stream = command[c].stream /\ k.from = command[c].from
        /\ k.next = command[c].next /\ k.split = command[c].split
        /\ k.yielded = command[c].yielded /\ k.staged = staged
    BY <1>1 DEF Progress
  <2> HIDE DEF k
  <2>6. Becomes(c, k, runs[c])
    BY <1>2, <2>1 DEF Becomes
  <2> QED
    BY <1>2, <2>3, <2>4, <2>5, <2>6, Taking
<1> QED
  BY <1>3, <1>4 DEF StageBatch

(* A staged batch is ingested: staging has ended, so nothing is left out. *)
LEMMA IngestStagedStep ==
  ASSUME NEW c \in Commands, IInv, IngestStaged(c)
  PROVE  IInv'
<1> DEFINE last == command[c].at = Len(command[c].staged)
           stage == IF last THEN "done" ELSE "write"
           b == command[c].staged[command[c].at]
           r == Append(runs[c], b)
<1>1. TypeOK /\ Covered(c) /\ command[c] \in Progress
  BY DEF IInv, TypeOK
<1>2. /\ command[c].stage = "write" /\ input' = input
      /\ IngestRows(c, b) /\ Go(c, stage, command[c].at + 1)
  BY DEF IngestStaged
<1>3. /\ Strict(c) /\ command[c].at \in 1..Len(command[c].staged)
      /\ Len(command[c].staged) \in Nat /\ command[c].staged \in Seq(BatchType)
  BY <1>1, <1>2 DEF Covered, Stage, Progress
<1>4. command[c].at + 1 \in Nat /\ stage \in Stages
  BY <1>3 DEF Stages
<1>5. b \in BatchType
  BY <1>3
<1>6. r \in Seq(BatchType) /\ runs' = [runs EXCEPT ![c] = r]
  BY <1>1, <1>2, <1>5, Types DEF IngestRows, TypeOK
<1>7. stage \in {"write", "done"}
  OBVIOUS
<1>8. stage = "write" => command[c].at + 1 \in 1..Len(command[c].staged)
  BY <1>3
<1> HIDE DEF stage, r
<1>9. PICK k \in Progress :
        /\ command' = [command EXCEPT ![c] = k]
        /\ k.stage = stage /\ k.at = command[c].at + 1
        /\ k.options = command[c].options /\ k.plans = command[c].plans
        /\ k.staged = command[c].staged
  BY <1>1, <1>2, <1>4, Going
<1>10. Becomes(c, k, r)
  BY <1>2, <1>6, <1>9 DEF Becomes
<1>11. Finished(c)
  BY <1>2 DEF Finished
<1>12. \A p, s, g : Passed(c, p, s, g)
  BY <1>11 DEF Passed
<1> QED
  BY <1>2, <1>3, <1>6, <1>7, <1>8, <1>9, <1>10, <1>11, <1>12, Finishing

(* A snapshot that was collected whole is ingested: nothing is batched. *)
LEMMA IngestWholeStep ==
  ASSUME NEW c \in Commands, IInv, IngestWhole(c)
  PROVE  IInv'
<1> DEFINE b == BatchOf(c, 1, 0)
           r == Append(runs[c], b)
           stage == IF command[c].at = Len(input) THEN "done" ELSE "direct"
<1>1. TypeOK /\ Covered(c) /\ command[c] \in Progress
  BY DEF IInv, TypeOK
<1>2. command[c].stage = "direct" /\ input' = input
  BY DEF IngestWhole
<1>3. CASE Fail(c) /\ UNCHANGED <<storedRows, runs>>
  BY <1>2, <1>3, Failing
<1>4. CASE IngestRows(c, b) /\ Go(c, stage, command[c].at + 1)
  <2>1. command[c].at \in Nat /\ command[c].at + 1 \in Nat /\ stage \in Stages
    BY <1>1 DEF Progress, Stages
  <2>2. b \in BatchType /\ b.at = command[c].at
    BY <1>1 DEF BatchOf, BatchType, Progress
  <2>3. stage \in {"direct", "done"}
    OBVIOUS
  <2> HIDE DEF b, stage
  <2>4. r \in Seq(BatchType) /\ runs' = [runs EXCEPT ![c] = r]
    BY <1>1, <1>4, <2>2, Types DEF IngestRows, TypeOK
  <2>5. r = Append(runs[c], b) /\ runs[c] \in Seq(BatchType)
    BY <1>1, Types
  <2>6. PICK k \in Progress :
          /\ command' = [command EXCEPT ![c] = k]
          /\ k.stage = stage /\ k.at = command[c].at + 1
          /\ k.options = command[c].options /\ k.plans = command[c].plans
          /\ k.staged = command[c].staged
    BY <1>1, <1>4, <2>1, Going
  <2> HIDE DEF r
  <2>7. Becomes(c, k, r)
    BY <1>2, <2>4, <2>6 DEF Becomes
  <2>8. command'[c] = k /\ runs'[c] = r /\ input' = input
    BY <1>1, <2>4, <2>7, Becoming
  <2>9. ~Incremental(c)
    BY <1>1, <1>2 DEF Covered, Stage
  <2>10. Strict(c)' = Strict(c) /\ ~Incremental(c)'
    BY <2>6, <2>8, <2>9, SamePlans
  <2>11. /\ \A i \in 1..Len(Batches(c)) :
              /\ Batches(c)[i].at \in Nat /\ Batches(c)[i].at < command[c].at
         /\ Batches(c) \in Seq(BatchType) /\ Len(Batches(c)) \in Nat
    <3>1. Batches(c) \in Seq(BatchType) /\ Len(Batches(c)) \in Nat
      BY <1>1, Types
    <3>2. ASSUME NEW i \in 1..Len(Batches(c))
          PROVE  Batches(c)[i].at \in Nat /\ Batches(c)[i].at < command[c].at
      <4>1. Batches(c)[i] \in Handed(c)
        BY DEF Handed
      <4> QED
        BY <1>1, <1>2, <4>1, HandedTypes DEF Covered, Stage
    <3> QED
      BY <3>1, <3>2
  <2>12. CASE Strict(c)
    <3>1. Batches(c)' = Batches(c)
      BY <2>6, <2>8, <2>10, <2>12 DEF Batches
    <3>2. NoneTwice(c)'
      BY <1>1, <2>3, <2>6, <2>8, <3>1 DEF Covered, NoneTwice, SameStream
    <3>3. \A h \in Handed(c)' : h.at < command'[c].at
      BY <2>1, <2>3, <2>6, <2>8, <2>11, <3>1 DEF Handed
    <3>4. Covered(c)'
      BY <2>3, <2>6, <2>8, <2>10, <3>2, <3>3
         DEF Covered, Place, Pieces, NoneAhead, NoneSkipped, Stage, Collecting, Finished
    <3> QED
      BY <2>4, <2>7, <3>4, OneCovered
  <2>13. CASE ~Strict(c)
    <3>1. Batches(c)' = Append(Batches(c), b)
      BY <2>5, <2>8, <2>10, <2>13 DEF Batches
    <3>2. /\ Len(Batches(c)') = Len(Batches(c)) + 1
          /\ \A i \in 1..Len(Batches(c)) : Batches(c)'[i] = Batches(c)[i]
          /\ Batches(c)'[Len(Batches(c)) + 1] = b
      BY <2>2, <2>11, <3>1
    <3>3. NoneTwice(c)'
      <4> SUFFICES ASSUME NEW i \in 1..Len(Batches(c)'), NEW j \in 1..Len(Batches(c)'),
                          i < j, SameStream(Batches(c)'[i], Batches(c)'[j])
                   PROVE  Batches(c)'[i].last < Batches(c)'[j].first
        BY <2>3, <2>6, <2>8 DEF NoneTwice, SameStream
      <4>1. i \in 1..Len(Batches(c)) /\ Batches(c)'[i] = Batches(c)[i]
        BY <2>11, <3>2
      <4>2. CASE j = Len(Batches(c)) + 1
        BY <2>1, <2>2, <2>11, <3>2, <4>1, <4>2 DEF SameStream
      <4>3. CASE j # Len(Batches(c)) + 1
        <5>1. j \in 1..(Len(Batches(c)) + 1)
          BY <3>2
        <5>2. j \in 1..Len(Batches(c))
          BY <2>11, <4>3, <5>1
        <5>3. Batches(c)'[j] = Batches(c)[j]
          BY <3>2, <5>2
        <5> QED
          BY <1>1, <4>1, <5>2, <5>3 DEF Covered, NoneTwice
      <4> QED
        BY <4>2, <4>3
    <3>4. \A i \in 1..Len(Batches(c)') : Batches(c)'[i].at < command[c].at + 1
      <4> SUFFICES ASSUME NEW i \in 1..Len(Batches(c)')
                   PROVE  Batches(c)'[i].at < command[c].at + 1
        OBVIOUS
      <4>1. i \in 1..(Len(Batches(c)) + 1)
        BY <3>2
      <4>2. CASE i = Len(Batches(c)) + 1
        BY <2>1, <2>2, <3>2, <4>2
      <4>3. CASE i # Len(Batches(c)) + 1
        <5>1. i \in 1..Len(Batches(c))
          BY <2>11, <4>1, <4>3
        <5>2. Batches(c)'[i] = Batches(c)[i]
          BY <3>2, <5>1
        <5> QED
          BY <2>1, <2>11, <5>1, <5>2
      <4> QED
        BY <4>2, <4>3
    <3>5. \A h \in Handed(c)' : h.at < command'[c].at
      BY <2>3, <2>6, <2>8, <3>4 DEF Handed
    <3>6. Covered(c)'
      BY <2>3, <2>6, <2>8, <2>10, <3>3, <3>5
         DEF Covered, Place, Pieces, NoneAhead, NoneSkipped, Stage, Collecting, Finished
    <3> QED
      BY <2>4, <2>7, <3>6, OneCovered
  <2> QED
    BY <2>12, <2>13
<1> QED
  BY <1>3, <1>4 DEF IngestWhole

(* A command that has just begun, or is still planning. *)
LEMMA Beginning ==
  ASSUME NEW c \in Commands, IInv, NEW k \in Progress, NEW r \in Seq(BatchType),
         Becomes(c, k, r), r = <<>>, k.staged = <<>>, k.split = <<>>,
         k.stage = "plan", k.stream = 1, k.from = 1, k.next = 1, ~k.yielded
  PROVE  IInv'
<1>1. command'[c] = k /\ runs'[c] = <<>>
  BY Becoming DEF IInv
<1>2. Batches(c)' = <<>>
  BY <1>1 DEF Batches
<1>3. Covered(c)'
  BY <1>1, <1>2 DEF Covered, Place, Pieces, NoneAhead, NoneSkipped, NoneTwice, Stage,
                    Collecting, Finished
<1> QED
  BY <1>3, OneCovered

(* A provider is planned. *)
LEMMA PlanProviderStep ==
  ASSUME NEW c \in Commands, IInv, PlanProvider(c)
  PROVE  IInv'
<1>1. TypeOK /\ Covered(c) /\ command[c] \in Progress
  BY DEF IInv, TypeOK
<1>2. command[c].stage = "plan" /\ UNCHANGED <<input, runs>>
  BY DEF PlanProvider
<1>3. CASE Fail(c)
  BY <1>2, <1>3, Failing
<1>4. ASSUME NEW plan \in {"whole", "single", "batched"},
             command' = [command EXCEPT ![c].plans = Append(@, plan), ![c].at = @ + 1]
      PROVE  IInv'
  <2> DEFINE plans == Append(command[c].plans, plan)
             k == [command[c] EXCEPT !.plans = plans, !.at = @ + 1]
  <2>1. command' = [command EXCEPT ![c] = k]
    BY <1>1, <1>4 DEF TypeOK
  <2>2. plans \in Seq({"whole", "single", "batched"}) /\ command[c].at + 1 \in Nat
    BY <1>1 DEF Progress
  <2> HIDE DEF plans
  <2>3. k \in Progress
    BY <1>1, <2>2 DEF Progress
  <2>4. /\ k.staged = <<>> /\ k.split = <<>> /\ k.stage = "plan" /\ k.stream = 1
        /\ k.from = 1 /\ k.next = 1 /\ ~k.yielded
    BY <1>1, <1>2 DEF Covered, Stage, Progress
  <2> HIDE DEF k
  <2>5. runs[c] = <<>> /\ runs[c] \in Seq(BatchType) /\ Becomes(c, k, runs[c])
    BY <1>1, <1>2, <2>1, RunsKept DEF Becomes, Covered, Stage
  <2> QED
    BY <2>3, <2>4, <2>5, Beginning
<1> QED
  BY <1>3, <1>4 DEF PlanProvider

(* Every provider is planned: nothing has been read into batches yet. *)
LEMMA PlannedStep ==
  ASSUME NEW c \in Commands, IInv, Planned(c)
  PROVE  IInv'
<1>1. TypeOK /\ Covered(c) /\ command[c] \in Progress
  BY DEF IInv, TypeOK
<1>2. /\ command[c].stage = "plan" /\ input' = input /\ runs' = runs
      /\ runs[c] = <<>> /\ command[c].staged = <<>> /\ command[c].split = <<>>
      /\ command[c].stream = 1 /\ command[c].from = 1 /\ command[c].next = 1
      /\ ~command[c].yielded
  BY <1>1 DEF Planned, Covered, Stage
<1>3. CASE Fail(c)
  BY <1>2, <1>3, Failing
<1>4. ASSUME NEW stage \in {"pull", "direct"}, stage = "direct" => ~Incremental(c),
             command' = [command EXCEPT ![c].stage = stage, ![c].at = 1]
      PROVE  IInv'
  <2> DEFINE k == [command[c] EXCEPT !.stage = stage, !.at = 1]
  <2>1. command' = [command EXCEPT ![c] = k]
    BY <1>1, <1>4 DEF TypeOK
  <2>2. /\ k \in Progress /\ k.stage = stage /\ k.at = 1
        /\ k.options = command[c].options /\ k.plans = command[c].plans
        /\ k.staged = <<>> /\ k.split = <<>> /\ k.stream = 1 /\ k.from = 1
        /\ k.next = 1 /\ ~k.yielded
    BY <1>1, <1>2 DEF Progress, Stages
  <2> HIDE DEF k
  <2>3. Becomes(c, k, runs[c]) /\ runs[c] \in Seq(BatchType)
    BY <1>1, <1>2, <2>1, RunsKept DEF Becomes
  <2>4. command'[c] = k /\ runs'[c] = <<>>
    BY <1>1, <1>2, <2>2, <2>3, Becoming
  <2>5. /\ Incremental(c)' <=> Incremental(c)
        /\ \A p : StreamsAt(c, p)' = StreamsAt(c, p)
        /\ \A p, s : GroupsAt(c, p, s)' = GroupsAt(c, p, s)
    BY <1>2, <2>2, <2>4, SamePlans
  <2>6. Batches(c)' = <<>> /\ Handed(c)' = {} /\ Frontier(c)' = 1
    <3>1. Batches(c)' = <<>>
      BY <2>2, <2>4 DEF Batches
    <3>2. Frontier(c)' = 1
      BY <2>2, <2>4 DEF Frontier, After
    <3>3. command'[c].stage # "take" /\ \A i \in 1..0 : FALSE
      BY <1>4, <2>2, <2>4
    <3>4. Handed(c)' = {}
      BY <3>1, <3>3 DEF Handed
    <3> QED
      BY <3>1, <3>2, <3>4
  <2>7. Place(c)'
    <3>1. 1 \in 1..Len(input)
      BY <1>1, Types
    <3>2. 1 \in 1..StreamsAt(c, 1) /\ Len(GroupsAt(c, 1, 1)) \in Nat
      BY <1>1, <3>1, StreamTypes
    <3>3. GroupsOf(c)' = GroupsAt(c, 1, 1)
      BY <2>2, <2>4, <2>5 DEF GroupsOf
    <3> QED
      BY <1>2, <2>2, <2>4, <2>5, <3>1, <3>2, <3>3 DEF Place
  <2>8. NoneSkipped(c)'
    <3> SUFFICES ASSUME NEW p \in 1..Len(input'), NEW s \in 1..StreamsAt(c, p)',
                        NEW g \in 1..Len(GroupsAt(c, p, s)'), Passed(c, p, s, g)'
                 PROVE  FALSE
      BY DEF NoneSkipped, Covers
    <3>1. /\ p \in 1..Len(input) /\ s \in 1..StreamsAt(c, p)
          /\ g \in 1..Len(GroupsAt(c, p, s))
      BY <1>2, <2>5
    <3>2. Len(GroupsAt(c, p, s)) \in Nat /\ StreamsAt(c, p) \in Nat /\ Len(input) \in Nat
      BY <1>1, <3>1, StreamTypes, Types
    <3>3. p >= 1 /\ s >= 1 /\ g >= 1 /\ p \in Nat /\ s \in Nat /\ g \in Nat
      BY <3>1, <3>2
    <3>4. ~Finished(c)'
      BY <1>4, <2>2, <2>4 DEF Finished
    <3>5. p < 1 \/ (p = 1 /\ s < 1) \/ (p = 1 /\ s = 1 /\ g < 1)
      BY <2>2, <2>4, <2>6, <3>4 DEF Passed
    <3> QED
      BY <3>3, <3>5
  <2>9. Pieces(c)' /\ NoneAhead(c)'
    BY <2>2, <2>4, <2>6 DEF Pieces, Linked, NoneAhead
  <2>10. NoneTwice(c)' /\ Stage(c)'
    BY <1>4, <2>2, <2>4, <2>5, <2>6 DEF NoneTwice, Stage
  <2>11. Covered(c)'
    BY <2>7, <2>8, <2>9, <2>10 DEF Covered
  <2> QED
    BY <2>2, <2>3, <2>11, OneCovered
<1>5. \/ Fail(c)
      \/ Incremental(c) /\ command' = [command EXCEPT ![c].stage = "pull", ![c].at = 1]
      \/ ~Incremental(c) /\ command' = [command EXCEPT ![c].stage = "direct", ![c].at = 1]
  BY DEF Planned
<1>6. CASE Incremental(c) /\ command' = [command EXCEPT ![c].stage = "pull", ![c].at = 1]
  <2>1. "pull" \in {"pull", "direct"} /\ "pull" # "direct"
    OBVIOUS
  <2> QED
    BY <1>4, <1>6, <2>1
<1>7. CASE ~Incremental(c) /\ command' = [command EXCEPT ![c].stage = "direct", ![c].at = 1]
  <2>1. "direct" \in {"pull", "direct"}
    OBVIOUS
  <2> QED
    BY <1>4, <1>7, <2>1
<1> QED
  BY <1>3, <1>5, <1>6, <1>7

(* A command that ended is started again. *)
LEMMA RerunStep ==
  ASSUME NEW c \in Commands, IInv, Rerun(c)
  PROVE  IInv'
<1>1. PICK options \in Options[c] : command' = [command EXCEPT ![c] = Start(options)]
  BY DEF Rerun
<1>2. input' = input /\ runs' = [runs EXCEPT ![c] = <<>>]
  BY DEF Rerun
<1>3. options \in OptionsType
  BY <1>1, OptionsAssumption
<1> DEFINE k == Start(options)
<1>4. /\ k \in Progress /\ k.staged = <<>> /\ k.split = <<>> /\ k.stage = "plan"
      /\ k.stream = 1 /\ k.from = 1 /\ k.next = 1 /\ ~k.yielded
  BY <1>3 DEF Start, Progress, Stages
<1> HIDE DEF k
<1> DEFINE none == <<>>
<1>5. none \in Seq(BatchType) /\ none = <<>> /\ Becomes(c, k, none)
  BY <1>1, <1>2 DEF Becomes, k
<1> HIDE DEF none
<1> QED
  BY <1>4, <1>5, Beginning

(* A command is killed. *)
LEMMA KillStep ==
  ASSUME NEW c \in Commands, IInv, Kill(c)
  PROVE  IInv'
<1>1. Becomes(c, Ended(c, "killed", None), runs[c])
  BY RunsKept DEF Kill, Becomes, IInv
<1> QED
  BY <1>1, Ending
-----------------------------------------------------------------------------
(* The invariant holds at first, *)
LEMMA Initially == CollectInit => IInv
<1> SUFFICES ASSUME CollectInit PROVE IInv
  OBVIOUS
<1>1. PICK called \in [Commands -> OptionsType] :
        command = [c \in Commands |-> Start(called[c])]
  BY DEF CollectInit
<1>2. ASSUME NEW c \in Commands
      PROVE  /\ command[c] \in Progress /\ command[c].staged = <<>>
             /\ command[c].split = <<>> /\ command[c].stage = "plan"
             /\ command[c].stream = 1 /\ command[c].from = 1 /\ command[c].next = 1
             /\ ~command[c].yielded /\ runs[c] = <<>>
  <2>1. called[c] \in OptionsType /\ command[c] = Start(called[c]) /\ runs[c] = <<>>
    BY <1>1 DEF CollectInit
  <2> QED
    BY <2>1 DEF Start, Progress, Stages
<1>3. TypeOK
  <2>1. runs \in [Commands -> Seq(BatchType)]
    BY DEF CollectInit
  <2>2. command \in [Commands -> Progress]
    BY <1>1, <1>2
  <2> QED
    BY <2>1, <2>2 DEF CollectInit, TypeOK
<1>4. ASSUME NEW c \in Commands PROVE Covered(c)
  <2>1. Batches(c) = <<>>
    BY <1>2 DEF Batches
  <2> QED
    BY <1>2, <2>1 DEF Covered, Place, Pieces, NoneAhead, NoneSkipped, NoneTwice, Stage,
                      Collecting, Finished
<1> QED
  BY <1>3, <1>4 DEF IInv

(* and every step keeps it. *)
LEMMA Inductive == IInv /\ [CollectNext]_collectVars => IInv'
<1> SUFFICES ASSUME IInv, [CollectNext]_collectVars PROVE IInv'
  OBVIOUS
<1>1. CASE UNCHANGED collectVars
  <2>1. input' = input /\ runs' = runs /\ command' = command
    BY <1>1 DEF collectVars
  <2>2. TypeOK'
    BY <2>1 DEF IInv, TypeOK
  <2>3. ASSUME NEW c \in Commands PROVE Covered(c)'
    BY <2>1, OthersKeep DEF IInv
  <2> QED
    BY <2>2, <2>3 DEF IInv
<1>2. ASSUME NEW c \in Commands, Work(c) PROVE IInv'
  BY <1>2, PlanProviderStep, PlannedStep, IngestWholeStep, PackStep, FlushStep,
     CollectPartStep, YieldWholeStep, AdvanceStep, IngestBatchStep, StageBatchStep,
     IngestStagedStep DEF Work
<1>3. ASSUME NEW c \in Commands, ReadFails(c) PROVE IInv'
  BY <1>3, Failing DEF ReadFails
<1>4. ASSUME NEW c \in Commands, Kill(c) PROVE IInv'
  BY <1>4, KillStep
<1>5. ASSUME NEW c \in Commands, Rerun(c) PROVE IInv'
  BY <1>5, RerunStep
<1> QED
  BY <1>1, <1>2, <1>3, <1>4, <1>5 DEF CollectNext

(* Commands, their batches and what they read have their types. *)
THEOREM CollectionTypes == CollectSpec => []TypeOK
<1>1. IInv => TypeOK
  BY DEF IInv
<1> QED
  BY <1>1, Initially, Inductive, PTL DEF CollectSpec

(* However many files there are, however they are packed and however often the
   packs are halved, no group of files is in two batches of a command, and one
   that has read everything (iter_collection_batches and _collect_split to their
   end) has every group in one. *)
THEOREM GroupsAreReadOnce == CollectSpec => []EveryGroupOnce
<1>1. IInv => EveryGroupOnce
  <2> SUFFICES ASSUME IInv PROVE EveryGroupOnce
    OBVIOUS
  <2>1. NoGroupTwice
    BY DEF IInv, Covered, NoneTwice, NoGroupTwice
  <2>2. NoGroupLost
    <3> SUFFICES ASSUME NEW c \in Commands, Finished(c), NEW p \in 1..Len(input),
                        NEW s \in 1..StreamsAt(c, p), NEW g \in 1..Len(GroupsAt(c, p, s))
                 PROVE  \E i \in 1..Len(Batches(c)) : Covers(Batches(c)[i], p, s, g)
      BY DEF NoGroupLost, Finished, Covers
    <3>1. \E b \in Handed(c) : Covers(b, p, s, g)
      BY DEF IInv, Covered, NoneSkipped, Passed
    <3>2. command[c].stage # "take"
      BY DEF Finished
    <3> QED
      BY <3>1, <3>2 DEF Handed
  <2> QED
    BY <2>1, <2>2 DEF EveryGroupOnce
<1> QED
  BY <1>1, Initially, Inductive, PTL DEF CollectSpec
-----------------------------------------------------------------------------
(* The elements of a list, and the batches a command has made or is making. *)
Elements(s) == {s[i] : i \in 1..Len(s)}
Seen(c) ==
  Elements(runs[c]) \cup Elements(command[c].staged)
    \cup (IF command[c].stage = "take" THEN {command[c].batch} ELSE {})

(* A list with one more element has that element too. *)
LEMMA OneElementMore ==
  ASSUME NEW S, NEW list \in Seq(S), NEW e \in S
  PROVE  Elements(Append(list, e)) = Elements(list) \cup {e}
<1> DEFINE longer == Append(list, e)
           n == Len(list)
<1>1. /\ n \in Nat /\ Len(longer) = n + 1 /\ longer[n + 1] = e
      /\ \A i \in 1..n : longer[i] = list[i]
  OBVIOUS
<1> HIDE DEF longer
<1>2. Elements(longer) = {longer[i] : i \in 1..n + 1} /\ Elements(list) = {list[i] : i \in 1..n}
  BY <1>1 DEF Elements
<1> HIDE DEF n
<1>3. 1..n + 1 = 1..n \cup {n + 1}
  BY <1>1
<1>4. {longer[i] : i \in 1..n + 1} = {longer[i] : i \in 1..n} \cup {e}
  BY <1>1, <1>3
<1>5. {longer[i] : i \in 1..n} = {list[i] : i \in 1..n}
  BY <1>1
<1> QED
  BY <1>2, <1>4, <1>5 DEF longer

(* A batch is of groups that are there. *)
Proper(c, b) ==
  /\ b.at \in 1..Len(input)
  /\ Batched(c, b.at) =>
       /\ b.stream \in 1..StreamsAt(c, b.at)
       /\ 1 <= b.first /\ b.first <= b.last + 1
       /\ b.last <= Len(GroupsAt(c, b.at, b.stream))

(* What a batch reads of a provider's files, each at its stream and group. *)
Reads(c, b, stream, group) ==
  \E place :
    /\ Within(FilesOf(c, b), AllFiles(input[b.at]), place)
    /\ input[b.at].grouped => Closed(FilesOf(c, b), AllFiles(input[b.at]), place)
    /\ \A i \in 1..Len(AllFiles(input[b.at])) :
         (Batched(c, b.at) => stream[i] = b.stream /\ group[i] \in b.first..b.last)
           => \E k \in 1..Len(FilesOf(c, b)) : place[k] = i

Shared(c, p, stream, group) ==
  /\ Batched(c, p) =>
       \A i \in 1..Len(AllFiles(input[p])) :
         /\ stream[i] \in 1..StreamsAt(c, p)
         /\ group[i] \in 1..Len(GroupsAt(c, p, stream[i]))
  /\ \A b \in BatchType : Proper(c, b) /\ b.at = p
       => FilesOf(c, b) \in Seq(Files) /\ Reads(c, b, stream, group)

(* A provider as the command found it. *)
LEMMA ProviderTypes ==
  ASSUME TypeOK, NEW p \in 1..Len(input)
  PROVE  /\ input[p].sources \in Seq(Seq(Files)) /\ input[p].grouped \in BOOLEAN
         /\ input[p].streams = Streams(input[p])
         /\ AllFiles(input[p]) \in Seq(Files)
<1>1. input \in Inputs /\ input \in Seq(ProviderType)
  BY InputsAssumption DEF TypeOK
<1>2. input[p] \in ProviderType
  BY <1>1
<1>3. input[p].sources \in Seq(Seq(Files)) /\ input[p].grouped \in BOOLEAN
  BY <1>2 DEF ProviderType
<1>4. input[p].streams = Streams(input[p])
  BY <1>1, ListingAssumption
<1>5. AllFiles(input[p]) \in Seq(Files)
  BY <1>3, PlacesOfAll DEF AllFiles
<1> QED
  BY <1>3, <1>4, <1>5

(* The whole of a list is within it. *)
LEMMA WholeWithin ==
  ASSUME NEW files \in Seq(Files)
  PROVE  \E place :
           /\ Within(files, files, place) /\ Closed(files, files, place)
           /\ \A i \in 1..Len(files) : \E k \in 1..Len(files) : place[k] = i
<1> DEFINE n == Len(files)
           place == [k \in 1..n |-> k]
<1>1. n \in Nat /\ place \in [1..n -> 1..n] /\ \A k \in 1..n : place[k] = k
  OBVIOUS
<1> HIDE DEF place
<1>2. Within(files, files, place)
  BY <1>1 DEF Within
<1>3. Closed(files, files, place)
  BY <1>1 DEF Closed
<1> QED
  BY <1>1, <1>2, <1>3

(* Every file of a provider has a stream and a group such that a batch holds the
   files of its groups, as they are ordered in the provider's files. *)
LEMMA FilesAreShared ==
  ASSUME TypeOK, NEW c \in Commands, NEW p \in 1..Len(input)
  PROVE  \E stream, group : Shared(c, p, stream, group)
<1> DEFINE provider == input[p]
           files == AllFiles(provider)
<1>1. /\ provider.sources \in Seq(Seq(Files)) /\ provider.grouped \in BOOLEAN
      /\ provider.streams = Streams(provider) /\ files \in Seq(Files)
  BY ProviderTypes
<1>2. PICK stream, group : Sorted(provider, stream, group)
  BY <1>1, FilesAreSorted
<1>3. CASE Batched(c, p)
  <2>1. /\ StreamsAt(c, p) = Len(Streams(provider))
        /\ \A s : GroupsAt(c, p, s) = Streams(provider)[s]
    BY <1>1, <1>3 DEF StreamsAt, GroupsAt
  <2>2. ASSUME NEW b \in BatchType, Proper(c, b), b.at = p
        PROVE  FilesOf(c, b) \in Seq(Files) /\ Reads(c, b, stream, group)
    <3>1. /\ b.stream \in 1..Len(Streams(provider)) /\ b.first \in Nat /\ b.last \in Nat
          /\ 1 <= b.first /\ b.first <= b.last + 1
          /\ b.last <= Len(Streams(provider)[b.stream])
      BY <1>3, <2>1, <2>2 DEF Proper, BatchType
    <3>2. FilesOf(c, b) = BatchFiles(provider, b.stream, b.first, b.last)
      BY <1>3, <2>1, <2>2 DEF FilesOf, BatchFiles
    <3>3. /\ BatchFiles(provider, b.stream, b.first, b.last) \in Seq(Files)
          /\ Holds(provider, stream, group, b.stream, b.first, b.last)
      BY <1>2, <3>1 DEF Sorted
    <3> HIDE DEF provider
    <3>4. input[b.at] = provider
      BY <2>2 DEF provider
    <3>5. Reads(c, b, stream, group)
      <4> DEFINE some == BatchFiles(provider, b.stream, b.first, b.last)
                 all == AllFiles(provider)
      <4>1. PICK place :
              /\ Within(some, all, place)
              /\ provider.grouped => Closed(some, all, place)
              /\ \A i \in 1..Len(all) : stream[i] = b.stream /\ group[i] \in b.first..b.last
                    => \E k \in 1..Len(some) : place[k] = i
        BY <3>3 DEF Holds
      <4>2. FilesOf(c, b) = some /\ AllFiles(input[b.at]) = all
        BY <3>2, <3>4
      <4>3. Batched(c, b.at)
        BY <1>3, <2>2
      <4> HIDE DEF some, all
      <4>4. \A i \in 1..Len(all) :
              (Batched(c, b.at) => stream[i] = b.stream /\ group[i] \in b.first..b.last)
                => \E k \in 1..Len(some) : place[k] = i
        BY <4>1, <4>3
      <4> QED
        BY <3>4, <4>1, <4>2, <4>4 DEF Reads
    <3> QED
      BY <3>2, <3>3, <3>5
  <2>3. Shared(c, p, stream, group)
    BY <1>2, <2>1, <2>2 DEF Sorted, Shared
  <2> QED
    BY <2>3
<1>4. CASE ~Batched(c, p)
  <2>1. ASSUME NEW b \in BatchType, b.at = p
        PROVE  FilesOf(c, b) \in Seq(Files) /\ Reads(c, b, stream, group)
    <3>1. FilesOf(c, b) = files /\ AllFiles(input[b.at]) = files
      BY <1>4, <2>1 DEF FilesOf
    <3>2. PICK place :
            /\ Within(files, files, place) /\ Closed(files, files, place)
            /\ \A i \in 1..Len(files) : \E k \in 1..Len(files) : place[k] = i
      BY <1>1, WholeWithin
    <3>3. files \in Seq(Files)
      BY <1>1
    <3> HIDE DEF files
    <3>4. Reads(c, b, stream, group)
      BY <3>1, <3>2 DEF Reads
    <3> QED
      BY <3>1, <3>3, <3>4
  <2>2. Shared(c, p, stream, group)
    BY <1>4, <2>1 DEF Shared
  <2> QED
    BY <2>2
<1> QED
  BY <1>3, <1>4
-----------------------------------------------------------------------------
RowType == [rank : Nat, against : Nat]

(* A row of a copy some provider has, which for Claude Code is the row one
   collection makes of the conversation. *)
Source(key, row) ==
  \E p \in 1..Len(input) : \E i \in 1..Len(AllFiles(input[p])) :
    /\ AllFiles(input[p])[i].key = key /\ row.rank = AllFiles(input[p])[i].rank
    /\ IF input[p].grouped
       THEN key \in DOMAIN OneCollection(p) /\ row = OneCollection(p)[key]
       ELSE row.against = 0

(* A row is of its file, against nothing when that has no parent. *)
LEMMA RowTypes ==
  ASSUME NEW files \in Seq(Files), NEW i \in 1..Len(files)
  PROVE  /\ Row(files, i) \in RowType /\ Row(files, i).rank = files[i].rank
         /\ files[i].rank > 0 /\ files[i].rank \in Nat
         /\ files[i].parent = None => Row(files, i).against = 0
<1>1. files[i] \in Files /\ files[i].rank \in Nat /\ files[i].rank > 0
  <2>1. files[i] \in Files
    OBVIOUS
  <2>2. files[i].rank \in Nat \ {0}
    BY <2>1 DEF Files
  <2> QED
    BY <2>1, <2>2
<1>2. ASSUME NEW key PROVE RankIn(files, key) \in Nat
  <2> DEFINE kept == {j \in KeptCopies(files) : files[j].key = key}
  <2>1. CASE kept = {}
    BY <2>1 DEF RankIn
  <2>2. CASE kept # {}
    <3>1. PICK j \in kept : j = CHOOSE x \in kept : TRUE
      BY <2>2
    <3>2. j \in 1..Len(files)
      BY <3>1 DEF KeptCopies
    <3>3. files[j] \in Files
      BY <3>2
    <3>4. files[j].rank \in Nat
      BY <3>3 DEF Files
    <3> QED
      BY <2>2, <3>1, <3>4 DEF RankIn
  <2> QED
    BY <2>1, <2>2
<1> DEFINE against == IF files[i].parent = None THEN 0 ELSE RankIn(files, files[i].parent)
<1>3. against \in Nat /\ (files[i].parent = None => against = 0)
  BY <1>2
<1>4. Row(files, i) = [rank |-> files[i].rank, against |-> against]
  BY DEF Row
<1> HIDE DEF against
<1> QED
  BY <1>1, <1>3, <1>4 DEF RowType

(* Every row of a batch has a source. *)
LEMMA BatchRows ==
  ASSUME TypeOK, NEW c \in Commands, NEW b \in BatchType, Proper(c, b),
         NEW key \in DOMAIN Normalized(FilesOf(c, b))
  PROVE  /\ key \in Conversations
         /\ Normalized(FilesOf(c, b))[key] \in RowType
         /\ Source(key, Normalized(FilesOf(c, b))[key])
<1> DEFINE p == b.at
           some == FilesOf(c, b)
           files == AllFiles(input[p])
           row == Normalized(some)[key]
<1>1. p \in 1..Len(input)
  BY DEF Proper
<1>2. files \in Seq(Files) /\ input[p].grouped \in BOOLEAN
  BY <1>1, ProviderTypes
<1>3. PICK stream, group : Shared(c, p, stream, group)
  BY <1>1, FilesAreShared
<1>4. some \in Seq(Files) /\ Reads(c, b, stream, group)
  BY <1>3 DEF Shared
<1>5. PICK place :
        /\ Within(some, files, place)
        /\ input[p].grouped => Closed(some, files, place)
  BY <1>4 DEF Reads
<1>6. PICK k \in KeptCopies(some) : some[k].key = key
  BY RowOfSelected
<1>7. k \in 1..Len(some) /\ some[k].key # None
  BY <1>6 DEF KeptCopies
<1>8. place[k] \in 1..Len(files) /\ some[k] = files[place[k]]
  BY <1>5, <1>7 DEF Within
<1>9. some[k] \in Files
  BY <1>4, <1>7
<1>10. key \in Conversations
  BY <1>6, <1>7, <1>9 DEF Files
<1>11. row = Row(some, k)
  BY <1>4, <1>6, SelectedRow
<1>12. row \in RowType /\ row.rank = some[k].rank
  BY <1>4, <1>7, <1>11, RowTypes
<1>13. CASE input[p].grouped
  <2>1. key \in DOMAIN Normalized(files) /\ row = Normalized(files)[key]
    BY <1>2, <1>4, <1>5, <1>13, ClosedRows
  <2>2. Source(key, row)
    BY <1>1, <1>6, <1>8, <1>12, <1>13, <2>1 DEF Source, OneCollection
  <2> QED
    BY <1>10, <1>12, <2>2
<1>14. CASE ~input[p].grouped
  <2>1. files[place[k]].parent = None
    BY <1>1, <1>8, <1>14, ParentsAssumption DEF TypeOK
  <2>2. row.against = 0
    BY <1>4, <1>7, <1>8, <1>11, <2>1, RowTypes
  <2>3. Source(key, row)
    BY <1>1, <1>6, <1>8, <1>12, <1>14, <2>2 DEF Source
  <2> QED
    BY <1>10, <1>12, <2>3
<1> QED
  BY <1>13, <1>14

(* Batches of every group, or one of a provider that is read whole, *)
Complete(c, batches, p) ==
  IF Batched(c, p)
  THEN \A s \in 1..StreamsAt(c, p) : \A g \in 1..Len(GroupsAt(c, p, s)) :
         \E b \in batches : Covers(b, p, s, g)
  ELSE \E b \in batches : b.at = p

(* hold every file, and the copies that are kept where they are kept. *)
ReadIn(c, b, i) ==
  \E k \in 1..Len(FilesOf(c, b)) :
    /\ FilesOf(c, b)[k] = AllFiles(input[b.at])[i]
    /\ i \in KeptCopies(AllFiles(input[b.at])) => k \in KeptCopies(FilesOf(c, b))

(* Every file is in one of the batches of a complete set. *)
LEMMA AllRead ==
  ASSUME TypeOK, NEW c \in Commands, NEW p \in 1..Len(input), NEW batches,
         batches \subseteq BatchType, \A b \in batches : Proper(c, b),
         Complete(c, batches, p), NEW i \in 1..Len(AllFiles(input[p]))
  PROVE  \E b \in batches : b.at = p /\ FilesOf(c, b) \in Seq(Files) /\ ReadIn(c, b, i)
<1>1. PICK stream, group : Shared(c, p, stream, group)
  BY FilesAreShared
<1>2. \E b \in batches :
        b.at = p /\ (Batched(c, p) => stream[i] = b.stream /\ group[i] \in b.first..b.last)
  <2>1. CASE Batched(c, p)
    <3>1. stream[i] \in 1..StreamsAt(c, p) /\ group[i] \in 1..Len(GroupsAt(c, p, stream[i]))
      BY <1>1, <2>1 DEF Shared
    <3>2. PICK b \in batches : Covers(b, p, stream[i], group[i])
      BY <2>1, <3>1 DEF Complete
    <3>3. stream[i] \in 1..Len(Streams(input[p]))
      BY <2>1, <3>1, ProviderTypes DEF StreamsAt
    <3>4. Len(GroupsAt(c, p, stream[i])) \in Nat
      BY <3>1, StreamTypes
    <3>5. group[i] \in Nat /\ b.first \in Nat /\ b.last \in Nat
      BY <3>1, <3>4 DEF BatchType
    <3>6. group[i] \in b.first..b.last
      BY <3>2, <3>5 DEF Covers
    <3> QED
      BY <3>2, <3>6 DEF Covers
  <2>2. CASE ~Batched(c, p)
    BY <2>2 DEF Complete
  <2> QED
    BY <2>1, <2>2
<1>3. PICK b \in batches :
        b.at = p /\ (Batched(c, p) => stream[i] = b.stream /\ group[i] \in b.first..b.last)
  BY <1>2
<1> DEFINE some == FilesOf(c, b)
           files == AllFiles(input[p])
<1>4. some \in Seq(Files) /\ Reads(c, b, stream, group) /\ files \in Seq(Files)
  BY <1>1, <1>3, ProviderTypes DEF Shared
<1>5. PICK place :
        /\ Within(some, files, place)
        /\ \A j \in 1..Len(files) :
             (Batched(c, p) => stream[j] = b.stream /\ group[j] \in b.first..b.last)
               => \E k \in 1..Len(some) : place[k] = j
  BY <1>3, <1>4 DEF Reads
<1>6. PICK k \in 1..Len(some) : place[k] = i
  BY <1>3, <1>5
<1>7. some[k] = files[i] /\ (i \in KeptCopies(files) => k \in KeptCopies(some))
  BY <1>4, <1>5, <1>6, SelectedWithin DEF Within
<1>8. ReadIn(c, b, i)
  BY <1>3, <1>7 DEF ReadIn
<1> QED
  BY <1>3, <1>4, <1>8
-----------------------------------------------------------------------------
(* Which batches a command has seen, *)
Known(c) ==
  /\ \A b \in Seen(c) : Proper(c, b)
  /\ Collecting(c) =>
       \A i \in 1..Len(command[c].split) : command[c].split[i].last < command[c].from

(* what it has planned, *)
Planning(c) ==
  /\ command[c].stage = "plan" =>
       Len(command[c].plans) = command[c].at - 1 /\ command[c].at <= Len(input) + 1
  /\ command[c].stage \in {"direct", "pull", "take", "write", "done"} =>
       Len(command[c].plans) = Len(input)
  /\ command[c].stage = "direct" => command[c].at \in 1..Len(input)
  /\ command[c].stage \in {"pull", "take", "write"} => Incremental(c)

(* which providers that are read whole have been, *)
Visited(c) ==
  /\ Collecting(c) \/ Finished(c) =>
       \A p \in 1..Len(input) :
         /\ ~Batched(c, p)
         /\ Finished(c) \/ p < command[c].at \/ (p = command[c].at /\ command[c].yielded)
         => \E b \in Handed(c) : b.at = p
  /\ command[c].stage = "direct" \/ (command[c].stage = "done" /\ ~Incremental(c)) =>
       \A p \in 1..Len(input) :
         command[c].stage = "done" \/ p < command[c].at
           => \E b \in Elements(runs[c]) : b.at = p

(* which staged batches have been written, *)
Written(c) ==
  Strict(c) =>
    /\ command[c].stage = "write" =>
         \A i \in 1..Len(command[c].staged) :
           i < command[c].at => command[c].staged[i] \in Elements(runs[c])
    /\ command[c].stage = "done" /\ Incremental(c) =>
         Elements(command[c].staged) \subseteq Elements(runs[c])

(* that no row of an ingested batch is better than the stored one,     *)
Outdone(c) ==
  \A b \in Elements(runs[c]) : \A key \in DOMAIN Normalized(FilesOf(c, b)) :
    Normalized(FilesOf(c, b))[key].rank <= storedRows[key].rank

(* what has been checked before anything is written, *)
Checked(c) ==
  /\ command[c].stage = "direct" /\ Strict(c) =>
       \A p \in 1..Len(input) : ~Malformed(AllFiles(input[p]))
  /\ \A b \in Elements(command[c].staged) : ~Refused(c, FilesOf(c, b))

(* and what therefore holds of all files once something is. *)
Flawless(c) ==
  Strict(c) /\ runs[c] # <<>> =>
    \A p \in 1..Len(input) :
      /\ ~Malformed(AllFiles(input[p]))
      /\ Incremental(c) => ~Invalid(AllFiles(input[p]))

Kept(c) ==
  /\ Known(c) /\ Planning(c) /\ Visited(c) /\ Written(c)
  /\ Outdone(c) /\ Checked(c) /\ Flawless(c)

StoredOK == storedRows \in [Conversations -> RowType]
Sourced == \A key \in Conversations : storedRows[key] # NoRow => Source(key, storedRows[key])

RInv == IInv /\ StoredOK /\ Sourced /\ \A c \in Commands : Kept(c)
-----------------------------------------------------------------------------
(* What a command has seen are batches. *)
LEMMA SeenTypes ==
  ASSUME IInv, NEW c \in Commands
  PROVE  Seen(c) \subseteq BatchType /\ Elements(runs[c]) \subseteq BatchType
<1>1. /\ runs[c] \in Seq(BatchType) /\ command[c].staged \in Seq(BatchType)
      /\ command[c].stage = "take" => command[c].batch \in BatchType
  BY Types DEF IInv, Progress, Covered, Stage
<1> QED
  BY <1>1 DEF Seen, Elements

(* The files of a batch are the same as long as the plans are. *)
LEMMA SameFiles ==
  ASSUME NEW c, input' = input, command'[c].plans = command[c].plans
  PROVE  /\ \A p : Batched(c, p)' <=> Batched(c, p)
         /\ \A b : FilesOf(c, b)' = FilesOf(c, b)
         /\ \A b : Proper(c, b)' <=> Proper(c, b)
         /\ \A b : Refused(c, FilesOf(c, b))' <=> Refused(c, FilesOf(c, b))
<1>1. \A p : Batched(c, p)' <=> Batched(c, p)
  BY DEF Batched
<1>2. /\ \A p, s : GroupsAt(c, p, s)' = GroupsAt(c, p, s)
      /\ \A p : StreamsAt(c, p)' = StreamsAt(c, p)
  BY <1>1 DEF GroupsAt, StreamsAt
<1>3. \A b : FilesOf(c, b)' = FilesOf(c, b)
  BY <1>1, <1>2 DEF FilesOf
<1>4. \A b : Proper(c, b)' <=> Proper(c, b)
  BY <1>1, <1>2 DEF Proper
<1>5. \A b : Refused(c, FilesOf(c, b))' <=> Refused(c, FilesOf(c, b))
  BY <1>3 DEF Refused, Malformed, Invalid
<1> QED
  BY <1>1, <1>3, <1>4, <1>5

Grown == \A key \in Conversations : storedRows[key].rank <= storedRows'[key].rank

(* Rows that only get better stay better than what has been ingested. *)
LEMMA StillOutdone ==
  ASSUME IInv, StoredOK, StoredOK', Grown, NEW c \in Commands, Known(c), Outdone(c),
         input' = input, command'[c].plans = command[c].plans, runs'[c] = runs[c]
  PROVE  Outdone(c)'
<1> SUFFICES ASSUME NEW b \in Elements(runs[c]),
                    NEW key \in DOMAIN Normalized(FilesOf(c, b))
             PROVE  Normalized(FilesOf(c, b))[key].rank <= storedRows'[key].rank
  <2>1. \A b : FilesOf(c, b)' = FilesOf(c, b)
    BY SameFiles
  <2>2. Elements(runs[c])' = Elements(runs[c])
    BY DEF Elements
  <2> QED
    BY <2>1, <2>2 DEF Outdone
<1>1. b \in BatchType /\ Proper(c, b)
  BY SeenTypes DEF Known, Seen
<1>2. key \in Conversations /\ Normalized(FilesOf(c, b))[key] \in RowType
  BY <1>1, BatchRows DEF IInv
<1>3. Normalized(FilesOf(c, b))[key].rank <= storedRows[key].rank
  BY DEF Outdone
<1>4. storedRows[key] \in RowType /\ storedRows'[key] \in RowType /\ storedRows[key].rank <= storedRows'[key].rank
  BY <1>2 DEF StoredOK, Grown
<1> QED
  BY <1>2, <1>3, <1>4 DEF RowType

(* A step of one command leaves what the others know. *)
LEMMA OthersKnow ==
  ASSUME RInv, StoredOK', Grown, NEW c \in Commands,
         input' = input, command'[c] = command[c], runs'[c] = runs[c]
  PROVE  Kept(c)'
<1>1. Kept(c) /\ IInv /\ StoredOK
  BY DEF RInv
<1>2. /\ Strict(c)' <=> Strict(c)
      /\ Incremental(c)' <=> Incremental(c)
      /\ \A p : Batched(c, p)' <=> Batched(c, p)
      /\ \A b : FilesOf(c, b)' = FilesOf(c, b)
      /\ \A b : Proper(c, b)' <=> Proper(c, b)
      /\ \A b : Refused(c, FilesOf(c, b))' <=> Refused(c, FilesOf(c, b))
  BY SamePlans, SameFiles
<1>3. /\ Elements(runs[c])' = Elements(runs[c])
      /\ Elements(command[c].staged)' = Elements(command[c].staged)
      /\ Seen(c)' = Seen(c)
  BY DEF Elements, Seen
<1>4. Batches(c)' = Batches(c)
  BY <1>2 DEF Batches
<1>5. /\ Handed(c)' = Handed(c)
      /\ Collecting(c)' <=> Collecting(c)
      /\ Finished(c)' <=> Finished(c)
  BY <1>2, <1>4 DEF Handed, Collecting, Finished
<1>6. Known(c)'
  BY <1>1, <1>2, <1>3, <1>5 DEF Kept, Known
<1>7. Planning(c)'
  BY <1>1, <1>2 DEF Kept, Planning
<1>8. Visited(c)'
  BY <1>1, <1>2, <1>3, <1>5 DEF Kept, Visited
<1>9. Written(c)'
  BY <1>1, <1>2, <1>3 DEF Kept, Written
<1>10. Outdone(c)'
  BY <1>1, StillOutdone DEF Kept
<1>11. Checked(c)'
  BY <1>1, <1>2, <1>3 DEF Kept, Checked, Malformed
<1>12. Flawless(c)'
  BY <1>1, <1>2, <1>3 DEF Kept, Flawless, Malformed, Invalid
<1> QED
  BY <1>6, <1>7, <1>8, <1>9, <1>10, <1>11, <1>12 DEF Kept
-----------------------------------------------------------------------------
(* A step of a command that stores nothing. *)
LEMMA Idle ==
  ASSUME RInv, IInv', NEW c \in Commands, input' = input, storedRows' = storedRows,
         \A d \in Commands \ {c} : command'[d] = command[d] /\ runs'[d] = runs[d],
         \/ runs'[c] = <<>>
         \/ /\ runs'[c] = runs[c] /\ command'[c].plans = command[c].plans
            /\ command'[c].options = command[c].options,
         Known(c)', Planning(c)', Visited(c)', Written(c)', Checked(c)'
  PROVE  RInv'
<1>1. IInv /\ StoredOK /\ Sourced /\ Kept(c)
  BY DEF RInv
<1>2. StoredOK' /\ Sourced'
  BY <1>1 DEF StoredOK, Sourced, Source, OneCollection
<1>3. Grown
  <2> SUFFICES ASSUME NEW key \in Conversations PROVE storedRows[key].rank <= storedRows[key].rank
    BY DEF Grown
  <2>1. storedRows[key] \in RowType
    BY <1>1 DEF StoredOK
  <2> QED
    BY <2>1 DEF RowType
<1>4. ASSUME NEW d \in Commands, d # c PROVE Kept(d)'
  BY <1>2, <1>3, <1>4, OthersKnow
<1>5. Outdone(c)' /\ Flawless(c)'
  <2>1. CASE runs'[c] = <<>>
    BY <2>1 DEF Outdone, Elements, Flawless
  <2>2. CASE /\ runs'[c] = runs[c] /\ command'[c].plans = command[c].plans
             /\ command'[c].options = command[c].options
    <3>1. Outdone(c)'
      BY <1>1, <1>2, <1>3, <2>2, StillOutdone DEF Kept
    <3>2. Strict(c)' = Strict(c) /\ (Incremental(c)' <=> Incremental(c))
      BY <2>2, SamePlans
    <3>3. Flawless(c)'
      BY <1>1, <2>2, <3>2 DEF Kept, Flawless, Malformed, Invalid
    <3> QED
      BY <3>1, <3>3
  <2> QED
    BY <2>1, <2>2
<1> QED
  BY <1>2, <1>4, <1>5 DEF RInv, Kept

(* What ingesting a batch does to the rows. *)
LEMMA Ingesting ==
  ASSUME RInv, NEW c \in Commands, NEW b \in BatchType, Proper(c, b), IngestRows(c, b),
         input' = input
  PROVE  /\ StoredOK' /\ Sourced' /\ Grown
         /\ \A key \in DOMAIN Normalized(FilesOf(c, b)) :
              Normalized(FilesOf(c, b))[key].rank <= storedRows'[key].rank
         /\ runs'[c] = Append(runs[c], b)
         /\ \A d \in Commands \ {c} : runs'[d] = runs[d]
         /\ Elements(runs[c])' = Elements(runs[c]) \cup {b}
<1> DEFINE rows == Normalized(FilesOf(c, b))
<1>1. IInv /\ StoredOK /\ Sourced /\ TypeOK
  BY DEF RInv, IInv
<1>2. ASSUME NEW key \in DOMAIN rows
      PROVE  key \in Conversations /\ rows[key] \in RowType /\ Source(key, rows[key])
  BY <1>1, <1>2, BatchRows
<1>3. \A key \in Conversations :
        storedRows'[key] = IF key \in DOMAIN rows /\ rows[key].rank > storedRows[key].rank
                       THEN rows[key] ELSE storedRows[key]
  BY DEF IngestRows, Better
<1>4. storedRows' = [key \in Conversations |-> storedRows'[key]]
  BY DEF IngestRows
<1> HIDE DEF rows
<1>5. ASSUME NEW key \in Conversations
      PROVE  /\ storedRows'[key] \in RowType /\ storedRows[key].rank <= storedRows'[key].rank
             /\ key \in DOMAIN rows => rows[key].rank <= storedRows'[key].rank
             /\ storedRows'[key] # NoRow => Source(key, storedRows'[key])
  <2>1. storedRows[key] \in RowType /\ (storedRows[key] # NoRow => Source(key, storedRows[key]))
    BY <1>1 DEF StoredOK, Sourced
  <2>2. CASE key \in DOMAIN rows /\ rows[key].rank > storedRows[key].rank
    <3>1. storedRows'[key] = rows[key] /\ rows[key] \in RowType /\ Source(key, rows[key])
      BY <1>2, <1>3, <2>2
    <3> QED
      BY <2>1, <2>2, <3>1 DEF RowType
  <2>3. CASE ~(key \in DOMAIN rows /\ rows[key].rank > storedRows[key].rank)
    <3>1. storedRows'[key] = storedRows[key]
      BY <1>3, <2>3
    <3>2. key \in DOMAIN rows => rows[key] \in RowType
      BY <1>2
    <3> QED
      BY <2>1, <2>3, <3>1, <3>2 DEF RowType
  <2> QED
    BY <2>2, <2>3
<1>6. StoredOK'
  BY <1>4, <1>5 DEF StoredOK
<1>7. Sourced'
  <2>1. \A key, row : Source(key, row)' <=> Source(key, row)
    BY DEF Source, OneCollection
  <2> QED
    BY <1>5, <2>1 DEF Sourced, Source, OneCollection
<1>8. runs'[c] = Append(runs[c], b) /\ \A d \in Commands \ {c} : runs'[d] = runs[d]
  BY <1>1 DEF IngestRows, TypeOK
<1>9. Elements(runs[c])' = Elements(runs[c]) \cup {b}
  <2>1. runs[c] \in Seq(BatchType)
    BY <1>1, Types
  <2> DEFINE before == runs[c]
             after == Append(before, b)
  <2>2. /\ Len(after) = Len(before) + 1 /\ Len(before) \in Nat /\ after[Len(before) + 1] = b
        /\ \A i \in 1..Len(before) : after[i] = before[i]
    BY <2>1
  <2>3. runs'[c] = after
    BY <1>8
  <2> HIDE DEF before, after
  <2>4. {after[i] : i \in 1..Len(after)} = {before[i] : i \in 1..Len(before)} \cup {b}
    BY <2>2
  <2>5. Elements(runs[c])' = {after[i] : i \in 1..Len(after)}
    BY <2>3 DEF Elements
  <2> QED
    BY <2>4, <2>5 DEF Elements, before
<1> QED
  BY <1>2, <1>5, <1>6, <1>7, <1>8, <1>9 DEF Grown, rows

(* A step of a command that ingests a batch. *)
LEMMA Storing ==
  ASSUME RInv, IInv', NEW c \in Commands, NEW b \in BatchType, Proper(c, b), IngestRows(c, b),
         input' = input, \A d \in Commands \ {c} : command'[d] = command[d],
         command'[c].plans = command[c].plans,
         Known(c)', Planning(c)', Visited(c)', Written(c)', Checked(c)', Flawless(c)'
  PROVE  RInv'
<1>1. IInv /\ StoredOK /\ Kept(c)
  BY DEF RInv
<1>2. /\ StoredOK' /\ Sourced' /\ Grown
      /\ \A key \in DOMAIN Normalized(FilesOf(c, b)) :
           Normalized(FilesOf(c, b))[key].rank <= storedRows'[key].rank
      /\ \A d \in Commands \ {c} : runs'[d] = runs[d]
      /\ Elements(runs[c])' = Elements(runs[c]) \cup {b}
  BY Ingesting
<1>3. ASSUME NEW d \in Commands, d # c PROVE Kept(d)'
  BY <1>2, <1>3, OthersKnow
<1>4. Outdone(c)'
  <2> SUFFICES ASSUME NEW a \in Elements(runs[c]) \cup {b},
                      NEW key \in DOMAIN Normalized(FilesOf(c, a))
               PROVE  Normalized(FilesOf(c, a))[key].rank <= storedRows'[key].rank
    <3>1. \A a : FilesOf(c, a)' = FilesOf(c, a)
      BY SameFiles
    <3> QED
      BY <1>2, <3>1 DEF Outdone
  <2>1. CASE a = b
    BY <1>2, <2>1
  <2>2. CASE a \in Elements(runs[c])
    <3>1. a \in BatchType /\ Proper(c, a)
      BY <1>1, <2>2, SeenTypes DEF Kept, Known, Seen
    <3>2. key \in Conversations /\ Normalized(FilesOf(c, a))[key] \in RowType
      BY <1>1, <3>1, BatchRows DEF IInv
    <3>3. Normalized(FilesOf(c, a))[key].rank <= storedRows[key].rank
      BY <1>1, <2>2 DEF Kept, Outdone
    <3>4. /\ storedRows[key] \in RowType /\ storedRows'[key] \in RowType
          /\ storedRows[key].rank <= storedRows'[key].rank
      BY <1>1, <1>2, <3>2 DEF StoredOK, Grown
    <3> QED
      BY <3>2, <3>3, <3>4 DEF RowType
  <2> QED
    BY <2>1, <2>2
<1> QED
  BY <1>2, <1>3, <1>4 DEF RInv, Kept
-----------------------------------------------------------------------------
(* A command that ends. *)
LEMMA EndingRows ==
  ASSUME RInv, IInv', NEW c \in Commands, UNCHANGED <<input, storedRows, runs>>,
         NEW stage \in {"failed", "killed"}, NEW printed,
         command' = [command EXCEPT ![c] = Ended(c, stage, printed)]
  PROVE  RInv'
<1>1. Kept(c) /\ TypeOK
  BY DEF RInv, IInv
<1>2. /\ command'[c].stage = stage /\ command'[c].plans = command[c].plans
      /\ command'[c].options = command[c].options /\ command'[c].staged = <<>>
      /\ \A d \in Commands \ {c} : command'[d] = command[d]
  BY <1>1 DEF Ended, Start, TypeOK
<1>3. \A b : Proper(c, b)' <=> Proper(c, b)
  BY <1>2, SameFiles
<1>4. Elements(command[c].staged)' = {} /\ Elements(runs[c])' = Elements(runs[c])
  BY <1>2 DEF Elements
<1>5. Known(c)'
  BY <1>1, <1>2, <1>3, <1>4 DEF Kept, Known, Seen, Collecting
<1>6. Planning(c)' /\ Visited(c)' /\ Written(c)' /\ Checked(c)'
  BY <1>2, <1>4 DEF Planning, Visited, Written, Checked, Collecting, Finished
<1> QED
  BY <1>2, <1>5, <1>6, Idle

(* A command that fails. *)
LEMMA FailingRows ==
  ASSUME RInv, IInv', NEW c \in Commands, UNCHANGED <<input, storedRows, runs>>, Fail(c)
  PROVE  RInv'
BY EndingRows DEF Fail

(* A command that is still planning. *)
LEMMA BeginningRows ==
  ASSUME RInv, IInv', NEW c \in Commands, UNCHANGED <<input, storedRows>>,
         \A d \in Commands \ {c} : command'[d] = command[d] /\ runs'[d] = runs[d],
         runs'[c] = <<>>, command'[c].stage = "plan", command'[c].staged = <<>>,
         Len(command'[c].plans) = command'[c].at - 1, command'[c].at <= Len(input) + 1
  PROVE  RInv'
<1>1. Elements(command[c].staged)' = {} /\ Elements(runs[c])' = {}
  BY DEF Elements
<1>2. Known(c)'
  BY <1>1 DEF Known, Seen, Collecting
<1>3. Planning(c)' /\ Visited(c)' /\ Written(c)' /\ Checked(c)'
  BY <1>1 DEF Planning, Visited, Written, Checked, Collecting, Finished
<1> QED
  BY <1>2, <1>3, Idle

(* One more provider is planned. *)
LEMMA PlanProviderRows ==
  ASSUME RInv, IInv', NEW c \in Commands, PlanProvider(c)
  PROVE  RInv'
<1>1. /\ Kept(c) /\ TypeOK /\ Stage(c) /\ command[c] \in Progress
      /\ runs[c] \in Seq(BatchType) /\ Len(input) \in Nat
  BY Types DEF RInv, IInv, Covered
<1>2. /\ command[c].stage = "plan" /\ UNCHANGED <<input, storedRows, runs>>
      /\ command[c].at <= Len(input)
  BY DEF PlanProvider
<1>3. CASE Fail(c)
  BY <1>2, <1>3, FailingRows
<1>4. ASSUME NEW plan \in {"whole", "single", "batched"},
             command' = [command EXCEPT ![c].plans = Append(@, plan), ![c].at = @ + 1]
      PROVE  RInv'
  <2>1. /\ command[c].plans \in Seq({"whole", "single", "batched"}) /\ command[c].at \in Nat
        /\ Len(command[c].plans) = command[c].at - 1
    BY <1>1, <1>2 DEF Progress, Kept, Planning
  <2>2. /\ command'[c].stage = "plan" /\ command'[c].staged = command[c].staged
        /\ command'[c].plans = Append(command[c].plans, plan)
        /\ command'[c].at = command[c].at + 1
        /\ \A d \in Commands \ {c} : command'[d] = command[d]
    BY <1>1, <1>2, <1>4 DEF TypeOK, Progress
  <2>3. Len(command'[c].plans) = command'[c].at - 1 /\ command'[c].at <= Len(input) + 1
    BY <1>1, <1>2, <2>1, <2>2
  <2> QED
    BY <1>1, <1>2, <2>2, <2>3, BeginningRows DEF Stage
<1> QED
  BY <1>3, <1>4 DEF PlanProvider

(* A command that ended is started again. *)
LEMMA RerunRows ==
  ASSUME RInv, IInv', NEW c \in Commands, Rerun(c)
  PROVE  RInv'
<1>1. PICK options \in Options[c] : command' = [command EXCEPT ![c] = Start(options)]
  BY DEF Rerun
<1>2. TypeOK /\ Len(input) \in Nat
  BY Types DEF RInv, IInv
<1>3. /\ \A d \in Commands \ {c} : command'[d] = command[d] /\ runs'[d] = runs[d]
      /\ runs'[c] = <<>> /\ UNCHANGED <<input, storedRows>> /\ command'[c] = Start(options)
  BY <1>1, <1>2 DEF Rerun, TypeOK
<1>4. /\ command'[c].stage = "plan" /\ command'[c].staged = <<>>
      /\ command'[c].plans = <<>> /\ command'[c].at = 1
  BY <1>3 DEF Start
<1> QED
  BY <1>2, <1>3, <1>4, BeginningRows

(* Every provider is planned. *)
LEMMA PlannedRows ==
  ASSUME RInv, IInv', NEW c \in Commands, Planned(c)
  PROVE  RInv'
<1>1. /\ Kept(c) /\ TypeOK /\ Stage(c) /\ command[c] \in Progress
      /\ runs[c] \in Seq(BatchType) /\ Len(input) \in Nat /\ Len(input) >= 1
  BY Types DEF RInv, IInv, Covered
<1>2. /\ command[c].stage = "plan" /\ UNCHANGED <<input, storedRows, runs>>
      /\ command[c].at > Len(input)
      /\ runs[c] = <<>> /\ command[c].staged = <<>> /\ command[c].split = <<>>
      /\ ~command[c].yielded
  BY <1>1 DEF Planned, Stage
<1>3. CASE Fail(c)
  BY <1>2, <1>3, FailingRows
<1>4. ASSUME NEW stage \in {"pull", "direct"}, stage = "pull" => Incremental(c),
             stage = "direct" /\ Strict(c) =>
               \A p \in 1..Len(input) : ~Malformed(AllFiles(input[p])),
             command' = [command EXCEPT ![c].stage = stage, ![c].at = 1]
      PROVE  RInv'
  <2>1. /\ command'[c].stage = stage /\ command'[c].at = 1
        /\ command'[c].plans = command[c].plans /\ command'[c].options = command[c].options
        /\ command'[c].staged = <<>> /\ command'[c].split = <<>> /\ ~command'[c].yielded
        /\ \A d \in Commands \ {c} : command'[d] = command[d]
    BY <1>1, <1>2, <1>4 DEF TypeOK, Progress
  <2>2. Len(command[c].plans) = Len(input)
    <3>1. /\ Len(command[c].plans) = command[c].at - 1 /\ command[c].at <= Len(input) + 1
          /\ command[c].at \in Nat
      BY <1>1, <1>2 DEF Kept, Planning, Progress
    <3> QED
      BY <1>1, <1>2, <3>1
  <2>3. Strict(c)' = Strict(c) /\ (Incremental(c)' <=> Incremental(c))
    BY <1>2, <2>1, SamePlans
  <2>4. Elements(command[c].staged)' = {} /\ Elements(runs[c])' = {}
    BY <1>2, <2>1 DEF Elements
  <2>5. Known(c)'
    <3>1. Seen(c)' = {}
      BY <1>4, <2>1, <2>4 DEF Seen
    <3>2. \A i \in 1..Len(command'[c].split) : FALSE
      BY <2>1
    <3> QED
      BY <3>1, <3>2 DEF Known
  <2>6. Planning(c)'
    BY <1>1, <1>2, <1>4, <2>1, <2>2, <2>3 DEF Planning
  <2>7. Visited(c)'
    <3>1. \A p \in 1..Len(input) : ~(p < 1)
      BY <1>1
    <3> QED
      BY <1>2, <1>4, <2>1, <3>1 DEF Visited, Finished
  <2>8. Written(c)' /\ Checked(c)'
    BY <1>2, <1>4, <2>1, <2>3, <2>4 DEF Written, Checked
  <2> QED
    BY <1>2, <2>1, <2>5, <2>6, <2>7, <2>8, Idle
<1>5. \/ Fail(c)
      \/ Incremental(c) /\ command' = [command EXCEPT ![c].stage = "pull", ![c].at = 1]
      \/ /\ Strict(c) => \A p \in 1..Len(input) : ~Malformed(AllFiles(input[p]))
         /\ command' = [command EXCEPT ![c].stage = "direct", ![c].at = 1]
  BY DEF Planned
<1>6. CASE Incremental(c) /\ command' = [command EXCEPT ![c].stage = "pull", ![c].at = 1]
  <2>1. "pull" \in {"pull", "direct"} /\ "pull" # "direct"
    OBVIOUS
  <2> QED
    BY <1>4, <1>6, <2>1
<1>7. CASE /\ Strict(c) => \A p \in 1..Len(input) : ~Malformed(AllFiles(input[p]))
           /\ command' = [command EXCEPT ![c].stage = "direct", ![c].at = 1]
  <2>1. "direct" \in {"pull", "direct"} /\ "pull" # "direct"
    OBVIOUS
  <2> QED
    BY <1>4, <1>7, <2>1
<1> QED
  BY <1>3, <1>5, <1>6, <1>7
-----------------------------------------------------------------------------
(* A step within the reading of a stream. *)
LEMMA ReadingRows ==
  ASSUME RInv, IInv', NEW c \in Commands, UNCHANGED <<input, storedRows, runs>>,
         \A d \in Commands \ {c} : command'[d] = command[d],
         command[c].stage = "pull", command'[c].stage = "pull",
         command'[c].options = command[c].options, command'[c].plans = command[c].plans,
         command'[c].staged = command[c].staged, command'[c].at = command[c].at,
         command'[c].yielded = command[c].yielded,
         \A i \in 1..Len(command'[c].split) : command'[c].split[i].last < command'[c].from
  PROVE  RInv'
<1>1. Kept(c)
  BY DEF RInv
<1>2. /\ Strict(c)' = Strict(c) /\ (Incremental(c)' <=> Incremental(c))
      /\ \A p : Batched(c, p)' <=> Batched(c, p)
      /\ \A b : FilesOf(c, b)' = FilesOf(c, b)
      /\ \A b : Proper(c, b)' <=> Proper(c, b)
      /\ \A b : Refused(c, FilesOf(c, b))' <=> Refused(c, FilesOf(c, b))
  BY SamePlans, SameFiles
<1>3. /\ Elements(command[c].staged)' = Elements(command[c].staged)
      /\ Seen(c)' = Seen(c) /\ Batches(c)' = Batches(c)
  BY <1>2 DEF Elements, Seen, Batches
<1>4. Handed(c)' = Handed(c)
  BY <1>3 DEF Handed
<1>5. Known(c)'
  BY <1>1, <1>2, <1>3 DEF Kept, Known
<1>6. Planning(c)' /\ Visited(c)' /\ Written(c)'
  BY <1>1, <1>2, <1>4 DEF Kept, Planning, Visited, Written, Collecting, Finished
<1>7. Checked(c)'
  BY <1>1, <1>2, <1>3 DEF Kept, Checked, Malformed
<1> QED
  BY <1>5, <1>6, <1>7, Idle

(* One more group is packed. *)
LEMMA PackRows ==
  ASSUME RInv, IInv', NEW c \in Commands, Pack(c)
  PROVE  RInv'
<1>1. TypeOK /\ Kept(c) /\ command[c] \in Progress
  BY DEF RInv, IInv, TypeOK
<1>2. /\ command'[c].stage = "pull" /\ command[c].stage = "pull"
      /\ command'[c].options = command[c].options /\ command'[c].plans = command[c].plans
      /\ command'[c].staged = command[c].staged /\ command'[c].at = command[c].at
      /\ command'[c].yielded = command[c].yielded /\ command'[c].split = <<>>
      /\ \A d \in Commands \ {c} : command'[d] = command[d]
      /\ UNCHANGED <<input, storedRows, runs>>
  BY <1>1 DEF Pack, Pulling, TypeOK, Progress
<1>3. \A i \in 1..Len(command'[c].split) : command'[c].split[i].last < command'[c].from
  BY <1>2
<1> QED
  BY <1>2, <1>3, ReadingRows

(* The packed groups become one part. *)
LEMMA FlushRows ==
  ASSUME RInv, IInv', NEW c \in Commands, Flush(c)
  PROVE  RInv'
<1> DEFINE part == [first |-> command[c].from, last |-> command[c].next - 1]
<1>1. TypeOK /\ Kept(c) /\ command[c] \in Progress /\ command[c].next \in Nat
  BY DEF RInv, IInv, TypeOK, Progress
<1>2. part.last = command[c].next - 1
  OBVIOUS
<1>3. command' = [command EXCEPT ![c].split = <<part>>, ![c].from = command[c].next]
  BY DEF Flush
<1> HIDE DEF part
<1>4. /\ command'[c].stage = "pull" /\ command[c].stage = "pull"
      /\ command'[c].options = command[c].options /\ command'[c].plans = command[c].plans
      /\ command'[c].staged = command[c].staged /\ command'[c].at = command[c].at
      /\ command'[c].yielded = command[c].yielded /\ command'[c].split = <<part>>
      /\ command'[c].from = command[c].next
      /\ \A d \in Commands \ {c} : command'[d] = command[d]
      /\ UNCHANGED <<input, storedRows, runs>>
  BY <1>1, <1>3 DEF Flush, Pulling, TypeOK, Progress
<1>5. \A i \in 1..Len(command'[c].split) : command'[c].split[i].last < command'[c].from
  BY <1>1, <1>2, <1>4
<1> QED
  BY <1>4, <1>5, ReadingRows

(* A batch is handed over. *)
LEMMA YieldingRows ==
  ASSUME RInv, IInv', NEW c \in Commands, UNCHANGED <<input, storedRows, runs>>,
         command[c].stage = "pull", NEW b \in BatchType, b.at = command[c].at, Proper(c, b),
         NEW split, Yield(c, b, split),
         \A i \in 1..Len(split) : split[i].last < command[c].from
  PROVE  RInv'
<1>1. TypeOK /\ Kept(c) /\ command[c] \in Progress
  BY DEF RInv, IInv, TypeOK
<1>2. CASE Fail(c)
  BY <1>2, FailingRows
<1>3. CASE command' = [command EXCEPT
             ![c].stage = "take", ![c].batch = b, ![c].batches = @ + 1,
             ![c].split = split, ![c].yielded = TRUE]
  <2>1. /\ command'[c].stage = "take" /\ command'[c].batch = b
        /\ command'[c].split = split /\ command'[c].yielded
        /\ command'[c].options = command[c].options /\ command'[c].plans = command[c].plans
        /\ command'[c].staged = command[c].staged /\ command'[c].at = command[c].at
        /\ command'[c].from = command[c].from
        /\ \A d \in Commands \ {c} : command'[d] = command[d]
    BY <1>1, <1>3 DEF TypeOK, Progress
  <2>2. /\ Strict(c)' = Strict(c) /\ (Incremental(c)' <=> Incremental(c))
        /\ \A p : Batched(c, p)' <=> Batched(c, p)
        /\ \A a : FilesOf(c, a)' = FilesOf(c, a)
        /\ \A a : Proper(c, a)' <=> Proper(c, a)
        /\ \A a : Refused(c, FilesOf(c, a))' <=> Refused(c, FilesOf(c, a))
    BY <2>1, SamePlans, SameFiles
  <2>3. /\ Elements(command[c].staged)' = Elements(command[c].staged)
        /\ Elements(runs[c])' = Elements(runs[c])
        /\ Batches(c)' = Batches(c)
    BY <2>1, <2>2 DEF Elements, Batches
  <2>4. Seen(c)' = Seen(c) \cup {b} /\ Handed(c)' = Handed(c) \cup {b}
    BY <2>1, <2>3 DEF Seen, Handed
  <2>5. Known(c)'
    BY <1>1, <2>1, <2>2, <2>4 DEF Kept, Known
  <2>6. Planning(c)' /\ Written(c)'
    BY <1>1, <2>1, <2>2 DEF Kept, Planning, Written
  <2>7. Visited(c)'
    BY <1>1, <2>1, <2>2, <2>4 DEF Kept, Visited, Collecting, Finished
  <2>8. Checked(c)'
    BY <1>1, <2>1, <2>2, <2>3 DEF Kept, Checked, Malformed
  <2> QED
    BY <2>1, <2>5, <2>6, <2>7, <2>8, Idle
<1> QED
  BY <1>2, <1>3 DEF Yield

(* A stream without groups is handed over. *)
LEMMA YieldWholeRows ==
  ASSUME RInv, IInv', NEW c \in Commands, YieldWhole(c)
  PROVE  RInv'
<1> DEFINE b == BatchOf(c, 1, 0)
<1>1. TypeOK /\ Covered(c) /\ command[c] \in Progress /\ Collecting(c)
  BY DEF RInv, IInv, TypeOK, YieldWhole, Pulling, Collecting
<1>2. /\ command[c].stage = "pull" /\ command[c].split = <<>>
      /\ UNCHANGED <<input, storedRows, runs>> /\ (Fail(c) \/ Yield(c, b, <<>>))
  BY DEF YieldWhole, Pulling
<1>3. /\ b \in BatchType /\ b.at = command[c].at /\ b.stream = command[c].stream
      /\ b.first = 1 /\ b.last = 0
  BY <1>1 DEF BatchOf, BatchType, Progress
<1> HIDE DEF b
<1>4. Proper(c, b)
  <2>1. /\ command[c].at \in 1..Len(input)
        /\ command[c].stream \in 1..StreamsAt(c, command[c].at)
        /\ Len(GroupsOf(c)) \in Nat
    BY <1>1, PlaceTypes
  <2> QED
    BY <1>3, <2>1 DEF Proper, GroupsOf
<1> DEFINE none == <<>>
<1>5. \A i \in 1..Len(none) : none[i].last < command[c].from
  OBVIOUS
<1>6. Fail(c) \/ Yield(c, b, none)
  BY <1>2
<1> HIDE DEF none
<1> QED
  BY <1>2, <1>3, <1>4, <1>5, <1>6, YieldingRows, FailingRows

(* The first part becomes a batch, or two halves. *)
LEMMA CollectPartRows ==
  ASSUME RInv, IInv', NEW c \in Commands, CollectPart(c)
  PROVE  RInv'
<1> DEFINE part == Head(command[c].split)
           rest == Tail(command[c].split)
           b == BatchOf(c, part.first, part.last)
<1>1. /\ TypeOK /\ Covered(c) /\ Kept(c) /\ command[c] \in Progress /\ Collecting(c)
      /\ command[c].stage = "pull" /\ UNCHANGED <<input, storedRows, runs>>
  BY DEF RInv, IInv, TypeOK, CollectPart, Collecting
<1>2. /\ command[c].split \in Seq(Parts) /\ command[c].split # <<>>
      /\ Linked(c, command[c].split)
      /\ \A i \in 1..Len(command[c].split) : command[c].split[i].last < command[c].from
      /\ command[c].from \in Nat /\ command[c].next \in Nat
      /\ command[c].from <= command[c].next
      /\ command[c].next <= Len(GroupsOf(c)) + 1 /\ Len(GroupsOf(c)) \in Nat
      /\ command[c].at \in 1..Len(input)
      /\ command[c].stream \in 1..StreamsAt(c, command[c].at)
  BY <1>1, PlaceTypes DEF CollectPart, Covered, Pieces, Kept, Known
<1>3. /\ part \in Parts /\ part = command[c].split[1] /\ 1 \in 1..Len(command[c].split)
      /\ rest \in Seq(Parts) /\ Len(rest) = Len(command[c].split) - 1
      /\ \A i \in 1..Len(rest) :
           i + 1 \in 1..Len(command[c].split) /\ rest[i] = command[c].split[i + 1]
  BY <1>2
<1>4. /\ 1 <= part.first /\ part.first <= part.last /\ part.last < command[c].from
      /\ part.first \in Nat /\ part.last \in Nat
  BY <1>2, <1>3 DEF Linked, Parts
<1>5. \A i \in 1..Len(rest) : rest[i].last < command[c].from
  BY <1>2, <1>3
<1>6. CASE Yield(c, b, rest)
  <2>1. /\ b \in BatchType /\ b.at = command[c].at /\ b.stream = command[c].stream
        /\ b.first = part.first /\ b.last = part.last
    BY <1>1, <1>4 DEF BatchOf, BatchType, Progress
  <2> HIDE DEF part, rest, b
  <2>2. Proper(c, b)
    BY <1>2, <1>4, <2>1 DEF Proper, GroupsOf
  <2> QED
    BY <1>1, <1>5, <1>6, <2>1, <2>2, YieldingRows
<1>7. CASE Fail(c)
  BY <1>1, <1>7, FailingRows
<1>8. CASE /\ part.first # part.last
           /\ command' = [command EXCEPT ![c].split = Halves(part) \o rest]
  <2> DEFINE halves == Halves(part)
             split == halves \o rest
  <2>1. /\ halves \in Seq(Parts) /\ Len(halves) = 2
        /\ halves[1].last + 1 = halves[2].first /\ halves[2].first <= part.last
        /\ halves[2].last = part.last
    <3>1. part.first < part.last
      BY <1>4, <1>8
    <3> QED
      BY <1>3, <3>1, HalvesMeet
  <2>2. /\ command'[c].split = split
        /\ command'[c].stage = "pull" /\ command'[c].from = command[c].from
        /\ command'[c].options = command[c].options /\ command'[c].plans = command[c].plans
        /\ command'[c].staged = command[c].staged /\ command'[c].at = command[c].at
        /\ command'[c].yielded = command[c].yielded
        /\ \A d \in Commands \ {c} : command'[d] = command[d]
    BY <1>1, <1>8 DEF TypeOK, Progress
  <2> HIDE DEF halves, rest, part
  <2>3. halves[1] \in Parts /\ halves[2] \in Parts
    <3>1. 1 \in 1..Len(halves) /\ 2 \in 1..Len(halves)
      BY <2>1
    <3>2. \A i \in 1..Len(halves) : halves[i] \in Parts
      BY <2>1, ElementOfSeq
    <3> QED
      BY <3>1, <3>2
  <2>4. halves[1].last < command[c].from /\ halves[2].last < command[c].from
    <3>1. /\ halves[1].last \in Nat /\ halves[2].first \in Nat /\ halves[2].last \in Nat
      BY <2>3 DEF Parts
    <3>2. /\ part.last < command[c].from /\ part.last \in Nat /\ command[c].from \in Nat
          /\ halves[1].last + 1 = halves[2].first /\ halves[2].first <= part.last
          /\ halves[2].last = part.last
      BY <1>2, <1>4, <2>1
    <3> QED
      BY <3>1, <3>2
  <2>5. /\ Len(split) = 2 + Len(rest) /\ Len(rest) \in Nat
        /\ \A i \in 1..2 + Len(rest) :
             split[i] = IF i <= 2 THEN halves[i] ELSE rest[i - 2]
    <3>1. rest \in Seq(Parts) /\ Len(rest) \in Nat
      BY <1>3
    <3>2. /\ Len(split) = Len(halves) + Len(rest)
          /\ \A i \in 1..(Len(halves) + Len(rest)) :
               split[i] = IF i <= Len(halves) THEN halves[i] ELSE rest[i - Len(halves)]
      BY <2>1, <3>1, ConcatProperties
    <3> QED
      BY <2>1, <3>1, <3>2
  <2> HIDE DEF split
  <2>6. ASSUME NEW i \in 1..Len(split) PROVE split[i].last < command[c].from
    <3>1. CASE i <= 2
      <4>1. split[i] = halves[i] /\ (i = 1 \/ i = 2)
        BY <2>5, <3>1
      <4> QED
        BY <2>4, <4>1
    <3>2. CASE ~(i <= 2)
      <4>1. split[i] = rest[i - 2] /\ i - 2 \in 1..Len(rest)
        BY <2>5, <3>2
      <4> QED
        BY <1>5, <4>1
    <3> QED
      BY <3>1, <3>2
  <2> QED
    BY <1>1, <2>2, <2>6, ReadingRows
<1> QED
  BY <1>6, <1>7, <1>8 DEF CollectPart

(* The stream is read: the next one, the next provider, or the end. *)
LEMMA AdvanceRows ==
  ASSUME RInv, IInv', NEW c \in Commands, Advance(c)
  PROVE  RInv'
<1>1. /\ TypeOK /\ Covered(c) /\ Kept(c) /\ command[c] \in Progress /\ Collecting(c)
      /\ command[c].stage = "pull" /\ UNCHANGED <<input, storedRows, runs>>
      /\ command[c].split = <<>> /\ command[c].yielded
      /\ command[c].at \in 1..Len(input) /\ Len(input) \in Nat
      /\ command[c].stream \in 1..StreamsAt(c, command[c].at)
      /\ StreamsAt(c, command[c].at) \in Nat
  <2>1. /\ TypeOK /\ Covered(c) /\ Kept(c) /\ command[c] \in Progress /\ Collecting(c)
        /\ command[c].stage = "pull" /\ UNCHANGED <<input, storedRows, runs>>
        /\ command[c].split = <<>> /\ command[c].yielded
    BY DEF RInv, IInv, TypeOK, Advance, Pulling, Collecting
  <2> QED
    BY <2>1, PlaceTypes, StreamTypes, Types
<1> DEFINE at == command[c].at
           begin == [command[c] EXCEPT !.from = 1, !.next = 1, !.yielded = FALSE]
<1>2. command' = [command EXCEPT ![c] =
        IF command[c].stream < StreamsAt(c, at) THEN [begin EXCEPT !.stream = @ + 1]
        ELSE IF at < Len(input) THEN [begin EXCEPT !.at = @ + 1, !.stream = 1]
        ELSE IF Strict(c) THEN [begin EXCEPT !.stage = "write", !.at = 1]
        ELSE [begin EXCEPT !.stage = "done", !.printed = command[c].report]]
  BY DEF Advance
<1>3. /\ command'[c].options = command[c].options /\ command'[c].plans = command[c].plans
      /\ command'[c].staged = command[c].staged /\ command'[c].split = <<>>
      /\ \A d \in Commands \ {c} : command'[d] = command[d]
      /\ \/ /\ command'[c].stage = "pull" /\ command'[c].at = command[c].at
            /\ command[c].stream < StreamsAt(c, command[c].at) /\ ~command'[c].yielded
         \/ /\ command'[c].stage = "pull" /\ command'[c].at = command[c].at + 1
            /\ ~command'[c].yielded
         \/ command[c].at = Len(input) /\ command'[c].stage = "write" /\ command'[c].at = 1
         \/ command[c].at = Len(input) /\ command'[c].stage = "done" /\ ~Strict(c)
  BY <1>1, <1>2 DEF TypeOK, Progress
<1> HIDE DEF begin, at
<1>4. /\ Strict(c)' = Strict(c) /\ (Incremental(c)' <=> Incremental(c)) /\ Incremental(c)
      /\ Len(command[c].plans) = Len(input)
      /\ \A p : Batched(c, p)' <=> Batched(c, p)
      /\ \A b : FilesOf(c, b)' = FilesOf(c, b)
      /\ \A b : Proper(c, b)' <=> Proper(c, b)
      /\ \A b : Refused(c, FilesOf(c, b))' <=> Refused(c, FilesOf(c, b))
  BY <1>1, <1>3, SamePlans, SameFiles DEF Kept, Planning
<1>5. /\ Elements(command[c].staged)' = Elements(command[c].staged)
      /\ Elements(runs[c])' = Elements(runs[c]) /\ Batches(c)' = Batches(c)
  BY <1>1, <1>3, <1>4 DEF Elements, Batches
<1>6. Seen(c)' = Seen(c) /\ Handed(c)' = Handed(c)
  BY <1>1, <1>3, <1>5 DEF Seen, Handed
<1>7. Known(c)'
  <2>1. \A i \in 1..Len(command'[c].split) : FALSE
    BY <1>3
  <2> QED
    BY <1>1, <1>4, <1>6, <2>1 DEF Kept, Known
<1>8. Planning(c)'
  BY <1>1, <1>3, <1>4 DEF Planning
<1>9. Visited(c)'
  <2>1. \A p \in 1..Len(input) :
          ~Batched(c, p) /\ p <= command[c].at => \E b \in Handed(c) : b.at = p
    BY <1>1 DEF Kept, Visited
  <2>2. \A p \in 1..Len(input) : ~Batched(c, p) => StreamsAt(c, p) = 1
    BY DEF StreamsAt
  <2>3. command[c].stream < StreamsAt(c, command[c].at) => Batched(c, command[c].at)
    BY <1>1, <2>2
  <2>4. ASSUME NEW p \in 1..Len(input), ~Batched(c, p),
               Finished(c)' \/ p < command'[c].at \/ (p = command'[c].at /\ command'[c].yielded)
        PROVE  \E b \in Handed(c) : b.at = p
    <3>1. p <= command[c].at
      BY <1>1, <1>3, <2>4 DEF Finished
    <3> QED
      BY <2>1, <2>4, <3>1
  <2> QED
    BY <1>1, <1>3, <1>4, <1>6, <2>4 DEF Visited
<1>10. Written(c)'
  <2>1. command'[c].stage = "write" =>
          \A i \in 1..Len(command[c].staged) : ~(i < command'[c].at)
    BY <1>1, <1>3 DEF Progress
  <2> QED
    BY <1>3, <1>4, <2>1 DEF Written
<1>11. Checked(c)'
  BY <1>1, <1>3, <1>4, <1>5 DEF Kept, Checked, Malformed
<1> QED
  BY <1>1, <1>3, <1>7, <1>8, <1>9, <1>10, <1>11, Idle
-----------------------------------------------------------------------------
(* A batch that was not refused is staged. *)
LEMMA StageBatchRows ==
  ASSUME RInv, IInv', NEW c \in Commands, StageBatch(c)
  PROVE  RInv'
<1> DEFINE b == command[c].batch
<1>1. /\ TypeOK /\ Covered(c) /\ Kept(c) /\ command[c] \in Progress
      /\ command[c].stage = "take" /\ Strict(c) /\ UNCHANGED <<input, storedRows, runs>>
      /\ command[c].staged \in Seq(BatchType) /\ b \in BatchType
  BY DEF RInv, IInv, TypeOK, StageBatch, Progress, Covered, Stage
<1>2. CASE Fail(c)
  BY <1>1, <1>2, FailingRows
<1>3. CASE /\ ~Refused(c, FilesOf(c, b))
           /\ command' = [command EXCEPT ![c].stage = "pull", ![c].batch = None,
                                         ![c].staged = Append(@, b)]
  <2> DEFINE staged == Append(command[c].staged, b)
  <2>1. /\ command'[c].stage = "pull" /\ command'[c].staged = staged
        /\ command'[c].options = command[c].options /\ command'[c].plans = command[c].plans
        /\ command'[c].at = command[c].at /\ command'[c].yielded = command[c].yielded
        /\ command'[c].split = command[c].split /\ command'[c].from = command[c].from
        /\ \A d \in Commands \ {c} : command'[d] = command[d]
    BY <1>1, <1>3 DEF TypeOK, Progress
  <2>2. /\ Strict(c)' = Strict(c) /\ (Incremental(c)' <=> Incremental(c))
        /\ \A p : Batched(c, p)' <=> Batched(c, p)
        /\ \A a : FilesOf(c, a)' = FilesOf(c, a)
        /\ \A a : Proper(c, a)' <=> Proper(c, a)
        /\ \A a : Refused(c, FilesOf(c, a))' <=> Refused(c, FilesOf(c, a))
    BY <1>1, <2>1, SamePlans, SameFiles
  <2>3. Elements(staged) = Elements(command[c].staged) \cup {b}
    BY <1>1, OneElementMore
  <2> HIDE DEF staged, b
  <2>4. Elements(staged) = Elements(command[c].staged) \cup {b}
    BY <2>3
  <2>5. /\ Elements(command[c].staged)' = Elements(command[c].staged) \cup {b}
        /\ Elements(runs[c])' = Elements(runs[c])
    BY <1>1, <2>1, <2>4 DEF Elements
  <2>6. Seen(c)' = Seen(c)
    BY <1>1, <2>1, <2>5 DEF Seen, b
  <2>7. Handed(c)' = Handed(c)
    <3>1. Handed(c) = Elements(command[c].staged) \cup {b}
      BY <1>1 DEF Handed, Batches, Elements, b
    <3>2. Handed(c)' = Elements(command[c].staged)'
      BY <1>1, <2>1, <2>2 DEF Handed, Batches, Elements
    <3> QED
      BY <2>5, <3>1, <3>2
  <2>8. Known(c)'
    BY <1>1, <2>1, <2>2, <2>6 DEF Kept, Known, Collecting
  <2>9. Planning(c)' /\ Written(c)'
    BY <1>1, <2>1, <2>2 DEF Kept, Planning, Written
  <2>10. Visited(c)'
    BY <1>1, <2>1, <2>2, <2>7 DEF Kept, Visited, Collecting, Finished
  <2>11. Checked(c)'
    BY <1>1, <1>3, <2>1, <2>2, <2>5 DEF Kept, Checked
  <2> QED
    BY <1>1, <2>1, <2>8, <2>9, <2>10, <2>11, Idle
<1> QED
  BY <1>2, <1>3 DEF StageBatch

(* A batch is ingested as it comes. *)
LEMMA IngestBatchRows ==
  ASSUME RInv, IInv', NEW c \in Commands, IngestBatch(c)
  PROVE  RInv'
<1> DEFINE b == command[c].batch
<1>1. /\ TypeOK /\ Covered(c) /\ Kept(c) /\ command[c] \in Progress
      /\ command[c].stage = "take" /\ ~Strict(c) /\ input' = input /\ b \in BatchType
  BY DEF RInv, IInv, TypeOK, IngestBatch, Covered, Stage
<1>2. CASE Fail(c) /\ UNCHANGED <<storedRows, runs>>
  BY <1>1, <1>2, FailingRows
<1>3. CASE IngestRows(c, b) /\ Go(c, "pull", command[c].at)
  <2>1. /\ command'[c].stage = "pull" /\ command'[c].staged = command[c].staged
        /\ command'[c].options = command[c].options /\ command'[c].plans = command[c].plans
        /\ command'[c].at = command[c].at /\ command'[c].yielded = command[c].yielded
        /\ command'[c].split = command[c].split /\ command'[c].from = command[c].from
        /\ \A d \in Commands \ {c} : command'[d] = command[d]
    BY <1>1, <1>3 DEF TypeOK, Progress, Go
  <2>2. /\ Strict(c)' = Strict(c) /\ (Incremental(c)' <=> Incremental(c))
        /\ \A p : Batched(c, p)' <=> Batched(c, p)
        /\ \A a : FilesOf(c, a)' = FilesOf(c, a)
        /\ \A a : Proper(c, a)' <=> Proper(c, a)
        /\ \A a : Refused(c, FilesOf(c, a))' <=> Refused(c, FilesOf(c, a))
    BY <1>1, <2>1, SamePlans, SameFiles
  <2> HIDE DEF b
  <2>3. b \in Seen(c) /\ Proper(c, b)
    BY <1>1 DEF Seen, Kept, Known, b
  <2>4. /\ Elements(runs[c])' = Elements(runs[c]) \cup {b}
        /\ Elements(command[c].staged)' = Elements(command[c].staged)
    <3>1. Elements(runs[c])' = Elements(runs[c]) \cup {b}
      BY <1>1, <1>3, <2>3, Ingesting
    <3>2. command'[c].staged = command[c].staged
      BY <2>1
    <3>3. Elements(command[c].staged)' = Elements(command[c].staged)
      BY <3>2 DEF Elements
    <3> QED
      BY <3>1, <3>3
  <2>5. Seen(c)' = Seen(c)
    BY <1>1, <2>1, <2>4 DEF Seen, b
  <2>6. Handed(c)' = Handed(c)
    <3>1. Handed(c) = Elements(runs[c]) \cup {b}
      BY <1>1 DEF Handed, Batches, Elements, b
    <3>2. Handed(c)' = Elements(runs[c])'
      BY <1>1, <2>1, <2>2 DEF Handed, Batches, Elements
    <3> QED
      BY <2>4, <3>1, <3>2
  <2>7. Known(c)'
    BY <1>1, <2>1, <2>2, <2>5 DEF Kept, Known, Collecting
  <2>8. Planning(c)' /\ Written(c)' /\ Flawless(c)'
    BY <1>1, <2>1, <2>2 DEF Kept, Planning, Written, Flawless
  <2>9. Visited(c)'
    BY <1>1, <2>1, <2>2, <2>6 DEF Kept, Visited, Collecting, Finished
  <2>10. Checked(c)'
    BY <1>1, <2>1, <2>2, <2>4 DEF Kept, Checked
  <2> QED
    BY <1>1, <1>3, <2>1, <2>3, <2>7, <2>8, <2>9, <2>10, Storing
<1> QED
  BY <1>2, <1>3 DEF IngestBatch

(* All batches of a strict command that has read everything are free of flaws,
   and so is everything it has read. *)
LEMMA NothingFlawed ==
  ASSUME RInv, NEW c \in Commands, Strict(c), command[c].stage = "write",
         NEW p \in 1..Len(input)
  PROVE  ~Malformed(AllFiles(input[p])) /\ ~Invalid(AllFiles(input[p]))
<1> DEFINE staged == Elements(command[c].staged)
           files == AllFiles(input[p])
<1>1. IInv /\ TypeOK /\ Covered(c) /\ Kept(c)
  BY DEF RInv, IInv
<1>2. Finished(c) /\ Handed(c) = staged
  BY DEF Finished, Handed, Batches, Elements
<1>3. staged \subseteq BatchType /\ \A b \in staged : Proper(c, b) /\ ~Refused(c, FilesOf(c, b))
  BY <1>1, SeenTypes DEF Seen, Kept, Known, Checked
<1> HIDE DEF staged
<1>4. Complete(c, staged, p)
  <2>1. CASE Batched(c, p)
    <3>1. \A s \in 1..StreamsAt(c, p) : \A g \in 1..Len(GroupsAt(c, p, s)) :
            \E b \in staged : Covers(b, p, s, g)
      BY <1>1, <1>2 DEF Covered, NoneSkipped, Passed
    <3> QED
      BY <2>1, <3>1 DEF Complete
  <2>2. CASE ~Batched(c, p)
    BY <1>1, <1>2, <2>2 DEF Complete, Kept, Visited
  <2> QED
    BY <2>1, <2>2
<1>5. ASSUME NEW i \in 1..Len(files)
      PROVE  /\ files[i].key # None /\ files[i].flaw # "malformed"
             /\ i \in KeptCopies(files) => files[i].flaw # "invalid"
  <2>1. PICK b \in staged : b.at = p /\ ReadIn(c, b, i)
    BY <1>1, <1>3, <1>4, AllRead
  <2>2. PICK k \in 1..Len(FilesOf(c, b)) :
          /\ FilesOf(c, b)[k] = files[i]
          /\ i \in KeptCopies(files) => k \in KeptCopies(FilesOf(c, b))
    BY <2>1 DEF ReadIn
  <2>3. ~Malformed(FilesOf(c, b)) /\ ~Invalid(FilesOf(c, b))
    BY <1>3 DEF Refused
  <2> QED
    BY <2>2, <2>3 DEF Malformed, Invalid
<1>6. ~Malformed(files)
  BY <1>5 DEF Malformed
<1>7. ~Invalid(files)
  BY <1>5 DEF Invalid, KeptCopies
<1> QED
  BY <1>6, <1>7

(* A staged batch is written. *)
LEMMA IngestStagedRows ==
  ASSUME RInv, IInv', NEW c \in Commands, IngestStaged(c)
  PROVE  RInv'
<1> DEFINE at == command[c].at
           b == command[c].staged[at]
           last == at = Len(command[c].staged)
           stage == IF last THEN "done" ELSE "write"
<1>1. /\ TypeOK /\ Covered(c) /\ Kept(c) /\ command[c] \in Progress
      /\ command[c].stage = "write" /\ Strict(c) /\ input' = input
      /\ command[c].staged \in Seq(BatchType) /\ at \in 1..Len(command[c].staged)
  BY DEF RInv, IInv, TypeOK, IngestStaged, Progress, Covered, Stage
<1>2. IngestRows(c, b) /\ Go(c, stage, at + 1)
  BY DEF IngestStaged
<1>3. b \in BatchType /\ b \in Elements(command[c].staged)
  BY <1>1 DEF Elements
<1>4. stage \in {"done", "write"} /\ (stage = "done" <=> at = Len(command[c].staged))
  OBVIOUS
<1> HIDE DEF b, last, stage
<1>5. /\ command'[c].stage = stage /\ command'[c].staged = command[c].staged
      /\ command'[c].options = command[c].options /\ command'[c].plans = command[c].plans
      /\ command'[c].at = at + 1
      /\ \A d \in Commands \ {c} : command'[d] = command[d]
  BY <1>1, <1>2 DEF TypeOK, Progress, Go
<1>6. /\ Strict(c)' = Strict(c) /\ (Incremental(c)' <=> Incremental(c)) /\ Incremental(c)
      /\ \A p : Batched(c, p)' <=> Batched(c, p)
      /\ \A a : FilesOf(c, a)' = FilesOf(c, a)
      /\ \A a : Proper(c, a)' <=> Proper(c, a)
      /\ \A a : Refused(c, FilesOf(c, a))' <=> Refused(c, FilesOf(c, a))
  BY <1>1, <1>5, SamePlans, SameFiles DEF Kept, Planning
<1>7. b \in Seen(c) /\ Proper(c, b)
  BY <1>1, <1>3 DEF Seen, Kept, Known
<1>8. /\ Elements(runs[c])' = Elements(runs[c]) \cup {b}
      /\ Elements(command[c].staged)' = Elements(command[c].staged)
  <2>1. Elements(runs[c])' = Elements(runs[c]) \cup {b}
    BY <1>1, <1>2, <1>3, <1>7, Ingesting
  <2>2. Elements(command[c].staged)' = Elements(command[c].staged)
    BY <1>5 DEF Elements
  <2> QED
    BY <2>1, <2>2
<1>9. Seen(c)' = Seen(c)
  BY <1>1, <1>3, <1>4, <1>5, <1>8 DEF Seen
<1>10. Handed(c)' = Handed(c)
  <2>1. Batches(c)' = Batches(c)
    BY <1>1, <1>4, <1>5, <1>6 DEF Batches
  <2>2. command[c].stage # "take" /\ command'[c].stage # "take"
    BY <1>1, <1>4, <1>5
  <2> QED
    BY <2>1, <2>2 DEF Handed
<1>11. Known(c)'
  BY <1>1, <1>4, <1>5, <1>6, <1>9 DEF Kept, Known, Collecting
<1>12. Planning(c)'
  BY <1>1, <1>4, <1>5, <1>6 DEF Kept, Planning
<1>13. Visited(c)'
  BY <1>1, <1>4, <1>5, <1>6, <1>10 DEF Kept, Visited, Collecting, Finished
<1>14. Written(c)'
  <2>1. ASSUME NEW i \in 1..Len(command[c].staged), i < at + 1
        PROVE  command[c].staged[i] \in Elements(runs[c])'
    <3>1. CASE i = at
      BY <1>8, <3>1 DEF b
    <3>2. CASE i # at
      <4>1. i < at
        BY <1>1, <2>1, <3>2
      <4> QED
        BY <1>1, <1>8, <4>1 DEF Kept, Written
    <3> QED
      BY <3>1, <3>2
  <2>2. stage = "done" => Elements(command[c].staged) \subseteq Elements(runs[c])'
    <3> SUFFICES ASSUME stage = "done", NEW i \in 1..Len(command[c].staged)
                 PROVE  command[c].staged[i] \in Elements(runs[c])'
      BY DEF Elements
    <3>1. i < at + 1
      BY <1>1, <1>4
    <3> QED
      BY <2>1, <3>1
  <2> QED
    BY <1>4, <1>5, <1>8, <2>1, <2>2 DEF Written
<1>15. Checked(c)'
  BY <1>1, <1>4, <1>5, <1>6, <1>8 DEF Kept, Checked
<1>16. Flawless(c)'
  BY <1>1, NothingFlawed DEF Flawless, Malformed, Invalid
<1> QED
  BY <1>1, <1>2, <1>3, <1>5, <1>7, <1>11, <1>12, <1>13, <1>14, <1>15, <1>16, Storing

(* A whole snapshot is written. *)
LEMMA IngestWholeRows ==
  ASSUME RInv, IInv', NEW c \in Commands, IngestWhole(c)
  PROVE  RInv'
<1> DEFINE at == command[c].at
           b == BatchOf(c, 1, 0)
           last == at = Len(input)
           stage == IF last THEN "done" ELSE "direct"
<1>1. /\ TypeOK /\ Covered(c) /\ Kept(c) /\ command[c] \in Progress
      /\ command[c].stage = "direct" /\ input' = input /\ ~Incremental(c)
      /\ at \in 1..Len(input) /\ Len(command[c].plans) = Len(input) /\ Len(input) \in Nat
  BY Types DEF RInv, IInv, TypeOK, IngestWhole, Covered, Stage, Kept, Planning
<1>2. CASE Fail(c) /\ UNCHANGED <<storedRows, runs>>
  BY <1>1, <1>2, FailingRows
<1>3. CASE IngestRows(c, b) /\ Go(c, stage, at + 1)
  <2>1. b \in BatchType /\ b.at = at
    BY <1>1 DEF BatchOf, BatchType, Progress
  <2>2. stage \in {"done", "direct"} /\ (stage = "done" <=> at = Len(input))
    OBVIOUS
  <2> HIDE DEF b, last, stage
  <2>3. /\ command'[c].stage = stage /\ command'[c].staged = command[c].staged
        /\ command'[c].options = command[c].options /\ command'[c].plans = command[c].plans
        /\ command'[c].at = at + 1
        /\ \A d \in Commands \ {c} : command'[d] = command[d]
    BY <1>1, <1>3 DEF TypeOK, Progress, Go
  <2>4. /\ Strict(c)' = Strict(c) /\ (Incremental(c)' <=> Incremental(c))
        /\ \A p : Batched(c, p)' <=> Batched(c, p)
        /\ \A a : FilesOf(c, a)' = FilesOf(c, a)
        /\ \A a : Proper(c, a)' <=> Proper(c, a)
        /\ \A a : Refused(c, FilesOf(c, a))' <=> Refused(c, FilesOf(c, a))
    BY <1>1, <2>3, SamePlans, SameFiles
  <2>5. Proper(c, b)
    <3>1. ~Batched(c, at)
      BY <1>1 DEF Incremental
    <3> QED
      BY <1>1, <2>1, <3>1 DEF Proper
  <2>6. /\ Elements(runs[c])' = Elements(runs[c]) \cup {b}
        /\ Elements(command[c].staged)' = Elements(command[c].staged)
    <3>1. Elements(runs[c])' = Elements(runs[c]) \cup {b}
      BY <1>1, <1>3, <2>1, <2>5, Ingesting
    <3>2. Elements(command[c].staged)' = Elements(command[c].staged)
      BY <2>3 DEF Elements
    <3> QED
      BY <3>1, <3>2
  <2>7. Seen(c)' = Seen(c) \cup {b}
    BY <1>1, <2>2, <2>3, <2>6 DEF Seen
  <2>8. Known(c)'
    BY <1>1, <2>2, <2>3, <2>4, <2>5, <2>7 DEF Kept, Known, Collecting
  <2>9. Planning(c)'
    BY <1>1, <2>2, <2>3, <2>4 DEF Planning
  <2>10. Visited(c)'
    <3>1. ~Collecting(c)' /\ ~Finished(c)'
      BY <1>1, <2>2, <2>3, <2>4 DEF Collecting, Finished
    <3>2. ASSUME NEW p \in 1..Len(input), p <= at
          PROVE  \E a \in Elements(runs[c])' : a.at = p
      <4>1. CASE p = at
        BY <2>1, <2>6, <4>1
      <4>2. CASE p # at
        <5>1. p < at
          BY <1>1, <3>2, <4>2
        <5> QED
          BY <1>1, <2>6, <5>1 DEF Kept, Visited
      <4> QED
        BY <4>1, <4>2
    <3>3. \A p \in 1..Len(input) : stage = "done" \/ p < at + 1 => p <= at
      BY <1>1, <2>2
    <3> QED
      BY <1>1, <2>2, <2>3, <2>4, <3>1, <3>2, <3>3 DEF Visited
  <2>11. Written(c)'
    BY <1>1, <2>2, <2>3, <2>4 DEF Written
  <2>12. Checked(c)'
    <3>1. \A p : Malformed(AllFiles(input[p]))' <=> Malformed(AllFiles(input[p]))
      BY <1>1 DEF Malformed
    <3> QED
      BY <1>1, <2>3, <2>4, <2>6, <3>1 DEF Kept, Checked
  <2>13. Flawless(c)'
    <3>1. \A p : Malformed(AllFiles(input[p]))' <=> Malformed(AllFiles(input[p]))
      BY <1>1 DEF Malformed
    <3> QED
      BY <1>1, <2>4, <3>1 DEF Kept, Checked, Flawless
  <2> QED
    BY <1>1, <1>3, <2>1, <2>3, <2>5, <2>8, <2>9, <2>10, <2>11, <2>12, <2>13, Storing
<1> QED
  BY <1>2, <1>3 DEF IngestWhole
-----------------------------------------------------------------------------
(* The invariant holds at first, *)
LEMMA RowsInitially == CollectInit => RInv
<1> SUFFICES ASSUME CollectInit PROVE RInv
  OBVIOUS
<1>1. IInv
  BY Initially
<1>2. StoredOK /\ Sourced
  BY DEF CollectInit, StoredOK, Sourced, RowType, NoRow
<1>3. ASSUME NEW c \in Commands PROVE Kept(c)
  <2>1. PICK called \in [Commands -> OptionsType] :
          command = [d \in Commands |-> Start(called[d])]
    BY DEF CollectInit
  <2>2. /\ command[c].stage = "plan" /\ command[c].staged = <<>>
        /\ command[c].plans = <<>> /\ command[c].at = 1 /\ runs[c] = <<>>
    BY <2>1 DEF CollectInit, Start
  <2>3. Elements(runs[c]) = {} /\ Elements(command[c].staged) = {}
    BY <2>2 DEF Elements
  <2>4. Len(input) \in Nat
    BY <1>1, Types DEF IInv
  <2>5. Known(c) /\ Planning(c)
    BY <2>2, <2>3, <2>4 DEF Known, Seen, Collecting, Planning
  <2>6. Visited(c) /\ Written(c) /\ Outdone(c) /\ Checked(c) /\ Flawless(c)
    BY <2>2, <2>3 DEF Visited, Written, Outdone, Checked, Flawless, Collecting, Finished
  <2> QED
    BY <2>5, <2>6 DEF Kept
<1> QED
  BY <1>1, <1>2, <1>3 DEF RInv

(* and every step keeps it. *)
LEMMA RowsInductive == RInv /\ [CollectNext]_collectVars => RInv'
<1> SUFFICES ASSUME RInv, [CollectNext]_collectVars PROVE RInv'
  OBVIOUS
<1>1. IInv'
  BY Inductive DEF RInv
<1>2. CASE UNCHANGED collectVars
  <2>1. /\ input' = input /\ runs' = runs /\ command' = command /\ storedRows' = storedRows
    BY <1>2 DEF collectVars
  <2>2. StoredOK' /\ Sourced'
    BY <2>1 DEF RInv, StoredOK, Sourced, Source, OneCollection
  <2>3. Grown
    <3> SUFFICES ASSUME NEW key \in Conversations PROVE storedRows[key].rank <= storedRows[key].rank
      BY <2>1 DEF Grown
    <3>1. storedRows[key] \in RowType
      BY DEF RInv, StoredOK
    <3> QED
      BY <3>1 DEF RowType
  <2>4. ASSUME NEW c \in Commands PROVE Kept(c)'
    BY <2>1, <2>2, <2>3, OthersKnow
  <2> QED
    BY <1>1, <2>2, <2>4 DEF RInv
<1>3. ASSUME NEW c \in Commands, Work(c) PROVE RInv'
  BY <1>1, <1>3, PlanProviderRows, PlannedRows, IngestWholeRows, PackRows, FlushRows,
     CollectPartRows, YieldWholeRows, AdvanceRows, IngestBatchRows, StageBatchRows,
     IngestStagedRows DEF Work
<1>4. ASSUME NEW c \in Commands, ReadFails(c) PROVE RInv'
  BY <1>1, <1>4, FailingRows DEF ReadFails
<1>5. ASSUME NEW c \in Commands, Kill(c) PROVE RInv'
  BY <1>1, <1>5, EndingRows DEF Kill
<1>6. ASSUME NEW c \in Commands, Rerun(c) PROVE RInv'
  BY <1>1, <1>6, RerunRows
<1> QED
  BY <1>2, <1>3, <1>4, <1>5, <1>6 DEF CollectNext

(* A row of the copy of one conversation that is read of one provider. *)
LEMMA SourceOfKey ==
  ASSUME TypeOK, NEW p \in 1..Len(input), NEW key \in DOMAIN OneCollection(p),
         NEW row, Source(key, row)
  PROVE  /\ \E i \in 1..Len(AllFiles(input[p])) :
              AllFiles(input[p])[i].key = key /\ row.rank = AllFiles(input[p])[i].rank
         /\ IF input[p].grouped THEN row = OneCollection(p)[key] ELSE row.against = 0
<1>1. PICK q \in 1..Len(input) : \E i \in 1..Len(AllFiles(input[q])) :
        /\ AllFiles(input[q])[i].key = key /\ row.rank = AllFiles(input[q])[i].rank
        /\ IF input[q].grouped
           THEN key \in DOMAIN OneCollection(q) /\ row = OneCollection(q)[key]
           ELSE row.against = 0
  BY DEF Source
<1>2. PICK i \in 1..Len(AllFiles(input[q])) :
        /\ AllFiles(input[q])[i].key = key /\ row.rank = AllFiles(input[q])[i].rank
        /\ IF input[q].grouped
           THEN key \in DOMAIN OneCollection(q) /\ row = OneCollection(q)[key]
           ELSE row.against = 0
  BY <1>1
<1>3. PICK j \in KeptCopies(AllFiles(input[p])) : AllFiles(input[p])[j].key = key
  BY RowOfSelected DEF OneCollection
<1>4. j \in 1..Len(AllFiles(input[p])) /\ key # None
  BY <1>3 DEF KeptCopies
<1>5. q = p
  BY <1>2, <1>3, <1>4, KeysAssumption DEF TypeOK
<1> QED
  BY <1>2, <1>5

(* A command that is done leaves what one collection makes of the files. *)
LEMMA DoneIsWhole ==
  ASSUME RInv, NEW c \in Commands, command[c].stage = "done", NEW p \in 1..Len(input),
         NEW key \in DOMAIN OneCollection(p)
  PROVE  storedRows[key] = OneCollection(p)[key]
<1> DEFINE batches == Elements(runs[c])
           files == AllFiles(input[p])
           row == OneCollection(p)[key]
<1>1. IInv /\ TypeOK /\ Covered(c) /\ Kept(c) /\ StoredOK /\ Sourced
  BY DEF RInv, IInv
<1>2. files \in Seq(Files) /\ row = Normalized(files)[key] /\ key \in DOMAIN Normalized(files)
  BY <1>1, ProviderTypes DEF OneCollection
<1>3. batches \subseteq BatchType /\ \A b \in batches : Proper(c, b)
  BY <1>1, SeenTypes DEF Seen, Kept, Known
<1>4. Incremental(c) => Finished(c) /\ Handed(c) \subseteq batches
  BY <1>1 DEF Finished, Handed, Batches, Kept, Written, Elements
<1>5. ~Incremental(c) => \A q \in 1..Len(input) : ~Batched(c, q)
  BY <1>1 DEF Incremental, Kept, Planning
<1> HIDE DEF batches
<1>6. Complete(c, batches, p)
  <2>1. CASE Batched(c, p)
    <3>1. Finished(c) /\ Handed(c) \subseteq batches
      BY <1>4, <1>5, <2>1
    <3>2. \A s \in 1..StreamsAt(c, p) : \A g \in 1..Len(GroupsAt(c, p, s)) :
            \E b \in Handed(c) : Covers(b, p, s, g)
      BY <1>1, <3>1 DEF Covered, NoneSkipped, Passed
    <3> QED
      BY <2>1, <3>1, <3>2 DEF Complete
  <2>2. CASE ~Batched(c, p)
    <3>1. \E b \in batches : b.at = p
      BY <1>1, <1>4, <2>2 DEF Kept, Visited, batches
    <3> QED
      BY <2>2, <3>1 DEF Complete
  <2> QED
    BY <2>1, <2>2
<1>7. PICK i \in KeptCopies(files) : files[i].key = key
  BY <1>2, RowOfSelected
<1>8. i \in 1..Len(files) /\ key # None
  BY <1>7 DEF KeptCopies
<1>9. PICK b \in batches : b.at = p /\ FilesOf(c, b) \in Seq(Files) /\ ReadIn(c, b, i)
  BY <1>1, <1>3, <1>6, <1>8, AllRead
<1>10. PICK k \in KeptCopies(FilesOf(c, b)) : FilesOf(c, b)[k] = files[i]
  BY <1>7, <1>9 DEF ReadIn
<1>11. /\ key \in DOMAIN Normalized(FilesOf(c, b))
       /\ Normalized(FilesOf(c, b))[key] = Row(FilesOf(c, b), k)
  BY <1>7, <1>9, <1>10, SelectedRow
<1>12. Normalized(FilesOf(c, b))[key].rank = files[i].rank
  BY <1>9, <1>10, <1>11, RowTypes DEF KeptCopies
<1>13. /\ row = Row(files, i) /\ row \in RowType /\ row.rank = files[i].rank
       /\ files[i].rank > 0 /\ files[i].rank \in Nat
  BY <1>2, <1>7, <1>8, SelectedRow, RowTypes
<1>14. files[i].rank <= storedRows[key].rank /\ key \in Conversations
  BY <1>1, <1>3, <1>9, <1>11, <1>12, BatchRows DEF Kept, Outdone, batches
<1>15. storedRows[key] \in RowType
  BY <1>1, <1>14 DEF StoredOK
<1>16. storedRows[key] # NoRow
  BY <1>13, <1>14 DEF NoRow
<1>17. Source(key, storedRows[key])
  BY <1>1, <1>14, <1>16 DEF Sourced
<1>18. PICK j \in 1..Len(files) : files[j].key = key /\ storedRows[key].rank = files[j].rank
  BY <1>1, <1>17, SourceOfKey
<1>19. files[j].rank <= files[i].rank
  <2>1. Best(files, i, j)
    BY <1>7, <1>18 DEF KeptCopies
  <2>2. files[j].rank \in Nat
    BY <1>2, RowTypes
  <2> QED
    BY <1>13, <2>1, <2>2 DEF Best
<1>20. storedRows[key].rank = row.rank
  BY <1>13, <1>14, <1>15, <1>18, <1>19 DEF RowType
<1>21. CASE input[p].grouped
  BY <1>1, <1>17, <1>21, SourceOfKey
<1>22. CASE ~input[p].grouped
  <2>1. storedRows[key].against = 0
    BY <1>1, <1>17, <1>22, SourceOfKey
  <2>2. files[i].parent = None
    BY <1>1, <1>8, <1>22, ParentsAssumption DEF TypeOK
  <2>3. row.against = 0
    BY <1>2, <1>8, <1>13, <2>2, RowTypes
  <2>4. row = storedRows[key]
    BY <1>13, <1>15, <1>20, <2>1, <2>3 DEF RowType
  <2> QED
    BY <2>4
<1> QED
  BY <1>21, <1>22

(* A collect that succeeds leaves what one collection of the sources stores,
   whatever other commands did meanwhile and earlier ones had left: no file is
   missed (_iter_planned_batches) and no older copy stays (ingest_snapshot). *)
THEOREM DoneIsOneCollectionAlways == CollectSpec => []DoneIsOneCollection
<1>1. RInv => DoneIsOneCollection
  BY DoneIsWhole DEF DoneIsOneCollection
<1> QED
  BY <1>1, RowsInitially, RowsInductive, PTL DEF CollectSpec

(* However few batches of Claude Code's transcripts were imported, every row is
   the one that one collection makes (_transcript_groups). *)
THEOREM PartialImportsAgreeAlways == CollectSpec => []PartialImportsAgree
<1>1. RInv => PartialImportsAgree
  <2> SUFFICES ASSUME RInv, NEW p \in 1..Len(input), input[p].grouped,
                      NEW key \in DOMAIN OneCollection(p), storedRows[key] # NoRow
               PROVE  storedRows[key] = OneCollection(p)[key]
    BY DEF PartialImportsAgree
  <2>1. TypeOK /\ Sourced
    BY DEF RInv, IInv
  <2>2. key \in Conversations
    <3>1. AllFiles(input[p]) \in Seq(Files)
      BY <2>1, ProviderTypes
    <3>2. PICK i \in KeptCopies(AllFiles(input[p])) : AllFiles(input[p])[i].key = key
      BY RowOfSelected DEF OneCollection
    <3>3. i \in 1..Len(AllFiles(input[p])) /\ key # None
      BY <3>2 DEF KeptCopies
    <3>4. AllFiles(input[p])[i] \in Files
      BY <3>1, <3>3
    <3> QED
      BY <3>2, <3>3, <3>4 DEF Files
  <2>3. Source(key, storedRows[key])
    BY <2>1, <2>2 DEF Sourced
  <2> QED
    BY <2>1, <2>3, SourceOfKey
<1> QED
  BY <1>1, RowsInitially, RowsInductive, PTL DEF CollectSpec

(* A strict collect writes nothing unless none of the files is malformed nor, in
   batches, anything validation refuses (collect stages every batch first). *)
THEOREM StrictWritesWholesAlways == CollectSpec => []StrictWritesWholes
<1>1. RInv => StrictWritesWholes
  BY DEF RInv, Kept, Flawless, StrictWritesWholes
<1> QED
  BY <1>1, RowsInitially, RowsInductive, PTL DEF CollectSpec
=============================================================================
