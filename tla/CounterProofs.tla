----------------------------- MODULE CounterProofs -----------------------------
(***************************************************************************)
(* The counters of a conversation add up over its calls and its models,    *)
(* for as many calls as a log has, in every form of every coding tool.     *)
(***************************************************************************)
EXTENDS LogProofs

(* The counters of a conversation, for as many calls as it has. *)
TokenRecords == Nat \X Nat \X Nat \X Nat \X Nat \X Nat

Sum6(a) == a[1] + a[2] + a[3] + a[4] + a[5] + a[6]

(* tokens and add_tokens keep all that the limit leaves of the amounts. *)
LEMMA FilledIs ==
  ASSUME NEW a \in TokenRecords
  PROVE  Filled(a) \in TokenRecords /\ Total(Filled(a)) = Bounded(Sum6(a))
<1> DEFINE u1 == Bounded(a[1])
           u2 == Bounded(u1 + a[2])
           u3 == Bounded(u2 + a[3])
           u4 == Bounded(u3 + a[4])
           u5 == Bounded(u4 + a[5])
           u6 == Bounded(u5 + a[6])
<1>1. /\ a[1] \in Nat /\ a[2] \in Nat /\ a[3] \in Nat
      /\ a[4] \in Nat /\ a[5] \in Nat /\ a[6] \in Nat
  BY DEF TokenRecords
<1>2. Filled(a) = <<u1, u2 - u1, u3 - u2, u4 - u3, u5 - u4, u6 - u5>>
  BY DEF Filled
<1>3. /\ u1 = Bounded(a[1]) /\ u2 = Bounded(u1 + a[2]) /\ u3 = Bounded(u2 + a[3])
      /\ u4 = Bounded(u3 + a[4]) /\ u5 = Bounded(u4 + a[5]) /\ u6 = Bounded(u5 + a[6])
  OBVIOUS
<1> HIDE DEF u1, u2, u3, u4, u5, u6
<1>4. /\ u1 \in Nat /\ u2 \in Nat /\ u1 <= u2
      /\ u2 = Bounded(a[1] + a[2]) /\ a[1] + a[2] \in Nat
  BY <1>1, <1>3, MaxBigintAssumption DEF Bounded
<1>5. /\ u2 \in Nat /\ u3 \in Nat /\ u2 <= u3
      /\ u3 = Bounded(a[1] + a[2] + a[3]) /\ a[1] + a[2] + a[3] \in Nat
  BY <1>1, <1>3, <1>4, MaxBigintAssumption DEF Bounded
<1>6. /\ u3 \in Nat /\ u4 \in Nat /\ u3 <= u4
      /\ u4 = Bounded(a[1] + a[2] + a[3] + a[4]) /\ a[1] + a[2] + a[3] + a[4] \in Nat
  BY <1>1, <1>3, <1>5, MaxBigintAssumption DEF Bounded
<1>7. /\ u4 \in Nat /\ u5 \in Nat /\ u4 <= u5
      /\ u5 = Bounded(a[1] + a[2] + a[3] + a[4] + a[5])
      /\ a[1] + a[2] + a[3] + a[4] + a[5] \in Nat
  BY <1>1, <1>3, <1>6, MaxBigintAssumption DEF Bounded
<1>8. /\ u5 \in Nat /\ u6 \in Nat /\ u5 <= u6
      /\ u6 = Bounded(a[1] + a[2] + a[3] + a[4] + a[5] + a[6])
      /\ a[1] + a[2] + a[3] + a[4] + a[5] + a[6] \in Nat
  BY <1>1, <1>3, <1>7, MaxBigintAssumption DEF Bounded
<1>9. Filled(a) \in TokenRecords
  BY <1>2, <1>3, <1>4, <1>5, <1>6, <1>7, <1>8 DEF TokenRecords
<1>10. Total(Filled(a)) = u1 + (u2 - u1) + (u3 - u2) + ((u4 - u3) + (u5 - u4)) + (u6 - u5)
  BY <1>2 DEF Total, InputOf, OutputOf
<1>11. Total(Filled(a)) = u6
  BY <1>3, <1>4, <1>5, <1>6, <1>7, <1>8, <1>10
<1> QED
  BY <1>8, <1>9, <1>11 DEF Sum6

(* A record's total is the sum of its amounts. *)
LEMMA TotalIs ==
  ASSUME NEW a \in TokenRecords
  PROVE  Total(a) = Sum6(a) /\ Total(a) \in Nat
<1>1. /\ a[1] \in Nat /\ a[2] \in Nat /\ a[3] \in Nat
      /\ a[4] \in Nat /\ a[5] \in Nat /\ a[6] \in Nat
  BY DEF TokenRecords
<1> QED
  BY <1>1 DEF Total, InputOf, OutputOf, Sum6

(* What add_tokens adds is what the limit leaves of both. *)
LEMMA AddedIs ==
  ASSUME NEW target \in TokenRecords, NEW value \in TokenRecords
  PROVE  /\ AddTokens(target, value) \in TokenRecords
         /\ Total(AddTokens(target, value)) = Bounded(Total(target) + Total(value))
<1> DEFINE a == <<target[1] + value[1], target[2] + value[2], target[3] + value[3],
                  target[4] + value[4], target[5] + value[5], target[6] + value[6]>>
<1>1. /\ target[1] \in Nat /\ target[2] \in Nat /\ target[3] \in Nat
      /\ target[4] \in Nat /\ target[5] \in Nat /\ target[6] \in Nat
      /\ value[1] \in Nat /\ value[2] \in Nat /\ value[3] \in Nat
      /\ value[4] \in Nat /\ value[5] \in Nat /\ value[6] \in Nat
  BY DEF TokenRecords
<1>2. a \in TokenRecords
  BY <1>1 DEF TokenRecords
<1>3. Sum6(a) = Sum6(target) + Sum6(value)
  BY <1>1 DEF Sum6
<1>4. AddTokens(target, value) = Filled(a)
  BY DEF AddTokens, Plus
<1> HIDE DEF a
<1> QED
  BY <1>2, <1>3, <1>4, FilledIs, TotalIs

(* The calls of a draft, each with its tokens. *)
AreCalls(calls) == IsList(calls) /\ \A k \in 1..Len(calls) : calls[k].tokens \in TokenRecords

Sums(f, calls) ==
  /\ Summed(calls) = f[Len(calls)]
  /\ f[0] = NoTokens
  /\ \A k \in 1..Len(calls) : f[k] = AddTokens(f[k - 1], calls[k].tokens)

(* How the counters of calls are added up, call by call, *)
LEMMA Summing ==
  ASSUME NEW calls, AreCalls(calls)
  PROVE  \E f : Sums(f, calls)
<1> DEFINE n == Len(calls)
           Is(f) == f = [k \in 0..n |-> IF k = 0 THEN NoTokens
                                        ELSE AddTokens(f[k - 1], calls[k].tokens)]
<1>1. n \in Nat /\ \A k \in 1..n : calls[k].tokens \in TokenRecords
  BY DEF AreCalls, IsList
<1>2. Summed(calls) = (CHOOSE f : Is(f))[n]
  BY DEF Summed
<1> HIDE DEF n
<1>3. \E f : Is(f)
  <2> DEFINE step == [k \in 1..n |-> [v \in TokenRecords |-> AddTokens(v, calls[k].tokens)]]
  <2>1. ASSUME NEW k \in 1..n, NEW v \in TokenRecords
        PROVE  /\ step[k][v] = AddTokens(v, calls[k].tokens)
               /\ AddTokens(v, calls[k].tokens) \in TokenRecords
    BY <1>1, AddedIs
  <2>2. step \in [1..n -> [TokenRecords -> TokenRecords]]
    BY <2>1
  <2>3. NoTokens \in TokenRecords
    BY DEF NoTokens, TokenRecords
  <2> HIDE DEF step
  <2>4. PICK f : Iterates(f, n, TokenRecords, NoTokens, step)
    BY <1>1, <2>2, <2>3, Iterated
  <2>5. /\ f \in [0..n -> TokenRecords] /\ f[0] = NoTokens
        /\ \A k \in 1..n : f[k] = step[k][f[k - 1]]
    BY <2>4 DEF Iterates
  <2>6. ASSUME NEW k \in 0..n
        PROVE  f[k] = IF k = 0 THEN NoTokens ELSE AddTokens(f[k - 1], calls[k].tokens)
    <3>1. CASE k = 0
      BY <2>5, <3>1
    <3>2. CASE k # 0
      <4>1. k \in 1..n /\ k - 1 \in 0..n
        BY <1>1, <3>2
      <4>2. f[k] = step[k][f[k - 1]] /\ f[k - 1] \in TokenRecords
        BY <2>5, <4>1
      <4> QED
        BY <2>1, <3>2, <4>1, <4>2
    <3> QED
      BY <3>1, <3>2
  <2>7. f = [k \in 0..n |-> f[k]]
    BY <2>5
  <2>8. Is(f)
    BY <2>6, <2>7
  <2> HIDE DEF Is
  <2> QED
    BY <2>8
<1>4. PICK f : Is(f) /\ Summed(calls) = f[n]
  <2> HIDE DEF Is
  <2> QED
    BY <1>2, <1>3
<1>5. 0 \in 0..n /\ \A k \in 1..n : k \in 0..n /\ k # 0
  BY <1>1
<1>6. f[0] = NoTokens /\ \A k \in 1..n : f[k] = AddTokens(f[k - 1], calls[k].tokens)
  BY <1>4, <1>5
<1> HIDE DEF Is
<1> QED
  BY <1>4, <1>6 DEF Sums, n


Counted(f, calls) ==
  /\ TokensOf(calls) = f[Len(calls)] /\ AllTokens(calls) = Bounded(f[Len(calls)])
  /\ f[0] = 0
  /\ \A k \in 1..Len(calls) : f[k] = f[k - 1] + Total(calls[k].tokens)

(* and how the tokens of the calls themselves are. *)
LEMMA Counting ==
  ASSUME NEW calls, AreCalls(calls)
  PROVE  \E f : Counted(f, calls)
<1> DEFINE n == Len(calls)
           Is(f) == f = [k \in 0..n |-> IF k = 0 THEN 0 ELSE f[k - 1] + Total(calls[k].tokens)]
<1>1. n \in Nat /\ \A k \in 1..n : calls[k].tokens \in TokenRecords
  BY DEF AreCalls, IsList
<1>2. TokensOf(calls) = (CHOOSE f : Is(f))[n]
  BY DEF TokensOf
<1> HIDE DEF n
<1>3. \E f : Is(f)
  <2> DEFINE step == [k \in 1..n |-> [v \in Nat |-> v + Total(calls[k].tokens)]]
  <2>1. ASSUME NEW k \in 1..n, NEW v \in Nat
        PROVE  /\ step[k][v] = v + Total(calls[k].tokens)
               /\ v + Total(calls[k].tokens) \in Nat
    <3>1. Total(calls[k].tokens) \in Nat
      BY <1>1, TotalIs
    <3> QED
      BY <3>1
  <2>2. step \in [1..n -> [Nat -> Nat]]
    BY <2>1
  <2> HIDE DEF step
  <2>4. PICK f : Iterates(f, n, Nat, 0, step)
    BY <1>1, <2>2, Iterated
  <2>5. /\ f \in [0..n -> Nat] /\ f[0] = 0
        /\ \A k \in 1..n : f[k] = step[k][f[k - 1]]
    BY <2>4 DEF Iterates
  <2>6. ASSUME NEW k \in 0..n
        PROVE  f[k] = IF k = 0 THEN 0 ELSE f[k - 1] + Total(calls[k].tokens)
    <3>1. CASE k = 0
      BY <2>5, <3>1
    <3>2. CASE k # 0
      <4>1. k \in 1..n /\ k - 1 \in 0..n
        BY <1>1, <3>2
      <4>2. f[k] = step[k][f[k - 1]] /\ f[k - 1] \in Nat
        BY <2>5, <4>1
      <4> QED
        BY <2>1, <3>2, <4>1, <4>2
    <3> QED
      BY <3>1, <3>2
  <2>7. f = [k \in 0..n |-> f[k]]
    BY <2>5
  <2>8. Is(f)
    BY <2>6, <2>7
  <2> HIDE DEF Is
  <2> QED
    BY <2>8
<1>4. PICK f : Is(f) /\ TokensOf(calls) = f[n]
  <2> HIDE DEF Is
  <2> QED
    BY <1>2, <1>3
<1>5. 0 \in 0..n /\ \A k \in 1..n : k \in 0..n /\ k # 0
  BY <1>1
<1>6. f[0] = 0 /\ \A k \in 1..n : f[k] = f[k - 1] + Total(calls[k].tokens)
  BY <1>4, <1>5
<1> HIDE DEF Is
<1> QED
  BY <1>4, <1>6 DEF Counted, AllTokens, n

Picks(f, items, at) ==
  /\ Those(items, at) = f[Len(items)]
  /\ f[0] = <<>>
  /\ \A k \in 1..Len(items) : f[k] = IF k \in at THEN Append(f[k - 1], items[k]) ELSE f[k - 1]

(* How some items of a list are picked, *)
LEMMA Picking ==
  ASSUME NEW items, IsList(items), NEW at
  PROVE  \E f : Picks(f, items, at)
<1> DEFINE n == Len(items)
           R == Range(items)
           Is(f) == f = [k \in 0..n |->
                           IF k = 0 THEN <<>>
                           ELSE IF k \in at THEN Append(f[k - 1], items[k]) ELSE f[k - 1]]
<1>1. n \in Nat /\ \A k \in 1..n : items[k] \in R
  BY DEF IsList
<1>2. Those(items, at) = (CHOOSE f : Is(f))[n]
  BY DEF Those
<1> HIDE DEF n, R
<1>3. \E f : Is(f)
  <2> DEFINE V == Seq(R)
             step == [k \in 1..n |-> [v \in V |-> IF k \in at THEN Append(v, items[k]) ELSE v]]
  <2>1. ASSUME NEW k \in 1..n, NEW v \in V
        PROVE  /\ step[k][v] = IF k \in at THEN Append(v, items[k]) ELSE v
               /\ (IF k \in at THEN Append(v, items[k]) ELSE v) \in V
    <3>1. Append(v, items[k]) \in V
      BY <1>1
    <3> QED
      BY <3>1
  <2>2. <<>> \in V
    OBVIOUS
  <2> HIDE DEF V
  <2>3. step \in [1..n -> [V -> V]]
    BY <2>1
  <2> HIDE DEF step
  <2>4. PICK f : Iterates(f, n, V, <<>>, step)
    BY <1>1, <2>2, <2>3, Iterated
  <2>5. /\ f \in [0..n -> V] /\ f[0] = <<>>
        /\ \A k \in 1..n : f[k] = step[k][f[k - 1]]
    BY <2>4 DEF Iterates
  <2>6. ASSUME NEW k \in 0..n
        PROVE  f[k] = IF k = 0 THEN <<>>
                      ELSE IF k \in at THEN Append(f[k - 1], items[k]) ELSE f[k - 1]
    <3>1. CASE k = 0
      BY <2>5, <3>1
    <3>2. CASE k # 0
      <4>1. k \in 1..n /\ k - 1 \in 0..n
        BY <1>1, <3>2
      <4>2. f[k] = step[k][f[k - 1]] /\ f[k - 1] \in V
        BY <2>5, <4>1
      <4> QED
        BY <2>1, <3>2, <4>1, <4>2
    <3> QED
      BY <3>1, <3>2
  <2>7. f = [k \in 0..n |-> f[k]]
    BY <2>5
  <2>8. Is(f)
    BY <2>6, <2>7
  <2> HIDE DEF Is
  <2> QED
    BY <2>8
<1>4. PICK f : Is(f) /\ Those(items, at) = f[n]
  <2> HIDE DEF Is
  <2> QED
    BY <1>2, <1>3
<1>5. 0 \in 0..n /\ \A k \in 1..n : k \in 0..n /\ k # 0
  BY <1>1
<1>6. /\ f[0] = <<>>
      /\ \A k \in 1..n : f[k] = IF k \in at THEN Append(f[k - 1], items[k]) ELSE f[k - 1]
  BY <1>4, <1>5
<1> HIDE DEF Is
<1> QED
  BY <1>4, <1>6 DEF Picks, n

(* and that they are items of the list, one for each place. *)
PickedFrom(those, items, places) ==
  \A p \in 1..Len(those) : \E k \in places : those[p] = items[k]

LEMMA Picked ==
  ASSUME NEW items, IsList(items), NEW at
  PROVE  /\ IsList(Those(items, at))
         /\ PickedFrom(Those(items, at), items, at \cap 1..Len(items))
<1> DEFINE n == Len(items)
           R == Range(items)
<1>1. n \in Nat /\ (\A k \in 1..n : items[k] \in R)
  BY DEF IsList
<1>2. PICK f : Picks(f, items, at)
  BY Picking
<1>3. /\ Those(items, at) = f[n]
      /\ f[0] = <<>>
      /\ \A k \in 1..n : f[k] = IF k \in at THEN Append(f[k - 1], items[k]) ELSE f[k - 1]
  BY <1>2 DEF Picks
<1> HIDE DEF n, R
<1> DEFINE S == {k \in 0..n : f[k] \in Seq(R) /\ PickedFrom(f[k], items, at \cap 1..k)}
<1>4. 0 \in S
  <2>1. 0 \in 0..n /\ <<>> \in Seq(R) /\ PickedFrom(<<>>, items, at \cap 1..0)
    BY <1>1 DEF PickedFrom
  <2> QED
    BY <1>3, <2>1
<1>5. ASSUME NEW k \in 0..n - 1, k \in S PROVE k + 1 \in S
  <2>1. k + 1 \in 1..n /\ k + 1 \in 0..n /\ (k + 1) - 1 = k /\ f[k] \in Seq(R)
    BY <1>1, <1>5
  <2>2. Append(f[k], items[k + 1]) \in Seq(R)
    BY <1>1, <2>1
  <2>3. f[k + 1] = IF k + 1 \in at THEN Append(f[k], items[k + 1]) ELSE f[k]
    BY <1>3, <2>1
  <2>4. \A p \in 1..Len(f[k]) : \E l \in at \cap 1..k + 1 : f[k][p] = items[l]
    <3>1. \A p \in 1..Len(f[k]) : \E l \in at \cap 1..k : f[k][p] = items[l]
      BY <1>5 DEF PickedFrom
    <3>2. \A l \in at \cap 1..k : l \in at \cap 1..k + 1
      BY <2>1
    <3> QED
      BY <3>1, <3>2
  <2>5. CASE k + 1 \in at
    <3> DEFINE now == f[k]
               next == Append(now, items[k + 1])
    <3>1. now \in Seq(R) /\ items[k + 1] \in R
      BY <1>1, <2>1
    <3> HIDE DEF now
    <3>2. /\ Len(next) = Len(now) + 1 /\ next[Len(now) + 1] = items[k + 1] /\ Len(now) \in Nat
          /\ \A p \in 1..Len(now) : next[p] = now[p]
      BY <3>1
    <3> HIDE DEF next
    <3>3. k + 1 \in at \cap 1..k + 1
      BY <2>1, <2>5
    <3>4. \A p \in 1..Len(next) : p \in 1..Len(now) \/ p = Len(now) + 1
      BY <3>2
    <3>5. \A p \in 1..Len(next) : \E l \in at \cap 1..k + 1 : next[p] = items[l]
      BY <2>4, <3>2, <3>3, <3>4 DEF now
    <3>6. PickedFrom(next, items, at \cap 1..k + 1)
      BY <3>5 DEF PickedFrom
    <3> QED
      BY <2>1, <2>2, <2>3, <2>5, <3>6 DEF next, now
  <2>6. CASE k + 1 \notin at
    <3>1. PickedFrom(f[k + 1], items, at \cap 1..k + 1)
      BY <2>3, <2>4, <2>6 DEF PickedFrom
    <3> QED
      BY <2>1, <2>3, <2>6, <3>1
  <2> QED
    BY <2>5, <2>6
<1> HIDE DEF S
<1>6. n \in S
  <2>1. \A k \in 0..n : k \in S
    BY <1>1, <1>4, <1>5, Induction
  <2> QED
    BY <1>1, <2>1
<1>7. Those(items, at) \in Seq(R) /\ PickedFrom(Those(items, at), items, at \cap 1..n)
  BY <1>3, <1>6 DEF S
<1>8. IsList(Those(items, at))
  <2> DEFINE those == Those(items, at)
             here == Range(those)
  <2>1. those \in Seq(R) /\ DOMAIN those = 1..Len(those) /\ Len(those) \in Nat
    BY <1>7
  <2>2. \A k \in 1..Len(those) : those[k] \in here
    BY <2>1 DEF Range
  <2> HIDE DEF here, those
  <2>3. those \in Seq(here)
    BY <2>1, <2>2
  <2> QED
    BY <2>3 DEF IsList, here, those
<1> QED
  BY <1>7, <1>8 DEF n

(* Of some calls, all are calls, *)
LEMMA PickedAreCalls ==
  ASSUME NEW calls, AreCalls(calls), NEW at
  PROVE  AreCalls(Those(calls, at))
<1>1. IsList(calls) /\ \A k \in 1..Len(calls) : calls[k].tokens \in TokenRecords
  BY DEF AreCalls
<1>2. IsList(Those(calls, at)) /\ PickedFrom(Those(calls, at), calls, at \cap 1..Len(calls))
  BY <1>1, Picked
<1> QED
  BY <1>1, <1>2 DEF AreCalls, PickedFrom

(* and a counter is what the limit leaves of the tokens of its calls. *)
LEMMA SummedIs ==
  ASSUME NEW calls, AreCalls(calls)
  PROVE  Total(Summed(calls)) = AllTokens(calls)
<1> DEFINE n == Len(calls)
<1>1. n \in Nat /\ \A k \in 1..n : calls[k].tokens \in TokenRecords
  BY DEF AreCalls, IsList
<1>2. PICK f : Sums(f, calls)
  BY Summing
<1>3. PICK g : Counted(g, calls)
  BY Counting
<1>4. /\ Summed(calls) = f[n] /\ AllTokens(calls) = Bounded(g[n])
      /\ f[0] = NoTokens /\ g[0] = 0
      /\ \A k \in 1..n : /\ f[k] = AddTokens(f[k - 1], calls[k].tokens)
                         /\ g[k] = g[k - 1] + Total(calls[k].tokens)
  BY <1>2, <1>3 DEF Sums, Counted
<1> HIDE DEF n
<1> DEFINE S == {k \in 0..n : /\ f[k] \in TokenRecords /\ g[k] \in Nat
                              /\ Total(f[k]) = Bounded(g[k])}
<1>5. 0 \in S
  <2>1. NoTokens \in TokenRecords /\ Total(NoTokens) = 0 /\ Bounded(0) = 0
    BY MaxBigintAssumption DEF TokenRecords, NoTokens, Total, InputOf, OutputOf, Bounded
  <2>2. 0 \in 0..n
    BY <1>1
  <2> QED
    BY <1>4, <2>1, <2>2
<1>6. ASSUME NEW k \in 0..n - 1, k \in S PROVE k + 1 \in S
  <2> DEFINE more == calls[k + 1].tokens
  <2>1. k + 1 \in 1..n /\ k + 1 \in 0..n /\ (k + 1) - 1 = k
    BY <1>1
  <2>2. f[k] \in TokenRecords /\ g[k] \in Nat /\ Total(f[k]) = Bounded(g[k])
    BY <1>6
  <2>3. more \in TokenRecords /\ f[k + 1] = AddTokens(f[k], more)
        /\ g[k + 1] = g[k] + Total(more)
    BY <1>1, <1>4, <2>1
  <2> HIDE DEF more
  <2>4. Total(more) \in Nat /\ f[k + 1] \in TokenRecords
        /\ Total(f[k + 1]) = Bounded(Total(f[k]) + Total(more))
    BY <2>2, <2>3, TotalIs, AddedIs
  <2>5. Total(f[k + 1]) = Bounded(g[k + 1]) /\ g[k + 1] \in Nat
    BY <2>2, <2>3, <2>4, MaxBigintAssumption DEF Bounded
  <2> QED
    BY <2>1, <2>4, <2>5
<1> HIDE DEF S
<1>7. n \in S
  <2>1. \A k \in 0..n : k \in S
    BY <1>1, <1>5, <1>6, Induction
  <2> QED
    BY <1>1, <2>1
<1> QED
  BY <1>4, <1>7 DEF S

(* Of every draft of a conversation, with any number of turns, calls and tools,    *)
(* the rows add up: the counters of the conversation and of each turn are the      *)
(* numbers and the bounded tokens of the calls and tools under them.               *)
THEOREM RowsAddUp ==
  ASSUME NEW draft, AreCalls(draft.calls), IsList(draft.turns), "aggregate" \notin Traits,
         \A i, j \in DOMAIN draft.turns : draft.turns[i].key = draft.turns[j].key => i = j
  PROVE  AddsUp(Rows(draft))
<1> DEFINE rows == Rows(draft)
<1>1. /\ rows.calls = draft.calls /\ rows.tools = draft.tools
      /\ rows.totals.calls = Len(draft.calls) /\ rows.totals.tools = Len(draft.tools)
      /\ rows.totals.tokens = Summed(draft.calls)
      /\ DOMAIN rows.turns = DOMAIN draft.turns
  BY DEF Rows
<1>2. ASSUME NEW i \in DOMAIN draft.turns
      PROVE  /\ rows.turns[i].key = draft.turns[i].key
             /\ rows.turns[i].calls = Len(InTurn(draft.calls, i))
             /\ rows.turns[i].tokens = Summed(InTurn(draft.calls, i))
  BY DEF Rows
<1> HIDE DEF rows
<1>3. Total(rows.totals.tokens) = AllTokens(rows.calls)
  BY <1>1, SummedIs
<1>4. ASSUME NEW i \in DOMAIN rows.turns
      PROVE  /\ rows.turns[i].calls = Len(InTurn(rows.calls, i))
             /\ Total(rows.turns[i].tokens) = AllTokens(InTurn(rows.calls, i))
             /\ \A j \in DOMAIN rows.turns : rows.turns[i].key = rows.turns[j].key => i = j
  <2>1. AreCalls(InTurn(draft.calls, i))
    BY PickedAreCalls DEF InTurn
  <2> QED
    BY <1>1, <1>2, <2>1, SummedIs
<1>5. AddsUp(rows)
  BY <1>1, <1>3, <1>4 DEF AddsUp
<1> QED
  BY <1>5 DEF rows


(* What an adapter makes of the draft when it reads record k. *)
Step(tool, log, draft, k) ==
  CASE tool = "pi" -> PiNormalized(log, draft, k)
    [] tool = "qwen" -> QwenNormalized(draft, log[k])
    [] tool = "codex" -> CodexNormalized(draft, log[k])
    [] tool = "claude" -> ClaudeRead(draft, log[k], k)
    [] tool = "claude calls" -> ClaudeCalled(log, draft, k)
    [] tool = "copilot" -> CopilotNormalized(draft, log[k])
    [] tool = "opencode" -> OpenCodeNormalized(draft, log[k])
    [] tool = "aider" -> AiderNormalized(draft, log[k])
    [] tool = "cursor" -> CursorNormalized(draft, log[k])
    [] tool = "cline" -> ClineNormalized(draft, log[k])
    [] tool = "mistral-vibe" -> VibeNormalized(draft, log[k])
    [] tool = "amazon-q" -> AmazonQNormalized(draft, log[k])
    [] tool = "plandex" -> PlandexNormalized(draft, log[k])
    [] tool = "kimi" -> KimiNormalized(draft, log[k])
    [] tool = "openhands" -> OpenHandsNormalized(draft, log[k])
    [] tool = "continue" -> ContinueNormalized(draft, log[k])
    [] tool = "amp" -> AmpNormalized(draft, log[k])
    [] tool = "crush" -> CrushNormalized(draft, log[k])
    [] tool = "goose" -> GooseNormalized(draft, log[k])
    [] tool = "goose calls" -> GooseCharged(draft, log[k])
    [] tool = "kilo" -> KiloNormalized(draft, log[k])
    [] tool = "gemini" -> GeminiNormalized(draft, log[k])
    [] tool = "gemini messages" -> GeminiApplied(draft, log[k])
    [] tool = "gemini log" -> GeminiApplied(draft, GeminiRecord(log, k, draft))
    [] tool = "grok" -> GrokUpdated(draft, log[k])
    [] tool = "grok events" -> GrokStarted(draft, log[k])
    [] tool = "grok terminals" -> GrokTold(draft, log[k])
    [] tool = "grok ends" -> GrokApplied(log, draft, k)
    [] tool = "grok metadata" -> GrokMetadata(draft, log[k])
    [] tool = "grok calls" -> GrokCharged(log, draft, k)
    [] tool = "grok total" -> GrokAddEach(draft, log[k].tokens)

(* It reads the records one by one. *)
ReadsOn(f, tool, log, start, n) ==
  f = [k \in 0..n |-> IF k = 0 THEN start ELSE Step(tool, log, f[k - 1], k)]

LEMMA ReadOn ==
  ASSUME NEW tool, NEW log, NEW start, NEW n \in Nat
  PROVE  \E f : ReadsOn(f, tool, log, start, n)
<1> DEFINE S == {m \in 0..n : \E f : ReadsOn(f, tool, log, start, m)}
<1>1. 0 \in S
  <2> DEFINE f == [k \in 0..0 |-> start]
  <2>1. f = [k \in 0..0 |-> IF k = 0 THEN start ELSE Step(tool, log, f[k - 1], k)]
    OBVIOUS
  <2>2. ReadsOn(f, tool, log, start, 0)
    <3> HIDE DEF f
    <3> QED
      BY <2>1 DEF ReadsOn
  <2> HIDE DEF f
  <2> QED
    BY <2>2
<1>2. ASSUME NEW m \in 0..n - 1, m \in S PROVE m + 1 \in S
  <2>1. PICK f : ReadsOn(f, tool, log, start, m)
    BY <1>2
  <2>2. ASSUME NEW k \in 0..m
        PROVE  f[k] = IF k = 0 THEN start ELSE Step(tool, log, f[k - 1], k)
    BY <2>1 DEF ReadsOn
  <2> DEFINE g == [k \in 0..m + 1 |-> IF k = m + 1 THEN Step(tool, log, f[m], m + 1) ELSE f[k]]
  <2>3. ASSUME NEW k \in 0..m + 1
        PROVE  g[k] = IF k = 0 THEN start ELSE Step(tool, log, g[k - 1], k)
    <3>1. CASE k = m + 1
      <4>1. g[k] = Step(tool, log, f[m], m + 1) /\ g[k - 1] = f[m] /\ k # 0
        BY <3>1
      <4> HIDE DEF g
      <4> QED
        BY <3>1, <4>1
    <3>2. CASE k # m + 1
      <4>1. k \in 0..m /\ g[k] = f[k] /\ (k # 0 => g[k - 1] = f[k - 1])
        BY <3>2
      <4> HIDE DEF g
      <4> QED
        BY <2>2, <4>1
    <3> QED
      BY <3>1, <3>2
  <2>4. g = [k \in 0..m + 1 |-> g[k]]
    OBVIOUS
  <2> HIDE DEF g
  <2>5. ReadsOn(g, tool, log, start, m + 1)
    BY <2>3, <2>4 DEF ReadsOn
  <2>6. m + 1 \in 0..n
    OBVIOUS
  <2> QED
    BY <2>5, <2>6
<1> HIDE DEF S
<1>3. \A m \in 0..n : m \in S
  BY <1>1, <1>2, Induction
<1> QED
  BY <1>3 DEF S

Statuses == {"in-progress", "completed", "aborted"}

(* A draft in the making: its turns have keys of their own, out of some keys. *)
GoodDraft(draft, keys) ==
  /\ draft = [field \in DOMAIN draft |-> draft[field]]
  /\ {"turns", "active", "calls", "tools", "compactions"} \subseteq DOMAIN draft
  /\ draft.turns \in Seq([key : Nat, status : Statuses])
  /\ \A i \in 1..Len(draft.turns) : draft.turns[i].key \in keys
  /\ \A i, j \in 1..Len(draft.turns) : draft.turns[i].key = draft.turns[j].key => i = j
  /\ AreCalls(draft.calls)

(* It is one at first, *)
LEMMA GoodAtFirst == \A keys : GoodDraft(NoDraft, keys)
<1>1. AreCalls(<<>>)
  BY WrittenOut DEF AreCalls
<1> QED
  BY <1>1 DEF GoodDraft, NoDraft

(* also of more keys, *)
LEMMA GoodOfMore ==
  \A draft, keys, more : GoodDraft(draft, keys) /\ keys \subseteq more => GoodDraft(draft, more)
BY DEF GoodDraft

(* whatever is counted beside, *)
LEMMA GoodBeside ==
  ASSUME NEW draft, NEW keys, GoodDraft(draft, keys), NEW field, field \notin {"turns", "calls"}, NEW v
  PROVE  GoodDraft([draft EXCEPT ![field] = v], keys)
<1> DEFINE new == [draft EXCEPT ![field] = v]
<1>1. /\ new = [x \in DOMAIN new |-> new[x]] /\ DOMAIN new = DOMAIN draft
      /\ new.turns = draft.turns /\ new.calls = draft.calls
  BY DEF GoodDraft
<1> HIDE DEF new
<1>2. GoodDraft(new, keys)
  BY <1>1 DEF GoodDraft
<1> QED
  BY <1>2 DEF new

(* with other calls, *)
LEMMA GoodOfCalls ==
  ASSUME NEW draft, NEW keys, GoodDraft(draft, keys), NEW calls, AreCalls(calls)
  PROVE  GoodDraft([draft EXCEPT !.calls = calls], keys)
<1> DEFINE new == [draft EXCEPT !.calls = calls]
<1>1. /\ new = [x \in DOMAIN new |-> new[x]] /\ DOMAIN new = DOMAIN draft
      /\ new.turns = draft.turns /\ new.calls = calls
  BY DEF GoodDraft
<1> HIDE DEF new
<1>2. GoodDraft(new, keys)
  BY <1>1 DEF GoodDraft
<1> QED
  BY <1>2 DEF new

(* with other turns of the same keys, *)
LEMMA GoodOfTurns ==
  ASSUME NEW draft, NEW keys, GoodDraft(draft, keys), NEW turns \in Seq([key : Nat, status : Statuses]),
         Len(turns) = Len(draft.turns), \A i \in 1..Len(turns) : turns[i].key = draft.turns[i].key
  PROVE  GoodDraft([draft EXCEPT !.turns = turns], keys)
<1> DEFINE new == [draft EXCEPT !.turns = turns]
<1>1. /\ new = [x \in DOMAIN new |-> new[x]] /\ DOMAIN new = DOMAIN draft
      /\ new.turns = turns /\ new.calls = draft.calls
  BY DEF GoodDraft
<1> HIDE DEF new
<1>2. GoodDraft(new, keys)
  BY <1>1 DEF GoodDraft
<1> QED
  BY <1>2 DEF new

(* when a turn is marked, *)
LEMMA GoodMarked ==
  ASSUME NEW draft, NEW keys, GoodDraft(draft, keys), NEW turn, NEW status \in Statuses
  PROVE  GoodDraft(Marked(draft, turn, status), keys)
<1> DEFINE T == [key : Nat, status : Statuses]
           turns == draft.turns
           new == [turns EXCEPT ![turn].status = status]
<1>1. turns \in Seq(T)
  BY DEF GoodDraft
<1> HIDE DEF turns
<1>2. new \in Seq(T) /\ Len(new) = Len(turns) /\ \A i \in 1..Len(new) : new[i].key = turns[i].key
  <2>1. CASE turn \in 1..Len(turns)
    <3>1. turns[turn] \in T
      <4> HIDE DEF T
      <4> QED
        BY <1>1, <2>1
    <3> DEFINE one == [turns[turn] EXCEPT !.status = status]
    <3>2. one \in T /\ one.key = turns[turn].key
      BY <3>1
    <3>3. new = [turns EXCEPT ![turn] = one]
      OBVIOUS
    <3> HIDE DEF one, T
    <3> QED
      BY <1>1, <2>1, <3>2, <3>3
  <2>2. CASE turn \notin 1..Len(turns)
    <3>1. new = turns
      BY <1>1, <2>2
    <3> QED
      BY <1>1, <3>1
  <2> QED
    BY <2>1, <2>2
<1>3. GoodDraft([draft EXCEPT !.turns = new], keys)
  <2> HIDE DEF new
  <2> QED
    BY <1>2, GoodOfTurns DEF turns
<1>4. Marked(draft, turn, status) = draft \/ Marked(draft, turn, status) = [draft EXCEPT !.turns = new]
  BY DEF Marked, turns
<1> QED
  BY <1>3, <1>4

(* when a call or a tool is added, *)
LEMMA MoreCalls ==
  ASSUME NEW calls, NEW more, AreCalls(calls), AreCalls(more)
  PROVE  AreCalls(calls \o more)
<1>1. IsList(calls \o more) /\ Len(calls \o more) = Len(calls) + Len(more)
  BY Joined DEF AreCalls
<1>2. \A k \in 1..Len(calls) + Len(more) :
        (calls \o more)[k] = IF k <= Len(calls) THEN calls[k] ELSE more[k - Len(calls)]
  BY DEF AreCalls, IsList
<1>3. Len(calls) \in Nat /\ Len(more) \in Nat
  BY DEF AreCalls, IsList
<1>4. ASSUME NEW k \in 1..Len(calls \o more) PROVE (calls \o more)[k].tokens \in TokenRecords
  BY <1>1, <1>2, <1>3 DEF AreCalls
<1> QED
  BY <1>1, <1>4 DEF AreCalls

LEMMA GoodCalled ==
  ASSUME NEW draft, NEW keys, GoodDraft(draft, keys), NEW turn, NEW tokens \in TokenRecords
  PROVE  GoodDraft(Called(draft, turn, tokens), keys)
<1> DEFINE call == [turn |-> turn, tokens |-> tokens]
           calls == draft.calls
           more == Append(calls, call)
<1>1. AreCalls(calls)
  BY DEF GoodDraft
<1>2. IsList(more) /\ Len(more) = Len(calls) + 1 /\ more[Len(calls) + 1] = call
      /\ \A i \in 1..Len(calls) : more[i] = calls[i]
  <2> HIDE DEF call, calls
  <2> QED
    BY <1>1, SameStarts DEF AreCalls
<1>3. AreCalls(more)
  <2>1. Len(calls) \in Nat /\ call.tokens \in TokenRecords
    BY <1>1 DEF AreCalls, IsList
  <2> HIDE DEF more, calls, call
  <2>2. \A i \in 1..Len(more) : i \in 1..Len(calls) \/ i = Len(calls) + 1
    BY <1>2, <2>1
  <2> QED
    BY <1>1, <1>2, <2>1, <2>2 DEF AreCalls
<1>4. Called(draft, turn, tokens) = [draft EXCEPT !.calls = more]
  BY DEF Called
<1> HIDE DEF more
<1> QED
  BY <1>3, <1>4, GoodOfCalls

LEMMA GoodToolUsed ==
  ASSUME NEW draft, NEW keys, GoodDraft(draft, keys), NEW turn, NEW used
  PROVE  GoodDraft(ToolUsed(draft, turn, used), keys)
<1>1. ToolUsed(draft, turn, used) = draft
      \/ \E v : ToolUsed(draft, turn, used) = [draft EXCEPT !["tools"] = v]
  BY DEF ToolUsed
<1> QED
  BY <1>1, GoodBeside

(* and when a turn is opened with a key that no other one has. *)
LEMMA GoodOpened ==
  ASSUME NEW draft, NEW keys, GoodDraft(draft, keys), NEW key \in Nat,
         \A i \in 1..Len(draft.turns) : draft.turns[i].key # key, NEW more, keys \cup {key} \subseteq more
  PROVE  GoodDraft(Opened(draft, key), more)
<1> DEFINE T == [key : Nat, status : Statuses]
           turns == draft.turns
           one == [key |-> key, status |-> "in-progress"]
           longer == Append(turns, one)
           new == [draft EXCEPT !.turns = longer]
<1>1. turns \in Seq(T) /\ one \in T
  <2>1. turns \in Seq(T)
    BY DEF GoodDraft
  <2>2. "in-progress" \in Statuses
    BY DEF Statuses
  <2>3. one \in T
    BY <2>2
  <2> QED
    BY <2>1, <2>3
<1>2. /\ longer \in Seq(T) /\ Len(longer) = Len(turns) + 1 /\ longer[Len(turns) + 1] = one
      /\ Len(turns) \in Nat /\ \A i \in 1..Len(turns) : longer[i] = turns[i]
  <2> HIDE DEF turns, one, T
  <2> QED
    BY <1>1
<1>3. /\ new = [x \in DOMAIN new |-> new[x]] /\ DOMAIN new = DOMAIN draft
      /\ new.turns = longer /\ new.calls = draft.calls
  <2> HIDE DEF longer
  <2> QED
    BY DEF GoodDraft
<1>4. Opened(draft, key) = [new EXCEPT !["active"] = Len(turns) + 1]
  BY DEF Opened
<1>5. one.key = key
  OBVIOUS
<1>6. /\ \A i \in 1..Len(turns) : turns[i].key \in keys /\ turns[i].key # key
      /\ \A i, j \in 1..Len(turns) : turns[i].key = turns[j].key => i = j
  BY DEF GoodDraft
<1> HIDE DEF turns, one, longer, new
<1>7. \A i \in 1..Len(longer) : i \in 1..Len(turns) \/ i = Len(turns) + 1
  BY <1>2
<1>8. \A i \in 1..Len(longer) : longer[i].key \in more
  BY <1>2, <1>5, <1>6, <1>7
<1>9. \A i, j \in 1..Len(longer) : longer[i].key = longer[j].key => i = j
  BY <1>2, <1>5, <1>6, <1>7
<1>10. GoodDraft(new, more)
  BY <1>2, <1>3, <1>8, <1>9 DEF GoodDraft
<1>11. "active" \notin {"turns", "calls"}
  OBVIOUS
<1>12. GoodDraft([new EXCEPT !["active"] = Len(turns) + 1], more)
  BY <1>10, <1>11, GoodBeside
<1> QED
  BY <1>4, <1>12


(* Responses with what they used. *)
Used(usages) == IsList(usages) /\ \A u \in 1..Len(usages) : usages[u] \in TokenRecords

GoodResponses(responses) ==
  IsList(responses) /\ \A k \in 1..Len(responses) : Used(responses[k].usages)

\* Calls that are written out as rows.
Written(calls) ==
  \A k \in 1..Len(calls) : calls[k] = [turn |-> calls[k].turn, tokens |-> calls[k].tokens]

(* What adapters keep beside the draft. *)
Beside(tool, draft) ==
  CASE tool = "aider" -> \A i \in 1..Len(draft.turns) : draft.turns[i].key = i
    [] tool = "copilot" -> "shutdown" \in DOMAIN draft /\ (draft.shutdown # <<>> =>
                               CopilotUsage(draft.shutdown[1].usage) \in TokenRecords)
    [] tool = "mistral-vibe" -> \A k \in 1..Len(draft.calls) :
                               draft.calls[k] = [turn |-> draft.calls[k].turn, tokens |-> NoTokens]
    [] tool = "continue" -> "told" \in DOMAIN draft /\ draft.told \in
                               [{"prompt", "completion", "cached", "reasoning"} -> Nat]
    [] tool = "openhands" -> "responses" \in DOMAIN draft /\ IsList(draft.responses)
    [] tool = "claude" -> "responses" \in DOMAIN draft /\ GoodResponses(draft.responses)
    [] tool = "crush" -> Written(draft.calls)
    [] OTHER -> TRUE

(* The first ids. *)
Upto(ids, k) == {ids[j] : j \in 1..k}

(* A draft stays one when a record opens a turn with an id of its own, *)
LEMMA OpenedNext ==
  ASSUME NEW ids, NEW k \in Nat \ {0}, ids[k] \in Nat, \A j \in 1..k - 1 : ids[j] # ids[k],
         NEW draft, GoodDraft(draft, Upto(ids, k - 1))
  PROVE  GoodDraft(Opened(draft, ids[k]), Upto(ids, k))
<1> DEFINE keys == Upto(ids, k - 1)
           more == Upto(ids, k)
           key == ids[k]
<1>1. \A i \in 1..Len(draft.turns) : draft.turns[i].key # key
  <2>1. \A x \in keys : x # key
    BY DEF Upto
  <2>2. \A i \in 1..Len(draft.turns) : draft.turns[i].key \in keys
    BY DEF GoodDraft
  <2> HIDE DEF keys, key
  <2> QED
    BY <2>1, <2>2
<1>2. keys \cup {key} \subseteq more
  BY DEF Upto
<1>3. key \in Nat /\ GoodDraft(draft, keys)
  OBVIOUS
<1> HIDE DEF keys, more, key
<1>4. GoodDraft(Opened(draft, key), more)
  BY <1>1, <1>2, <1>3, GoodOpened
<1> QED
  BY <1>4 DEF key, more

(* and when it opens none. *)
LEMMA GoodNext ==
  ASSUME NEW ids, NEW k \in Nat \ {0}, NEW draft, GoodDraft(draft, Upto(ids, k - 1))
  PROVE  GoodDraft(draft, Upto(ids, k))
<1>1. Upto(ids, k - 1) \subseteq Upto(ids, k)
  BY DEF Upto
<1> QED
  BY <1>1, GoodOfMore

(* What the adapter reads from a log keeps what each record keeps. *)
KeepsGood(tool, log, ids, k) ==
  \A draft : GoodDraft(draft, Upto(ids, k - 1)) /\ Beside(tool, draft)
               => /\ GoodDraft(Step(tool, log, draft, k), Upto(ids, k))
                  /\ Beside(tool, Step(tool, log, draft, k))

ReadTo(tool, log, start, n, draft) ==
  \E f : ReadsOn(f, tool, log, start, n) /\ draft = f[n]

LEMMA ReadGood ==
  ASSUME NEW tool, NEW log, NEW start, NEW n \in Nat, NEW ids, NEW draft,
         ReadTo(tool, log, start, n, draft),
         GoodDraft(start, {}), Beside(tool, start), \A k \in 1..n : KeepsGood(tool, log, ids, k)
  PROVE  GoodDraft(draft, Upto(ids, n)) /\ Beside(tool, draft)
<1>1. PICK f : ReadsOn(f, tool, log, start, n) /\ draft = f[n]
  BY DEF ReadTo
<1>2. \A k \in 0..n : f[k] = IF k = 0 THEN start ELSE Step(tool, log, f[k - 1], k)
  BY <1>1 DEF ReadsOn
<1> DEFINE S == {k \in 0..n : GoodDraft(f[k], Upto(ids, k)) /\ Beside(tool, f[k])}
<1>3. 0 \in S
  <2>1. {} \subseteq Upto(ids, 0)
    OBVIOUS
  <2>2. GoodDraft(start, Upto(ids, 0))
    BY <2>1, GoodOfMore
  <2> QED
    BY <1>2, <2>2
<1>4. ASSUME NEW k \in 0..n - 1, k \in S PROVE k + 1 \in S
  <2>1. k + 1 \in 1..n /\ k + 1 \in 0..n /\ (k + 1) - 1 = k /\ k + 1 # 0
    OBVIOUS
  <2>2. f[k + 1] = Step(tool, log, f[k], k + 1)
    BY <1>2, <2>1
  <2>3. KeepsGood(tool, log, ids, k + 1) /\ GoodDraft(f[k], Upto(ids, k)) /\ Beside(tool, f[k])
    BY <1>4, <2>1
  <2> QED
    BY <2>1, <2>2, <2>3 DEF KeepsGood
<1> HIDE DEF S
<1>5. \A k \in 0..n : k \in S
  BY <1>3, <1>4, Induction
<1> QED
  BY <1>1, <1>5 DEF S

(* The rows of such a draft. *)
RowsOfGood(rows) == \E draft : GoodDraft(draft, Nat) /\ rows = Rows(draft)

LEMMA GoodAddsUp ==
  ASSUME NEW rows, RowsOfGood(rows), "aggregate" \notin Traits
  PROVE  AddsUp(rows)
<1>1. PICK draft : GoodDraft(draft, Nat) /\ rows = Rows(draft)
  BY DEF RowsOfGood
<1> DEFINE T == [key : Nat, status : Statuses]
           list == draft.turns
<1>2. /\ list \in Seq(T) /\ AreCalls(draft.calls)
      /\ \A i, j \in 1..Len(list) : list[i].key = list[j].key => i = j
  BY <1>1 DEF GoodDraft
<1> HIDE DEF T, list
<1>3. DOMAIN list = 1..Len(list) /\ Len(list) \in Nat
  BY <1>2
<1>4. \A k \in 1..Len(list) : list[k] \in Range(list)
  BY <1>3 DEF Range
<1>5. IsList(list) /\ \A i, j \in DOMAIN list : list[i].key = list[j].key => i = j
  BY <1>2, <1>3, <1>4 DEF IsList
<1> QED
  BY <1>1, <1>2, <1>5, RowsAddUp DEF list

(* The tokens of a record. *)
LEMMA UseIs ==
  ASSUME NEW use \in TokenRecords
  PROVE  /\ use[1] \in Nat /\ use[2] \in Nat /\ use[3] \in Nat
         /\ use[4] \in Nat /\ use[5] \in Nat /\ use[6] \in Nat
         /\ InputOf(use) \in Nat /\ OutputOf(use) \in Nat /\ Total(use) \in Nat
<1>1. /\ use[1] \in Nat /\ use[2] \in Nat /\ use[3] \in Nat
      /\ use[4] \in Nat /\ use[5] \in Nat /\ use[6] \in Nat
  BY DEF TokenRecords
<1> QED
  BY <1>1 DEF Total, InputOf, OutputOf

LEMMA TokensAre ==
  ASSUME NEW a \in Nat, NEW b \in Nat, NEW c \in Nat, NEW d \in Nat, NEW e \in Nat, NEW t \in Nat
  PROVE  Tokens(a, b, c, d, e, t) \in TokenRecords
<1> DEFINE rest == Over(t, a + b + c + d + e)
<1>1. rest \in Nat
  BY DEF Over
<1>2. Tokens(a, b, c, d, e, t) = Filled(<<a, b, c, d, e, rest>>)
  BY DEF Tokens
<1> HIDE DEF rest
<1>3. <<a, b, c, d, e, rest>> \in TokenRecords
  BY <1>1 DEF TokenRecords
<1> QED
  BY <1>2, <1>3, FilledIs

LEMMA Differences ==
  ASSUME NEW a \in Nat, NEW b \in Nat
  PROVE  /\ Over(a, b) \in Nat /\ Least(a, b) \in Nat /\ Least(a, b) <= a /\ Least(a, b) <= b
         /\ a - Least(a, b) \in Nat
BY DEF Over, Least

(* What an adapter counts of a record of amounts. *)
LEMMA CountersAre ==
  ASSUME NEW raw, \A field \in DOMAIN raw : raw[field] \in Nat
  PROVE  \A field \in DOMAIN raw : /\ CountersOf(raw)[field] \in Nat
                                   /\ CountersOf(raw)[field] = Bounded(raw[field])
BY MaxBigintAssumption DEF CountersOf, Bounded

LEMMA BoundedIs ==
  ASSUME NEW n \in Nat
  PROVE  /\ Bounded(n) \in Nat /\ Bounded(n) <= n /\ Bounded(n) <= MaxBigint
         /\ InRange(n) \in Nat /\ InRange(n) <= MaxBigint
BY MaxBigintAssumption DEF Bounded, InRange

LEMMA TokensApartAre ==
  ASSUME NEW a \in Nat, NEW b \in Nat, NEW c \in Nat, NEW d \in Nat, NEW e \in Nat, NEW t \in Nat
  PROVE  TokensApart(a, b, c, d, e, t) \in TokenRecords
<1> DEFINE known == a + b + c + d + e
           rest == Over(t, Bounded(known))
<1>1. rest \in Nat
  <2>1. known \in Nat
    OBVIOUS
  <2> HIDE DEF known
  <2> QED
    BY <2>1, BoundedIs, Differences
<1>2. TokensApart(a, b, c, d, e, t) = <<a, b, c, d, e, rest>>
  BY DEF TokensApart
<1> HIDE DEF rest
<1> QED
  BY <1>1, <1>2 DEF TokenRecords

LEMMA NoTokensAre == NoTokens \in TokenRecords
BY DEF NoTokens, TokenRecords

(* The facts of a session, with what they used. *)
Uses(f) == IsList(f) /\ \A i \in 1..Len(f) : f[i].use \in TokenRecords


(* Each adapter reads its log so. *)
LEMMA QwenReads ==
  ASSUME NEW start, NEW log, Len(log) \in Nat
  PROVE  ReadTo("qwen", log, start, Len(log), Drafted(QwenNormalized, start, log))
<1> DEFINE n == Len(log)
           Is(f) == f = [k \in 0..n |-> IF k = 0 THEN start ELSE QwenNormalized(f[k - 1], log[k])]
<1>1. Drafted(QwenNormalized, start, log) = (CHOOSE f : Is(f))[n]
  BY DEF Drafted
<1>2. \A f, k : Step("qwen", log, f[k - 1], k) = QwenNormalized(f[k - 1], log[k])
  BY ZenonT(60) DEF Step
<1> HIDE DEF n
<1>3. \A f : Is(f) <=> ReadsOn(f, "qwen", log, start, n)
  BY <1>2 DEF ReadsOn
<1>4. \E f : ReadsOn(f, "qwen", log, start, n)
  BY ReadOn DEF n
<1> HIDE DEF Is
<1> QED
  BY <1>1, <1>3, <1>4 DEF ReadTo, n

LEMMA CodexReads ==
  ASSUME NEW start, NEW log, Len(log) \in Nat
  PROVE  ReadTo("codex", log, start, Len(log), Drafted(CodexNormalized, start, log))
<1> DEFINE n == Len(log)
           Is(f) == f = [k \in 0..n |-> IF k = 0 THEN start ELSE CodexNormalized(f[k - 1], log[k])]
<1>1. Drafted(CodexNormalized, start, log) = (CHOOSE f : Is(f))[n]
  BY DEF Drafted
<1>2. \A f, k : Step("codex", log, f[k - 1], k) = CodexNormalized(f[k - 1], log[k])
  BY ZenonT(60) DEF Step
<1> HIDE DEF n
<1>3. \A f : Is(f) <=> ReadsOn(f, "codex", log, start, n)
  BY <1>2 DEF ReadsOn
<1>4. \E f : ReadsOn(f, "codex", log, start, n)
  BY ReadOn DEF n
<1> HIDE DEF Is
<1> QED
  BY <1>1, <1>3, <1>4 DEF ReadTo, n

LEMMA CopilotReads ==
  ASSUME NEW start, NEW log, Len(log) \in Nat
  PROVE  ReadTo("copilot", log, start, Len(log), Drafted(CopilotNormalized, start, log))
<1> DEFINE n == Len(log)
           Is(f) == f = [k \in 0..n |-> IF k = 0 THEN start ELSE CopilotNormalized(f[k - 1], log[k])]
<1>1. Drafted(CopilotNormalized, start, log) = (CHOOSE f : Is(f))[n]
  BY DEF Drafted
<1>2. \A f, k : Step("copilot", log, f[k - 1], k) = CopilotNormalized(f[k - 1], log[k])
  BY ZenonT(60) DEF Step
<1> HIDE DEF n
<1>3. \A f : Is(f) <=> ReadsOn(f, "copilot", log, start, n)
  BY <1>2 DEF ReadsOn
<1>4. \E f : ReadsOn(f, "copilot", log, start, n)
  BY ReadOn DEF n
<1> HIDE DEF Is
<1> QED
  BY <1>1, <1>3, <1>4 DEF ReadTo, n

LEMMA OpenCodeReads ==
  ASSUME NEW start, NEW log, Len(log) \in Nat
  PROVE  ReadTo("opencode", log, start, Len(log), Drafted(OpenCodeNormalized, start, log))
<1> DEFINE n == Len(log)
           Is(f) == f = [k \in 0..n |-> IF k = 0 THEN start ELSE OpenCodeNormalized(f[k - 1], log[k])]
<1>1. Drafted(OpenCodeNormalized, start, log) = (CHOOSE f : Is(f))[n]
  BY DEF Drafted
<1>2. \A f, k : Step("opencode", log, f[k - 1], k) = OpenCodeNormalized(f[k - 1], log[k])
  BY ZenonT(60) DEF Step
<1> HIDE DEF n
<1>3. \A f : Is(f) <=> ReadsOn(f, "opencode", log, start, n)
  BY <1>2 DEF ReadsOn
<1>4. \E f : ReadsOn(f, "opencode", log, start, n)
  BY ReadOn DEF n
<1> HIDE DEF Is
<1> QED
  BY <1>1, <1>3, <1>4 DEF ReadTo, n

LEMMA AiderReads ==
  ASSUME NEW start, NEW log, Len(log) \in Nat
  PROVE  ReadTo("aider", log, start, Len(log), Drafted(AiderNormalized, start, log))
<1> DEFINE n == Len(log)
           Is(f) == f = [k \in 0..n |-> IF k = 0 THEN start ELSE AiderNormalized(f[k - 1], log[k])]
<1>1. Drafted(AiderNormalized, start, log) = (CHOOSE f : Is(f))[n]
  BY DEF Drafted
<1>2. \A f, k : Step("aider", log, f[k - 1], k) = AiderNormalized(f[k - 1], log[k])
  BY ZenonT(60) DEF Step
<1> HIDE DEF n
<1>3. \A f : Is(f) <=> ReadsOn(f, "aider", log, start, n)
  BY <1>2 DEF ReadsOn
<1>4. \E f : ReadsOn(f, "aider", log, start, n)
  BY ReadOn DEF n
<1> HIDE DEF Is
<1> QED
  BY <1>1, <1>3, <1>4 DEF ReadTo, n

LEMMA CursorReads ==
  ASSUME NEW start, NEW log, Len(log) \in Nat
  PROVE  ReadTo("cursor", log, start, Len(log), Drafted(CursorNormalized, start, log))
<1> DEFINE n == Len(log)
           Is(f) == f = [k \in 0..n |-> IF k = 0 THEN start ELSE CursorNormalized(f[k - 1], log[k])]
<1>1. Drafted(CursorNormalized, start, log) = (CHOOSE f : Is(f))[n]
  BY DEF Drafted
<1>2. \A f, k : Step("cursor", log, f[k - 1], k) = CursorNormalized(f[k - 1], log[k])
  BY ZenonT(60) DEF Step
<1> HIDE DEF n
<1>3. \A f : Is(f) <=> ReadsOn(f, "cursor", log, start, n)
  BY <1>2 DEF ReadsOn
<1>4. \E f : ReadsOn(f, "cursor", log, start, n)
  BY ReadOn DEF n
<1> HIDE DEF Is
<1> QED
  BY <1>1, <1>3, <1>4 DEF ReadTo, n

LEMMA ClineReads ==
  ASSUME NEW start, NEW log, Len(log) \in Nat
  PROVE  ReadTo("cline", log, start, Len(log), Drafted(ClineNormalized, start, log))
<1> DEFINE n == Len(log)
           Is(f) == f = [k \in 0..n |-> IF k = 0 THEN start ELSE ClineNormalized(f[k - 1], log[k])]
<1>1. Drafted(ClineNormalized, start, log) = (CHOOSE f : Is(f))[n]
  BY DEF Drafted
<1>2. \A f, k : Step("cline", log, f[k - 1], k) = ClineNormalized(f[k - 1], log[k])
  BY ZenonT(60) DEF Step
<1> HIDE DEF n
<1>3. \A f : Is(f) <=> ReadsOn(f, "cline", log, start, n)
  BY <1>2 DEF ReadsOn
<1>4. \E f : ReadsOn(f, "cline", log, start, n)
  BY ReadOn DEF n
<1> HIDE DEF Is
<1> QED
  BY <1>1, <1>3, <1>4 DEF ReadTo, n

LEMMA VibeReads ==
  ASSUME NEW start, NEW log, Len(log) \in Nat
  PROVE  ReadTo("mistral-vibe", log, start, Len(log), Drafted(VibeNormalized, start, log))
<1> DEFINE n == Len(log)
           Is(f) == f = [k \in 0..n |-> IF k = 0 THEN start ELSE VibeNormalized(f[k - 1], log[k])]
<1>1. Drafted(VibeNormalized, start, log) = (CHOOSE f : Is(f))[n]
  BY DEF Drafted
<1>2. \A f, k : Step("mistral-vibe", log, f[k - 1], k) = VibeNormalized(f[k - 1], log[k])
  BY ZenonT(60) DEF Step
<1> HIDE DEF n
<1>3. \A f : Is(f) <=> ReadsOn(f, "mistral-vibe", log, start, n)
  BY <1>2 DEF ReadsOn
<1>4. \E f : ReadsOn(f, "mistral-vibe", log, start, n)
  BY ReadOn DEF n
<1> HIDE DEF Is
<1> QED
  BY <1>1, <1>3, <1>4 DEF ReadTo, n

LEMMA AmazonQReads ==
  ASSUME NEW start, NEW log, Len(log) \in Nat
  PROVE  ReadTo("amazon-q", log, start, Len(log), Drafted(AmazonQNormalized, start, log))
<1> DEFINE n == Len(log)
           Is(f) == f = [k \in 0..n |-> IF k = 0 THEN start ELSE AmazonQNormalized(f[k - 1], log[k])]
<1>1. Drafted(AmazonQNormalized, start, log) = (CHOOSE f : Is(f))[n]
  BY DEF Drafted
<1>2. \A f, k : Step("amazon-q", log, f[k - 1], k) = AmazonQNormalized(f[k - 1], log[k])
  BY ZenonT(60) DEF Step
<1> HIDE DEF n
<1>3. \A f : Is(f) <=> ReadsOn(f, "amazon-q", log, start, n)
  BY <1>2 DEF ReadsOn
<1>4. \E f : ReadsOn(f, "amazon-q", log, start, n)
  BY ReadOn DEF n
<1> HIDE DEF Is
<1> QED
  BY <1>1, <1>3, <1>4 DEF ReadTo, n

LEMMA PlandexReads ==
  ASSUME NEW start, NEW log, Len(log) \in Nat
  PROVE  ReadTo("plandex", log, start, Len(log), Drafted(PlandexNormalized, start, log))
<1> DEFINE n == Len(log)
           Is(f) == f = [k \in 0..n |-> IF k = 0 THEN start ELSE PlandexNormalized(f[k - 1], log[k])]
<1>1. Drafted(PlandexNormalized, start, log) = (CHOOSE f : Is(f))[n]
  BY DEF Drafted
<1>2. \A f, k : Step("plandex", log, f[k - 1], k) = PlandexNormalized(f[k - 1], log[k])
  BY ZenonT(60) DEF Step
<1> HIDE DEF n
<1>3. \A f : Is(f) <=> ReadsOn(f, "plandex", log, start, n)
  BY <1>2 DEF ReadsOn
<1>4. \E f : ReadsOn(f, "plandex", log, start, n)
  BY ReadOn DEF n
<1> HIDE DEF Is
<1> QED
  BY <1>1, <1>3, <1>4 DEF ReadTo, n

LEMMA KimiReads ==
  ASSUME NEW start, NEW log, Len(log) \in Nat
  PROVE  ReadTo("kimi", log, start, Len(log), Drafted(KimiNormalized, start, log))
<1> DEFINE n == Len(log)
           Is(f) == f = [k \in 0..n |-> IF k = 0 THEN start ELSE KimiNormalized(f[k - 1], log[k])]
<1>1. Drafted(KimiNormalized, start, log) = (CHOOSE f : Is(f))[n]
  BY DEF Drafted
<1>2. \A f, k : Step("kimi", log, f[k - 1], k) = KimiNormalized(f[k - 1], log[k])
  BY ZenonT(60) DEF Step
<1> HIDE DEF n
<1>3. \A f : Is(f) <=> ReadsOn(f, "kimi", log, start, n)
  BY <1>2 DEF ReadsOn
<1>4. \E f : ReadsOn(f, "kimi", log, start, n)
  BY ReadOn DEF n
<1> HIDE DEF Is
<1> QED
  BY <1>1, <1>3, <1>4 DEF ReadTo, n

LEMMA OpenHandsReads ==
  ASSUME NEW start, NEW log, Len(log) \in Nat
  PROVE  ReadTo("openhands", log, start, Len(log), Drafted(OpenHandsNormalized, start, log))
<1> DEFINE n == Len(log)
           Is(f) == f = [k \in 0..n |-> IF k = 0 THEN start ELSE OpenHandsNormalized(f[k - 1], log[k])]
<1>1. Drafted(OpenHandsNormalized, start, log) = (CHOOSE f : Is(f))[n]
  BY DEF Drafted
<1>2. \A f, k : Step("openhands", log, f[k - 1], k) = OpenHandsNormalized(f[k - 1], log[k])
  BY ZenonT(60) DEF Step
<1> HIDE DEF n
<1>3. \A f : Is(f) <=> ReadsOn(f, "openhands", log, start, n)
  BY <1>2 DEF ReadsOn
<1>4. \E f : ReadsOn(f, "openhands", log, start, n)
  BY ReadOn DEF n
<1> HIDE DEF Is
<1> QED
  BY <1>1, <1>3, <1>4 DEF ReadTo, n

LEMMA ContinueReads ==
  ASSUME NEW start, NEW log, Len(log) \in Nat
  PROVE  ReadTo("continue", log, start, Len(log), Drafted(ContinueNormalized, start, log))
<1> DEFINE n == Len(log)
           Is(f) == f = [k \in 0..n |-> IF k = 0 THEN start ELSE ContinueNormalized(f[k - 1], log[k])]
<1>1. Drafted(ContinueNormalized, start, log) = (CHOOSE f : Is(f))[n]
  BY DEF Drafted
<1>2. \A f, k : Step("continue", log, f[k - 1], k) = ContinueNormalized(f[k - 1], log[k])
  BY ZenonT(60) DEF Step
<1> HIDE DEF n
<1>3. \A f : Is(f) <=> ReadsOn(f, "continue", log, start, n)
  BY <1>2 DEF ReadsOn
<1>4. \E f : ReadsOn(f, "continue", log, start, n)
  BY ReadOn DEF n
<1> HIDE DEF Is
<1> QED
  BY <1>1, <1>3, <1>4 DEF ReadTo, n

LEMMA AmpReads ==
  ASSUME NEW start, NEW log, Len(log) \in Nat
  PROVE  ReadTo("amp", log, start, Len(log), Drafted(AmpNormalized, start, log))
<1> DEFINE n == Len(log)
           Is(f) == f = [k \in 0..n |-> IF k = 0 THEN start ELSE AmpNormalized(f[k - 1], log[k])]
<1>1. Drafted(AmpNormalized, start, log) = (CHOOSE f : Is(f))[n]
  BY DEF Drafted
<1>2. \A f, k : Step("amp", log, f[k - 1], k) = AmpNormalized(f[k - 1], log[k])
  BY ZenonT(60) DEF Step
<1> HIDE DEF n
<1>3. \A f : Is(f) <=> ReadsOn(f, "amp", log, start, n)
  BY <1>2 DEF ReadsOn
<1>4. \E f : ReadsOn(f, "amp", log, start, n)
  BY ReadOn DEF n
<1> HIDE DEF Is
<1> QED
  BY <1>1, <1>3, <1>4 DEF ReadTo, n

LEMMA CrushReads ==
  ASSUME NEW start, NEW log, Len(log) \in Nat
  PROVE  ReadTo("crush", log, start, Len(log), Drafted(CrushNormalized, start, log))
<1> DEFINE n == Len(log)
           Is(f) == f = [k \in 0..n |-> IF k = 0 THEN start ELSE CrushNormalized(f[k - 1], log[k])]
<1>1. Drafted(CrushNormalized, start, log) = (CHOOSE f : Is(f))[n]
  BY DEF Drafted
<1>2. \A f, k : Step("crush", log, f[k - 1], k) = CrushNormalized(f[k - 1], log[k])
  BY ZenonT(60) DEF Step
<1> HIDE DEF n
<1>3. \A f : Is(f) <=> ReadsOn(f, "crush", log, start, n)
  BY <1>2 DEF ReadsOn
<1>4. \E f : ReadsOn(f, "crush", log, start, n)
  BY ReadOn DEF n
<1> HIDE DEF Is
<1> QED
  BY <1>1, <1>3, <1>4 DEF ReadTo, n

LEMMA GooseReads ==
  ASSUME NEW start, NEW log, Len(log) \in Nat
  PROVE  ReadTo("goose", log, start, Len(log), Drafted(GooseNormalized, start, log))
<1> DEFINE n == Len(log)
           Is(f) == f = [k \in 0..n |-> IF k = 0 THEN start ELSE GooseNormalized(f[k - 1], log[k])]
<1>1. Drafted(GooseNormalized, start, log) = (CHOOSE f : Is(f))[n]
  BY DEF Drafted
<1>2. \A f, k : Step("goose", log, f[k - 1], k) = GooseNormalized(f[k - 1], log[k])
  BY ZenonT(60) DEF Step
<1> HIDE DEF n
<1>3. \A f : Is(f) <=> ReadsOn(f, "goose", log, start, n)
  BY <1>2 DEF ReadsOn
<1>4. \E f : ReadsOn(f, "goose", log, start, n)
  BY ReadOn DEF n
<1> HIDE DEF Is
<1> QED
  BY <1>1, <1>3, <1>4 DEF ReadTo, n

LEMMA GooseCallsReads ==
  ASSUME NEW start, NEW log, Len(log) \in Nat
  PROVE  ReadTo("goose calls", log, start, Len(log), Drafted(GooseCharged, start, log))
<1> DEFINE n == Len(log)
           Is(f) == f = [k \in 0..n |-> IF k = 0 THEN start ELSE GooseCharged(f[k - 1], log[k])]
<1>1. Drafted(GooseCharged, start, log) = (CHOOSE f : Is(f))[n]
  BY DEF Drafted
<1>2. \A f, k : Step("goose calls", log, f[k - 1], k) = GooseCharged(f[k - 1], log[k])
  BY ZenonT(60) DEF Step
<1> HIDE DEF n
<1>3. \A f : Is(f) <=> ReadsOn(f, "goose calls", log, start, n)
  BY <1>2 DEF ReadsOn
<1>4. \E f : ReadsOn(f, "goose calls", log, start, n)
  BY ReadOn DEF n
<1> HIDE DEF Is
<1> QED
  BY <1>1, <1>3, <1>4 DEF ReadTo, n

LEMMA KiloReads ==
  ASSUME NEW start, NEW log, Len(log) \in Nat
  PROVE  ReadTo("kilo", log, start, Len(log), Drafted(KiloNormalized, start, log))
<1> DEFINE n == Len(log)
           Is(f) == f = [k \in 0..n |-> IF k = 0 THEN start ELSE KiloNormalized(f[k - 1], log[k])]
<1>1. Drafted(KiloNormalized, start, log) = (CHOOSE f : Is(f))[n]
  BY DEF Drafted
<1>2. \A f, k : Step("kilo", log, f[k - 1], k) = KiloNormalized(f[k - 1], log[k])
  BY ZenonT(60) DEF Step
<1> HIDE DEF n
<1>3. \A f : Is(f) <=> ReadsOn(f, "kilo", log, start, n)
  BY <1>2 DEF ReadsOn
<1>4. \E f : ReadsOn(f, "kilo", log, start, n)
  BY ReadOn DEF n
<1> HIDE DEF Is
<1> QED
  BY <1>1, <1>3, <1>4 DEF ReadTo, n

LEMMA GeminiReads ==
  ASSUME NEW start, NEW log, Len(log) \in Nat
  PROVE  ReadTo("gemini", log, start, Len(log), Drafted(GeminiNormalized, start, log))
<1> DEFINE n == Len(log)
           Is(f) == f = [k \in 0..n |-> IF k = 0 THEN start ELSE GeminiNormalized(f[k - 1], log[k])]
<1>1. Drafted(GeminiNormalized, start, log) = (CHOOSE f : Is(f))[n]
  BY DEF Drafted
<1>2. \A f, k : Step("gemini", log, f[k - 1], k) = GeminiNormalized(f[k - 1], log[k])
  BY ZenonT(60) DEF Step
<1> HIDE DEF n
<1>3. \A f : Is(f) <=> ReadsOn(f, "gemini", log, start, n)
  BY <1>2 DEF ReadsOn
<1>4. \E f : ReadsOn(f, "gemini", log, start, n)
  BY ReadOn DEF n
<1> HIDE DEF Is
<1> QED
  BY <1>1, <1>3, <1>4 DEF ReadTo, n


(* An id that no earlier record has. *)
Own(ids, k) == ids[k] \in Nat /\ \A j \in 1..k - 1 : ids[j] # ids[k]

Ids(rows) == [p \in 1..Len(rows) |-> rows[p].id]

(* The draft when the whole log is read. *)
LEMMA ReadWhole ==
  ASSUME NEW tool, NEW log, NEW start, NEW n \in Nat, NEW ids, NEW draft,
         ReadTo(tool, log, start, n, draft), GoodDraft(start, {}), Beside(tool, start),
         \A k \in 1..n : KeepsGood(tool, log, ids, k) /\ ids[k] \in Nat
  PROVE  GoodDraft(draft, Nat) /\ Beside(tool, draft)
<1>1. Upto(ids, n) \subseteq Nat
  BY DEF Upto
<1> QED
  BY <1>1, ReadGood, GoodOfMore

(* The rows of a table have ids of their own. *)
LEMMA TableOwn ==
  ASSUME NEW records, IsList(records), NEW written, \A k \in 1..Len(records) : records[k].id \in Nat,
         NEW rows, rows = Table(records, written)
  PROVE  /\ IsList(rows) /\ Len(rows) \in Nat
         /\ \A p \in 1..Len(rows) :
              /\ Own(Ids(rows), p) /\ Ids(rows)[p] = rows[p].id
              /\ \E k \in 1..Len(records) : k \in written /\ rows[p] = records[k]
<1>1. Tabled(rows, records, written, Len(records))
  BY TableIsTabled
<1>2. IsList(rows) /\ Len(rows) \in Nat
  BY <1>1 DEF Tabled, IsList
<1>3. ASSUME NEW p \in 1..Len(rows)
      PROVE  \E k \in 1..Len(records) : k \in written /\ rows[p] = records[k]
  BY <1>1 DEF Tabled, LastWritten
<1>4. \A p \in 1..Len(rows) : Ids(rows)[p] = rows[p].id
  BY DEF Ids
<1>5. \A p, q \in 1..Len(rows) : rows[p].id = rows[q].id => p = q
  BY <1>1 DEF Tabled
<1>6. ASSUME NEW p \in 1..Len(rows) PROVE Own(Ids(rows), p)
  <2>1. Ids(rows)[p] \in Nat
    BY <1>3, <1>4
  <2>2. ASSUME NEW j \in 1..p - 1 PROVE Ids(rows)[j] # Ids(rows)[p]
    <3>1. j \in 1..Len(rows) /\ j # p
      BY <1>2
    <3> QED
      BY <1>4, <1>5, <3>1
  <2> QED
    BY <2>1, <2>2 DEF Own
<1> QED
  BY <1>2, <1>3, <1>4, <1>6

(* The records of a log that has one for each fact. *)
LEMMA RecordsAre ==
  ASSUME NEW f, Uses(f)
  PROVE  /\ IsList(f) /\ Len(f) \in Nat /\ DOMAIN f = 1..Len(f)
         /\ \A k \in 1..Len(f) : f[k].use \in TokenRecords
         /\ \A log : log = [i \in DOMAIN f |-> log[i]] =>
              IsList(log) /\ Len(log) = Len(f) /\ DOMAIN log = 1..Len(f)
<1>1. IsList(f) /\ Len(f) \in Nat /\ DOMAIN f = 1..Len(f) /\ \A k \in 1..Len(f) : f[k].use \in TokenRecords
  BY DEF Uses, IsList
<1>2. ASSUME NEW log, log = [i \in DOMAIN f |-> log[i]]
      PROVE  IsList(log) /\ Len(log) = Len(f) /\ DOMAIN log = 1..Len(f)
  BY <1>1, <1>2, OneForEach DEF IsList
<1> QED
  BY <1>1, <1>2

LEMMA OwnNumbers ==
  ASSUME NEW n \in Nat, NEW k \in 1..n
  PROVE  Own([j \in 1..n |-> j], k) /\ [j \in 1..n |-> j][k] = k
BY DEF Own

LEMMA OriginsAre ==
  ASSUME NEW f, IsList(f), Sound(f), NEW i \in 1..Len(f)
  PROVE  Origin(f, i) \in Nat
<1>1. i \in Nat
  BY DEF IsList
<1> QED
  BY <1>1, OriginIs

(* A draft after one more record that opens a turn, *)
LEMMA OpensNext ==
  ASSUME NEW ids, NEW k \in Nat \ {0}, Own(ids, k), NEW draft, GoodDraft(draft, Upto(ids, k - 1))
  PROVE  GoodDraft(Opened(draft, ids[k]), Upto(ids, k))
BY OpenedNext DEF Own

(* after one that is a call, *)
LEMMA CalledNext ==
  ASSUME NEW draft, NEW keys, GoodDraft(draft, keys), NEW turn, NEW tokens \in TokenRecords
  PROVE  /\ GoodDraft(Called(draft, turn, tokens), keys)
         /\ \A other : \A status \in Statuses :
              GoodDraft(Marked(Called(draft, turn, tokens), other, status), keys)
         /\ \A another, used : GoodDraft(ToolUsed(Called(draft, turn, tokens), another, used), keys)
         /\ \A other, another, used : \A status \in Statuses :
              GoodDraft(ToolUsed(Marked(Called(draft, turn, tokens), other, status), another, used), keys)
BY GoodCalled, GoodMarked, GoodToolUsed

(* and after a compaction. *)
LEMMA GoodCompacted ==
  ASSUME NEW draft, NEW keys, GoodDraft(draft, keys), NEW v
  PROVE  GoodDraft([draft EXCEPT !.compactions = v], keys)
<1>1. "compactions" \notin {"turns", "calls"}
  OBVIOUS
<1>2. GoodDraft([draft EXCEPT !["compactions"] = v], keys)
  BY <1>1, GoodBeside
<1> QED
  BY <1>2


(* Plandex. *)
LEMMA PlandexRows ==
  ASSUME NEW f, Uses(f)
  PROVE  RowsOfGood(PlandexConversation(PlandexLog(f)))
<1> DEFINE log == PlandexLog(f)
           n == Len(log)
           ids == [k \in 1..n |-> k]
           draft == Drafted(PlandexNormalized, NoDraft, log)
<1>1. IsList(f) /\ Len(f) \in Nat /\ DOMAIN f = 1..Len(f) /\ \A k \in 1..Len(f) : f[k].use \in TokenRecords
  BY DEF Uses, IsList
<1>2. DOMAIN log = 1..Len(f) /\ log = [i \in 1..Len(f) |-> log[i]]
  BY <1>1 DEF PlandexLog, Records
<1>3. n = Len(f) /\ n \in Nat
  BY <1>1, <1>2, Numbered
<1>4. ASSUME NEW k \in 1..n
      PROVE  log[k].id = k /\ log[k].tokens = Total(f[k].use)
  BY <1>1, <1>3 DEF PlandexLog, Records
<1>5. ASSUME NEW k \in 1..n PROVE KeepsGood("plandex", log, ids, k)
  <2> SUFFICES ASSUME NEW d, GoodDraft(d, Upto(ids, k - 1))
               PROVE  GoodDraft(PlandexNormalized(d, log[k]), Upto(ids, k))
    <3>1. \A d : Step("plandex", log, d, k) = PlandexNormalized(d, log[k]) /\ Beside("plandex", d)
      BY Zenon DEF Step, Beside
    <3> HIDE DEF log, ids
    <3> QED
      BY <3>1 DEF KeepsGood
  <2>1. k \in Nat \ {0} /\ ids[k] = k /\ ids[k] \in Nat /\ \A j \in 1..k - 1 : ids[j] # ids[k]
    BY <1>3
  <2> HIDE DEF ids, log, n
  <2>2. GoodDraft(Marked(d, d.active, "completed"), Upto(ids, k - 1))
    BY GoodMarked DEF Statuses
  <2>3. GoodDraft(Opened(Marked(d, d.active, "completed"), ids[k]), Upto(ids, k))
    BY <2>1, <2>2, OpenedNext
  <2>4. PlandexUsage(log[k].tokens) \in TokenRecords
    BY <1>1, <1>3, <1>4, UseIs, TokensAre DEF PlandexUsage
  <2>5. GoodDraft(Called(d, d.active, PlandexUsage(log[k].tokens)), Upto(ids, k - 1))
    BY <2>4, GoodCalled
  <2>6. \A status \in Statuses :
          GoodDraft(Marked(Called(d, d.active, PlandexUsage(log[k].tokens)), d.active, status), Upto(ids, k))
    BY <2>1, <2>5, GoodMarked, GoodNext
  <2> QED
    BY <1>4, <2>1, <2>3, <2>6 DEF PlandexNormalized, Statuses
<1>6. GoodDraft(draft, Nat)
  <2>1. ReadTo("plandex", log, NoDraft, n, draft)
    BY <1>3, PlandexReads
  <2>2. Upto(ids, n) \subseteq Nat
    BY DEF Upto
  <2>3. GoodDraft(NoDraft, {}) /\ Beside("plandex", NoDraft)
    BY GoodAtFirst DEF Beside
  <2> HIDE DEF draft, ids, n, log
  <2> QED
    BY <1>3, <1>5, <2>1, <2>2, <2>3, ReadGood, GoodOfMore
<1> QED
  BY <1>6 DEF RowsOfGood, PlandexConversation


(* Cursor CLI. *)
LEMMA CursorEnds ==
  ASSUME NEW draft, NEW keys, GoodDraft(draft, keys)
  PROVE  GoodDraft(CursorEnded(draft), keys)
BY GoodMarked DEF CursorEnded, Statuses

LEMMA CursorRows ==
  ASSUME NEW f, Uses(f)
  PROVE  RowsOfGood(CursorConversation(CursorLog(f)))
<1> DEFINE log == CursorLog(f).records
           n == Len(log)
           ids == [j \in 1..n |-> j]
           draft == Drafted(CursorNormalized, NoDraft, log)
<1>1. log = [i \in DOMAIN f |-> log[i]]
  BY DEF CursorLog, Records
<1>2. n = Len(f) /\ n \in Nat /\ DOMAIN log = 1..n /\ DOMAIN f = 1..n
  BY <1>1, RecordsAre
<1>3. \A k \in 1..n : log[k].line = k
  BY <1>2 DEF CursorLog, Records
<1>4. ASSUME NEW k \in 1..n PROVE KeepsGood("cursor", log, ids, k) /\ ids[k] \in Nat
  <2>1. Own(ids, k) /\ ids[k] = k /\ k \in Nat \ {0}
    BY <1>2, OwnNumbers
  <2>2. \A d : Step("cursor", log, d, k) = CursorNormalized(d, log[k]) /\ Beside("cursor", d)
    BY Zenon DEF Step, Beside
  <2> HIDE DEF ids, log, n
  <2>3. ASSUME NEW d, GoodDraft(d, Upto(ids, k - 1))
        PROVE  GoodDraft(CursorNormalized(d, log[k]), Upto(ids, k))
    <3>1. GoodDraft(Opened(CursorEnded(d), log[k].line), Upto(ids, k))
      BY <1>3, <2>1, <2>3, OpensNext, CursorEnds
    <3>2. \A used : GoodDraft(ToolUsed(Called(d, d.active, NoTokens), d.active, used), Upto(ids, k))
      BY <2>1, <2>3, GoodNext, CalledNext, NoTokensAre
    <3>3. GoodDraft(d, Upto(ids, k))
      BY <2>1, <2>3, GoodNext
    <3> QED
      BY <3>1, <3>2, <3>3 DEF CursorNormalized
  <2> QED
    BY <2>1, <2>2, <2>3 DEF KeepsGood
<1>5. ReadTo("cursor", log, NoDraft, n, draft)
  BY <1>2, CursorReads
<1>6. GoodDraft(NoDraft, {}) /\ Beside("cursor", NoDraft)
  BY GoodAtFirst DEF Beside
<1>7. CursorConversation(CursorLog(f)) = Rows(CursorEnded(draft))
  BY DEF CursorConversation
<1> HIDE DEF draft, ids, n, log
<1>8. GoodDraft(CursorEnded(draft), Nat)
  BY <1>2, <1>4, <1>5, <1>6, ReadWhole, CursorEnds
<1> QED
  BY <1>7, <1>8 DEF RowsOfGood

(* Cline. *)
LEMMA ClineRows ==
  ASSUME NEW f, Uses(f), Sound(f)
  PROVE  RowsOfGood(ClineConversation(ClineLog(f)))
<1> DEFINE records == Records(f, LAMBDA i : ClineMessage(f, i))
           log == ClineLog(f).messages
           n == Len(log)
           ids == Ids(log)
           draft == Drafted(ClineNormalized, NoDraft, log)
<1>1. records = [i \in DOMAIN f |-> records[i]]
  BY DEF Records
<1>2. IsList(f) /\ IsList(records) /\ Len(records) = Len(f) /\ DOMAIN f = 1..Len(f)
  BY <1>1, RecordsAre
<1>3. ASSUME NEW k \in 1..Len(f) PROVE records[k].id \in Nat /\ ClineUsage(records[k].metrics) \in TokenRecords
  <2>1. records[k] = ClineMessage(f, k)
    BY <1>2 DEF Records
  <2>2. Origin(f, k) \in Nat /\ f[k].use \in TokenRecords
    BY <1>2, RecordsAre, OriginsAre
  <2> DEFINE use == f[k].use
             metrics == records[k].metrics
  <2> HIDE DEF records
  <2>3. /\ metrics.inputTokens = InputOf(use) /\ metrics.cacheReadTokens = use[2]
        /\ metrics.cacheWriteTokens = use[3] /\ metrics.outputTokens = OutputOf(use)
        /\ records[k].id = Origin(f, k)
    BY <2>1 DEF ClineMessage
  <2> HIDE DEF use, metrics
  <2>4. /\ metrics.inputTokens \in Nat /\ metrics.cacheReadTokens \in Nat
        /\ metrics.cacheWriteTokens \in Nat /\ metrics.outputTokens \in Nat
    BY <2>2, <2>3, UseIs DEF use
  <2>5. metrics.cacheReadTokens + metrics.cacheWriteTokens \in Nat
    BY <2>4
  <2>6. ClineUsage(metrics) \in TokenRecords
    BY <2>4, <2>5, Differences, TokensAre DEF ClineUsage
  <2> QED
    BY <2>2, <2>3, <2>6 DEF metrics
<1>4. log = Table(records, OfKind(f, ClineTraits))
  BY DEF ClineLog
<1> HIDE DEF records
<1>5. IsList(log) /\ n \in Nat
  BY <1>2, <1>3, <1>4, TableOwn
<1>6. ASSUME NEW k \in 1..n
      PROVE  Own(ids, k) /\ ids[k] = log[k].id /\ ClineUsage(log[k].metrics) \in TokenRecords
  <2> HIDE DEF log
  <2> QED
    BY <1>2, <1>3, <1>4, TableOwn
<1>7. ASSUME NEW k \in 1..n PROVE KeepsGood("cline", log, ids, k) /\ ids[k] \in Nat
  <2>1. k \in Nat \ {0} /\ ids[k] \in Nat
    BY <1>6 DEF Own
  <2>2. \A d : Step("cline", log, d, k) = ClineNormalized(d, log[k]) /\ Beside("cline", d)
    BY Zenon DEF Step, Beside
  <2> HIDE DEF ids, log, n
  <2>3. ASSUME NEW d, GoodDraft(d, Upto(ids, k - 1))
        PROVE  GoodDraft(ClineNormalized(d, log[k]), Upto(ids, k))
    <3>1. GoodDraft(Marked(d, d.active, "completed"), Upto(ids, k - 1))
      BY <2>3, GoodMarked DEF Statuses
    <3>2. GoodDraft(Opened(Marked(d, d.active, "completed"), log[k].id), Upto(ids, k))
      BY <1>6, <2>1, <3>1, OpensNext
    <3>3. GoodDraft(d, Upto(ids, k))
      BY <2>1, <2>3, GoodNext
    <3>4. \A used : GoodDraft(ToolUsed(Called(d, d.active, ClineUsage(log[k].metrics)), d.active, used),
                              Upto(ids, k))
      BY <1>6, <3>3, CalledNext
    <3> QED
      BY <3>2, <3>3, <3>4 DEF ClineNormalized
  <2> QED
    BY <2>1, <2>2, <2>3 DEF KeepsGood
<1>8. ReadTo("cline", log, NoDraft, n, draft)
  BY <1>5, ClineReads
<1>9. GoodDraft(NoDraft, {}) /\ Beside("cline", NoDraft)
  BY GoodAtFirst DEF Beside
<1>10. ClineConversation(ClineLog(f)) = Rows(Marked(draft, draft.active, "completed"))
  BY DEF ClineConversation
<1> HIDE DEF draft, ids, n, log
<1>11. GoodDraft(draft, Nat)
  BY <1>5, <1>7, <1>8, <1>9, ReadWhole
<1>12. GoodDraft(Marked(draft, draft.active, "completed"), Nat)
  BY <1>11, GoodMarked DEF Statuses
<1> QED
  BY <1>10, <1>12 DEF RowsOfGood


(* OpenCode. *)
LEMMA OpenCodeRows ==
  ASSUME NEW f, Uses(f), Sound(f)
  PROVE  RowsOfGood(OpenCodeConversation(OpenCodeLog(f)))
<1> DEFINE records == Records(f, LAMBDA i : OpenCodeMessage(f, i))
           log == OpenCodeLog(f).messages
           n == Len(log)
           ids == Ids(log)
           draft == Drafted(OpenCodeNormalized, NoDraft, log)
<1>1. records = [i \in DOMAIN f |-> records[i]]
  BY DEF Records
<1>2. IsList(f) /\ IsList(records) /\ Len(records) = Len(f) /\ DOMAIN f = 1..Len(f)
  BY <1>1, RecordsAre
<1>3. ASSUME NEW k \in 1..Len(f) PROVE records[k].id \in Nat /\ OpenCodeUsage(records[k].tokens) \in TokenRecords
             /\ records[k].kind \in {"user", "compaction", "assistant"}
  <2>1. records[k] = OpenCodeMessage(f, k)
    BY <1>2 DEF Records
  <2>2. Origin(f, k) \in Nat /\ f[k].use \in TokenRecords
    BY <1>2, RecordsAre, OriginsAre
  <2> DEFINE use == f[k].use
             tokens == records[k].tokens
  <2> HIDE DEF records
  <2>3. /\ tokens.input = use[1] /\ tokens.read = use[2] /\ tokens.write = use[3]
        /\ tokens.output = use[4] /\ tokens.reasoning = use[5] /\ tokens.total = Total(use)
        /\ DOMAIN tokens = {"input", "read", "write", "output", "reasoning", "total"}
        /\ records[k].id = Origin(f, k) /\ records[k].kind \in {"user", "compaction", "assistant"}
    BY <2>1 DEF OpenCodeMessage
  <2> HIDE DEF tokens
  <2>4. OpenCodeUsage(tokens) \in TokenRecords
    <3> DEFINE now == CountersOf(tokens)
    <3> HIDE DEF use
    <3>1. \A field \in DOMAIN tokens : tokens[field] \in Nat
      BY <2>2, <2>3, UseIs DEF use
    <3>2. /\ now.input \in Nat /\ now.read \in Nat /\ now.write \in Nat
          /\ now.output \in Nat /\ now.reasoning \in Nat /\ now.total \in Nat
      BY <2>3, <3>1, CountersAre
    <3>3. OpenCodeUsage(tokens) =
            TokensApart(now.input, now.read, now.write, now.output, now.reasoning, now.total)
      BY DEF OpenCodeUsage
    <3> HIDE DEF now
    <3>4. TokensApart(now.input, now.read, now.write, now.output, now.reasoning, now.total) \in TokenRecords
      BY <3>2, TokensApartAre
    <3> QED
      BY <3>3, <3>4
  <2> QED
    BY <2>2, <2>3, <2>4 DEF tokens
<1>4. log = Table(records, OfKind(f, OpenCodeTraits))
  BY DEF OpenCodeLog
<1> HIDE DEF records
<1>5. IsList(log) /\ n \in Nat
  BY <1>2, <1>3, <1>4, TableOwn
<1>6. ASSUME NEW k \in 1..n
      PROVE  Own(ids, k) /\ ids[k] = log[k].id /\ OpenCodeUsage(log[k].tokens) \in TokenRecords
             /\ log[k].kind \in {"user", "compaction", "assistant"}
  <2> HIDE DEF log
  <2> QED
    BY <1>2, <1>3, <1>4, TableOwn
<1>7. ASSUME NEW k \in 1..n PROVE KeepsGood("opencode", log, ids, k) /\ ids[k] \in Nat
  <2>1. k \in Nat \ {0} /\ ids[k] \in Nat
    BY <1>6 DEF Own
  <2>2. \A d : Step("opencode", log, d, k) = OpenCodeNormalized(d, log[k]) /\ Beside("opencode", d)
    BY Zenon DEF Step, Beside
  <2> HIDE DEF ids, log, n
  <2>3. ASSUME NEW d, GoodDraft(d, Upto(ids, k - 1))
        PROVE  GoodDraft(OpenCodeNormalized(d, log[k]), Upto(ids, k))
    <3> DEFINE called == Called(d, d.active, OpenCodeUsage(log[k].tokens))
    <3>1. GoodDraft(Opened(d, log[k].id), Upto(ids, k))
      BY <1>6, <2>1, <2>3, OpensNext
    <3>2. GoodDraft(d, Upto(ids, k))
      BY <2>1, <2>3, GoodNext
    <3>3. GoodDraft([d EXCEPT !.compactions = @ + 1], Upto(ids, k))
      BY <3>2, GoodCompacted
    <3>4. GoodDraft(called, Upto(ids, k)) /\ \A status \in Statuses :
                                              GoodDraft(Marked(called, d.active, status), Upto(ids, k))
      BY <1>6, <3>2, CalledNext
    <3> HIDE DEF called
    <3>5. GoodDraft(OpenCodeAnswered(d, log[k]), Upto(ids, k))
      BY <3>4 DEF OpenCodeAnswered, called, Statuses
    <3>6. \A turn, used : GoodDraft(ToolUsed(OpenCodeAnswered(d, log[k]), turn, used), Upto(ids, k))
      BY <3>5, GoodToolUsed
    <3> QED
      BY <1>6, <3>1, <3>3, <3>6 DEF OpenCodeNormalized
  <2> QED
    BY <2>1, <2>2, <2>3 DEF KeepsGood
<1>8. ReadTo("opencode", log, NoDraft, n, draft)
  BY <1>5, OpenCodeReads
<1>9. GoodDraft(NoDraft, {}) /\ Beside("opencode", NoDraft)
  BY GoodAtFirst DEF Beside
<1>10. OpenCodeConversation(OpenCodeLog(f)) = Rows(draft)
  BY DEF OpenCodeConversation
<1> HIDE DEF draft, ids, n, log
<1>11. GoodDraft(draft, Nat)
  BY <1>5, <1>7, <1>8, <1>9, ReadWhole
<1> QED
  BY <1>10, <1>11 DEF RowsOfGood

(* Amazon Q Developer CLI. *)
LEMMA AmazonQRows ==
  ASSUME NEW f, Uses(f), Sound(f)
  PROVE  RowsOfGood(AmazonQConversation(AmazonQLog(f)))
<1> DEFINE records == Records(f, LAMBDA i : AmazonQEntry(f, i))
           log == AmazonQLog(f)
           n == Len(log)
           ids == Ids(log)
           draft == Drafted(AmazonQNormalized, NoDraft, log)
<1>1. records = [i \in DOMAIN f |-> records[i]]
  BY DEF Records
<1>2. IsList(f) /\ IsList(records) /\ Len(records) = Len(f) /\ DOMAIN f = 1..Len(f)
  BY <1>1, RecordsAre
<1>3. ASSUME NEW k \in 1..Len(f) PROVE records[k].id \in Nat
  <2>1. records[k] = AmazonQEntry(f, k)
    BY <1>2 DEF Records
  <2> HIDE DEF records
  <2> QED
    BY <2>1 DEF AmazonQEntry
<1>4. log = Table(records, OfKind(f, {"answer"}))
  BY DEF AmazonQLog
<1> HIDE DEF records
<1>5. IsList(log) /\ n \in Nat
  BY <1>2, <1>3, <1>4, TableOwn
<1>6. ASSUME NEW k \in 1..n
      PROVE  Own(ids, k) /\ ids[k] = log[k].id
  <2> HIDE DEF log
  <2> QED
    BY <1>2, <1>3, <1>4, TableOwn
<1>7. ASSUME NEW k \in 1..n PROVE KeepsGood("amazon-q", log, ids, k) /\ ids[k] \in Nat
  <2>1. k \in Nat \ {0} /\ ids[k] \in Nat
    BY <1>6 DEF Own
  <2>2. \A d : Step("amazon-q", log, d, k) = AmazonQNormalized(d, log[k]) /\ Beside("amazon-q", d)
    BY Zenon DEF Step, Beside
  <2> HIDE DEF ids, log, n
  <2>3. ASSUME NEW d, GoodDraft(d, Upto(ids, k - 1))
        PROVE  GoodDraft(AmazonQNormalized(d, log[k]), Upto(ids, k))
    <3> DEFINE keys == Upto(ids, k)
               opened == IF log[k].content = "Prompt"
                         THEN Opened(Marked(d, d.active, "completed"), log[k].id) ELSE d
               called == IF log[k].assistant THEN Called(opened, opened.active, NoTokens) ELSE opened
    <3>1. GoodDraft(Marked(d, d.active, "completed"), Upto(ids, k - 1))
      BY <2>3, GoodMarked DEF Statuses
    <3>2. GoodDraft(Opened(Marked(d, d.active, "completed"), log[k].id), keys)
      BY <1>6, <2>1, <3>1, OpensNext
    <3>3. GoodDraft(opened, keys)
      BY <2>1, <2>3, <3>2, GoodNext
    <3>4. AmazonQNormalized(d, log[k]) = ToolUsed(called, opened.active, log[k].tool)
      BY Zenon DEF AmazonQNormalized
    <3> HIDE DEF opened, keys
    <3>5. GoodDraft(called, keys)
      BY <3>3, NoTokensAre, GoodCalled
    <3> HIDE DEF called
    <3> QED
      BY <3>4, <3>5, GoodToolUsed DEF keys
  <2> QED
    BY <2>1, <2>2, <2>3 DEF KeepsGood
<1>8. ReadTo("amazon-q", log, NoDraft, n, draft)
  BY <1>5, AmazonQReads
<1>9. GoodDraft(NoDraft, {}) /\ Beside("amazon-q", NoDraft)
  BY GoodAtFirst DEF Beside
<1>10. AmazonQConversation(AmazonQLog(f)) = Rows(Marked(draft, draft.active, "completed"))
  BY DEF AmazonQConversation
<1> HIDE DEF draft, ids, n, log
<1>11. GoodDraft(draft, Nat)
  BY <1>5, <1>7, <1>8, <1>9, ReadWhole
<1>12. GoodDraft(Marked(draft, draft.active, "completed"), Nat)
  BY <1>11, GoodMarked DEF Statuses
<1> QED
  BY <1>10, <1>12 DEF RowsOfGood


(* Where the items of joined lists come from: the list and the place in it. *)
ComesFrom(owner, pos, joined, lists, m) ==
  \A p \in 1..Len(joined) :
    /\ owner[p] \in 1..m /\ pos[p] \in 1..Len(lists[owner[p]])
    /\ joined[p] = lists[owner[p]][pos[p]]
    /\ \A q \in 1..p - 1 : owner[q] < owner[p] \/ (owner[q] = owner[p] /\ pos[q] < pos[p])

AreFrom(joined, lists, m) == \E owner, pos : ComesFrom(owner, pos, joined, lists, m)

LEMMA OneMoreList ==
  ASSUME NEW V, NEW lists, NEW m \in Nat, NEW joined \in Seq(V), AreFrom(joined, lists, m),
         lists[m + 1] \in Seq(V)
  PROVE  AreFrom(joined \o lists[m + 1], lists, m + 1)
<1> DEFINE more == lists[m + 1]
           longer == joined \o more
           a == Len(joined)
           b == Len(more)
<1>1. PICK owner, pos : ComesFrom(owner, pos, joined, lists, m)
  BY DEF AreFrom
<1>2. a \in Nat /\ b \in Nat /\ more \in Seq(V)
  OBVIOUS
<1>3. /\ Len(longer) = a + b
      /\ \A p \in 1..a : longer[p] = joined[p]
      /\ \A p \in a + 1..a + b : longer[p] = more[p - a]
  <2> HIDE DEF more
  <2> QED
    BY <1>2
<1> HIDE DEF a, b, longer, more
<1> DEFINE of == [p \in 1..a + b |-> IF p <= a THEN owner[p] ELSE m + 1]
           at == [p \in 1..a + b |-> IF p <= a THEN pos[p] ELSE p - a]
<1>4. \A p \in 1..a : of[p] = owner[p] /\ at[p] = pos[p] /\ p \in 1..a + b
  BY <1>2
<1>5. \A p \in a + 1..a + b : of[p] = m + 1 /\ at[p] = p - a /\ p \in 1..a + b
  BY <1>2
<1> HIDE DEF of, at
<1>6. ASSUME NEW p \in 1..Len(longer)
      PROVE  /\ of[p] \in 1..m + 1 /\ at[p] \in 1..Len(lists[of[p]])
             /\ longer[p] = lists[of[p]][at[p]]
             /\ \A q \in 1..p - 1 : of[q] < of[p] \/ (of[q] = of[p] /\ at[q] < at[p])
  <2>1. CASE p \in 1..a
    <3>1. /\ owner[p] \in 1..m /\ pos[p] \in 1..Len(lists[owner[p]])
          /\ joined[p] = lists[owner[p]][pos[p]]
          /\ \A q \in 1..p - 1 : owner[q] < owner[p] \/ (owner[q] = owner[p] /\ pos[q] < pos[p])
      BY <1>1, <2>1 DEF ComesFrom, a
    <3>2. \A q \in 1..p - 1 : q \in 1..a
      BY <1>2, <2>1
    <3>3. owner[p] \in 1..m + 1
      BY <3>1
    <3> QED
      BY <1>3, <1>4, <2>1, <3>1, <3>2, <3>3
  <2>2. CASE p \notin 1..a
    <3>1. p \in a + 1..a + b /\ m + 1 \in 1..m + 1 /\ p - a \in 1..b
      BY <1>2, <1>3, <2>2
    <3>2. of[p] = m + 1 /\ at[p] = p - a /\ longer[p] = more[p - a]
      BY <1>3, <1>5, <3>1
    <3>3. ASSUME NEW q \in 1..p - 1 PROVE of[q] < of[p] \/ (of[q] = of[p] /\ at[q] < at[p])
      <4>1. CASE q \in 1..a
        <5>1. of[q] = owner[q] /\ owner[q] \in 1..m
          BY <1>1, <1>4, <4>1 DEF ComesFrom, a
        <5> QED
          BY <3>2, <5>1
      <4>2. CASE q \notin 1..a
        <5>1. q \in a + 1..a + b
          BY <1>2, <3>1, <4>2
        <5>2. of[q] = m + 1 /\ at[q] = q - a
          BY <1>5, <5>1
        <5>3. q - a < p - a
          BY <1>2, <3>1
        <5> QED
          BY <3>2, <5>2, <5>3
      <4> QED
        BY <4>1, <4>2
    <3> QED
      BY <3>1, <3>2, <3>3 DEF more, b
  <2> QED
    BY <2>1, <2>2
<1>7. ComesFrom(of, at, longer, lists, m + 1)
  BY <1>6 DEF ComesFrom
<1> QED
  BY <1>7 DEF AreFrom, longer, more

LEMMA FlattenedFrom ==
  ASSUME NEW lists, IsList(lists), \A i \in 1..Len(lists) : IsList(lists[i])
  PROVE  /\ Len(FlattenSeq(lists)) \in Nat /\ IsList(FlattenSeq(lists))
         /\ AreFrom(FlattenSeq(lists), lists, Len(lists))
<1> DEFINE n == Len(lists)
           out == FlattenSeq(lists)
<1>1. n \in Nat /\ Len(out) \in Nat
  BY Flattened DEF IsList
<1>2. CASE lists = <<>>
  <2>1. Len(out) = 0 /\ out = <<>>
    BY <1>2, Flattened DEF FlattenSeq
  <2>2. ComesFrom(<<>>, <<>>, <<>>, lists, n)
    BY DEF ComesFrom
  <2>3. AreFrom(<<>>, lists, n)
    BY <2>2 DEF AreFrom
  <2> QED
    BY <1>1, <2>1, <2>3, WrittenOut
<1>3. CASE lists # <<>>
  <2>1. PICK V : lists \in Seq(Seq(V))
    BY OfLists
  <2>2. PICK f : Flattens(f, V, lists)
    BY <1>3, <2>1, Flattening
  <2>3. /\ out = f[n] /\ f[1] = lists[1] /\ n \in Nat /\ n >= 1 /\ lists[1] \in Seq(V)
        /\ \A i \in 1..n : f[i] \in Seq(V) /\ lists[i] \in Seq(V)
        /\ \A i \in 2..n : f[i] = f[i - 1] \o lists[i]
    <3>1. n >= 1 /\ \A i \in 1..n : lists[i] \in Seq(V)
      BY <1>3, <2>1
    <3>2. /\ out = f[n] /\ f[1] = lists[1] /\ \A i \in 1..n : f[i] \in Seq(V)
          /\ \A i \in 2..n : f[i] = f[i - 1] \o lists[i]
      BY <2>2 DEF Flattens
    <3> HIDE DEF n, out
    <3>3. 1 \in 1..n
      BY <1>1, <3>1
    <3> QED
      BY <1>1, <3>1, <3>2, <3>3
  <2> HIDE DEF n, out
  <2> DEFINE S == {i \in 1..n : AreFrom(f[i], lists, i)}
  <2>4. 1 \in S
    <3>1. ComesFrom(<<>>, <<>>, <<>>, lists, 0)
      BY DEF ComesFrom
    <3>2. AreFrom(<<>>, lists, 0)
      BY <3>1 DEF AreFrom
    <3>3. <<>> \in Seq(V) /\ 0 \in Nat /\ 0 + 1 = 1
      OBVIOUS
    <3>4. lists[0 + 1] \in Seq(V) /\ <<>> \o lists[1] = lists[1]
      BY <2>3
    <3>5. AreFrom(<<>> \o lists[0 + 1], lists, 0 + 1)
      BY <3>2, <3>3, <3>4, OneMoreList
    <3>6. AreFrom(f[1], lists, 1)
      BY <2>3, <3>3, <3>4, <3>5
    <3> QED
      BY <2>3, <3>6
  <2>5. ASSUME NEW i \in 1..n - 1, i \in S PROVE i + 1 \in S
    <3>1. i + 1 \in 2..n /\ i + 1 \in 1..n /\ i \in 1..n /\ i \in Nat /\ (i + 1) - 1 = i
      BY <2>3
    <3>2. f[i] \in Seq(V) /\ lists[i + 1] \in Seq(V) /\ f[i + 1] = f[i] \o lists[i + 1]
      BY <2>3, <3>1
    <3>3. AreFrom(f[i] \o lists[i + 1], lists, i + 1)
      BY <2>5, <3>1, <3>2, OneMoreList
    <3> QED
      BY <3>1, <3>2, <3>3
  <2> HIDE DEF S
  <2>6. n \in S
    <3>1. \A i \in 1..n : i \in S
      BY <2>3, <2>4, <2>5, Induction
    <3> QED
      BY <2>3, <3>1
  <2>7. AreFrom(out, lists, n) /\ out \in Seq(V)
    BY <2>3, <2>6 DEF S
  <2>8. IsList(out)
    <3>1. DOMAIN out = 1..Len(out) /\ Len(out) \in Nat
      BY <2>7
    <3>2. \A k \in 1..Len(out) : out[k] \in Range(out)
      BY <3>1 DEF Range
    <3> QED
      BY <2>7, <3>1, <3>2 DEF IsList
  <2> QED
    BY <1>1, <2>7, <2>8 DEF n, out
<1> QED
  BY <1>2, <1>3

(* An event comes from one of the lists, and those before it from the same or earlier ones. *)
EventAt(log, lists, p, i, r) ==
  /\ i \in 1..Len(lists) /\ r \in 1..Len(lists[i]) /\ log[p] = lists[i][r]
  /\ \A q \in 1..p - 1 : \E j \in 1..i : \E t \in 1..Len(lists[j]) :
       log[q] = lists[j][t] /\ (j < i \/ t < r)

LEMMA EventsAre ==
  ASSUME NEW lists, IsList(lists), \A i \in 1..Len(lists) : IsList(lists[i]),
         NEW log, log = FlattenSeq(lists)
  PROVE  /\ Len(log) \in Nat /\ IsList(log)
         /\ \A p \in 1..Len(log) : \E i, r : EventAt(log, lists, p, i, r)
<1>1. Len(log) \in Nat /\ IsList(log) /\ AreFrom(log, lists, Len(lists)) /\ Len(lists) \in Nat
  BY FlattenedFrom DEF IsList
<1>2. PICK owner, pos : ComesFrom(owner, pos, log, lists, Len(lists))
  BY <1>1 DEF AreFrom
<1>3. ASSUME NEW p \in 1..Len(log) PROVE EventAt(log, lists, p, owner[p], pos[p])
  <2>1. /\ owner[p] \in 1..Len(lists) /\ pos[p] \in 1..Len(lists[owner[p]])
        /\ log[p] = lists[owner[p]][pos[p]]
        /\ \A q \in 1..p - 1 : owner[q] < owner[p] \/ (owner[q] = owner[p] /\ pos[q] < pos[p])
    BY <1>2 DEF ComesFrom
  <2>2. ASSUME NEW q \in 1..p - 1
        PROVE  \E j \in 1..owner[p] : \E t \in 1..Len(lists[j]) :
                 log[q] = lists[j][t] /\ (j < owner[p] \/ t < pos[p])
    <3>1. q \in 1..Len(log)
      BY <1>1
    <3>2. owner[q] \in 1..Len(lists) /\ pos[q] \in 1..Len(lists[owner[q]]) /\ log[q] = lists[owner[q]][pos[q]]
      BY <1>2, <3>1 DEF ComesFrom
    <3>3. owner[q] \in 1..owner[p]
      BY <1>1, <2>1, <3>2
    <3> QED
      BY <2>1, <3>2, <3>3
  <2> QED
    BY <2>1, <2>2 DEF EventAt
<1> QED
  BY <1>1, <1>3

(* What is kept beside the turns and the calls stays as it is. *)
Keeps(draft, new, field) == field \in DOMAIN draft => field \in DOMAIN new /\ new[field] = draft[field]

LEMMA KeptBeside ==
  ASSUME NEW draft, NEW field, field \notin {"turns", "active", "calls", "tools"}
  PROVE  /\ \A key : Keeps(draft, Opened(draft, key), field)
         /\ \A turn, status : Keeps(draft, Marked(draft, turn, status), field)
         /\ \A turn, tokens : Keeps(draft, Called(draft, turn, tokens), field)
         /\ \A turn, used : Keeps(draft, ToolUsed(draft, turn, used), field)
         /\ \A turn, n : Keeps(draft, ToolsUsed(draft, turn, n), field)
<1>1. \A key : Keeps(draft, Opened(draft, key), field)
  BY DEF Keeps, Opened
<1>2. \A turn, status : Keeps(draft, Marked(draft, turn, status), field)
  BY DEF Keeps, Marked
<1>3. \A turn, tokens : Keeps(draft, Called(draft, turn, tokens), field)
  BY DEF Keeps, Called
<1>4. \A turn, used : Keeps(draft, ToolUsed(draft, turn, used), field)
  BY DEF Keeps, ToolUsed
<1>5. \A turn, n : Keeps(draft, ToolsUsed(draft, turn, n), field)
  BY DEF Keeps, ToolsUsed
<1> QED
  BY <1>1, <1>2, <1>3, <1>4, <1>5

(* A later prompt opens a later turn. *)
LEMMA LaterTurn ==
  ASSUME NEW f, IsList(f), NEW i \in 1..Len(f), f[i].kind = "ask"
  PROVE  /\ Within(f, i) \in Nat \ {0}
         /\ \A j \in 1..i - 1 : f[j].kind = "ask" => Within(f, j) # Within(f, i)
<1> DEFINE To(k) == {l \in 1..k : f[l].kind = "ask"}
<1>1. Len(f) \in Nat
  BY DEF IsList
<1>2. ASSUME NEW k \in 1..Len(f), f[k].kind = "ask"
      PROVE  Within(f, k) = Cardinality(To(k)) /\ IsFiniteSet(To(k)) /\ k \in To(k)
  <2>1. /\ Len(SubSeq(f, 1, k)) = k /\ \A l \in 1..k : SubSeq(f, 1, k)[l] = f[l]
        /\ IsList(SubSeq(f, 1, k)) /\ k \in Nat
    BY <1>1, Starts
  <2>2. DOMAIN SubSeq(f, 1, k) = 1..k
    BY <2>1 DEF IsList
  <2>3. Within(f, k) = Cardinality({l \in DOMAIN SubSeq(f, 1, k) : SubSeq(f, 1, k)[l].kind = "ask"})
    BY <1>2 DEF Within, Asks
  <2>4. {l \in DOMAIN SubSeq(f, 1, k) : SubSeq(f, 1, k)[l].kind = "ask"} = To(k)
    BY <2>1, <2>2
  <2>5. IsFiniteSet(1..k)
    BY <2>1, FS_Interval
  <2>6. IsFiniteSet(To(k))
    BY <2>5, FS_Subset
  <2>7. k \in To(k)
    BY <1>2, <2>1
  <2> QED
    BY <2>3, <2>4, <2>6, <2>7
<1> HIDE DEF To
<1>3. Within(f, i) \in Nat \ {0}
  <2>1. Within(f, i) = Cardinality(To(i)) /\ IsFiniteSet(To(i)) /\ To(i) # {}
    BY <1>2
  <2> QED
    BY <2>1, FS_CardinalityType, FS_EmptySet
<1>4. ASSUME NEW j \in 1..i - 1, f[j].kind = "ask" PROVE Within(f, j) # Within(f, i)
  <2>1. j \in 1..Len(f)
    BY <1>1
  <2>2. To(j) \subseteq To(i) /\ i \notin To(j)
    BY <1>1 DEF To
  <2>3. Within(f, j) = Cardinality(To(j)) /\ Within(f, i) = Cardinality(To(i)) /\ IsFiniteSet(To(i)) /\ i \in To(i)
    BY <1>2, <1>4, <2>1
  <2>4. To(j) # To(i) /\ To(j) \in SUBSET To(i)
    BY <2>2, <2>3
  <2>5. Cardinality(To(i)) = Cardinality(To(j)) => To(i) = To(j)
    BY <2>3, <2>4, FS_Subset
  <2> QED
    BY <2>3, <2>4, <2>5
<1> QED
  BY <1>3, <1>4

(* What counters add up to is a record of counters. *)
LEMMA SummedAre ==
  ASSUME NEW calls, AreCalls(calls)
  PROVE  Summed(calls) \in TokenRecords
<1> DEFINE n == Len(calls)
<1>1. n \in Nat /\ \A k \in 1..n : calls[k].tokens \in TokenRecords
  BY DEF AreCalls, IsList
<1>2. PICK f : Sums(f, calls)
  BY Summing
<1>3. /\ Summed(calls) = f[n] /\ f[0] = NoTokens
      /\ \A k \in 1..n : f[k] = AddTokens(f[k - 1], calls[k].tokens)
  BY <1>2 DEF Sums
<1> HIDE DEF n
<1> DEFINE S == {k \in 0..n : f[k] \in TokenRecords}
<1>4. 0 \in S
  BY <1>1, <1>3, NoTokensAre
<1>5. ASSUME NEW k \in 0..n - 1, k \in S PROVE k + 1 \in S
  <2>1. k + 1 \in 1..n /\ k + 1 \in 0..n /\ (k + 1) - 1 = k /\ f[k] \in TokenRecords
    BY <1>1, <1>5
  <2>2. f[k + 1] = AddTokens(f[k], calls[k + 1].tokens) /\ calls[k + 1].tokens \in TokenRecords
    BY <1>1, <1>3, <2>1
  <2> QED
    BY <2>1, <2>2, AddedIs
<1> HIDE DEF S
<1>6. n \in S
  <2>1. \A k \in 0..n : k \in S
    BY <1>1, <1>4, <1>5, Induction
  <2> QED
    BY <1>1, <2>1
<1> QED
  BY <1>3, <1>6 DEF S

(* What some facts used is added up fact by fact, without a limit, *)
Accrues(u, f, places) ==
  /\ UsedAt(f, places) = u[Len(f)]
  /\ u[0] = NoTokens
  /\ \A k \in 0..Len(f) : u[k] \in TokenRecords
  /\ \A k \in 1..Len(f) : u[k] = Plus(u[k - 1], IF k \in places THEN f[k].use ELSE NoTokens)

LEMMA PlusIs ==
  ASSUME NEW a \in TokenRecords, NEW b \in TokenRecords
  PROVE  Plus(a, b) \in TokenRecords /\ Total(Plus(a, b)) = Total(a) + Total(b)
<1>1. /\ a[1] \in Nat /\ a[2] \in Nat /\ a[3] \in Nat /\ a[4] \in Nat /\ a[5] \in Nat /\ a[6] \in Nat
      /\ b[1] \in Nat /\ b[2] \in Nat /\ b[3] \in Nat /\ b[4] \in Nat /\ b[5] \in Nat /\ b[6] \in Nat
  BY DEF TokenRecords
<1> QED
  BY <1>1 DEF Plus, TokenRecords, Total, InputOf, OutputOf

LEMMA Accruing ==
  ASSUME NEW f, Uses(f), NEW places
  PROVE  \E u : Accrues(u, f, places)
<1> DEFINE n == Len(f)
           More(k) == IF k \in places THEN f[k].use ELSE NoTokens
           Is(u) == u = [k \in 0..n |-> IF k = 0 THEN NoTokens ELSE Plus(u[k - 1], More(k))]
<1>1. n \in Nat /\ \A k \in 1..n : More(k) \in TokenRecords
  BY RecordsAre, NoTokensAre
<1>2. UsedAt(f, places) = (CHOOSE u : Is(u))[n]
  BY DEF UsedAt
<1> HIDE DEF n, More
<1> DEFINE step == [k \in 1..n |-> [v \in TokenRecords |-> Plus(v, More(k))]]
<1>3. ASSUME NEW k \in 1..n, NEW v \in TokenRecords
      PROVE  step[k][v] = Plus(v, More(k)) /\ Plus(v, More(k)) \in TokenRecords
  BY <1>1, PlusIs
<1>4. step \in [1..n -> [TokenRecords -> TokenRecords]]
  BY <1>3
<1> HIDE DEF step
<1>5. PICK u : Iterates(u, n, TokenRecords, NoTokens, step)
  BY <1>1, <1>4, NoTokensAre, Iterated
<1>6. /\ u \in [0..n -> TokenRecords] /\ u[0] = NoTokens
      /\ \A k \in 1..n : u[k] = step[k][u[k - 1]]
  BY <1>5 DEF Iterates
<1>7. ASSUME NEW k \in 1..n PROVE u[k] = Plus(u[k - 1], More(k))
  <2>1. k - 1 \in 0..n
    BY <1>1
  <2> QED
    BY <1>3, <1>6, <2>1
<1>8. Is(u)
  <2>1. \A k \in 0..n : u[k] = IF k = 0 THEN NoTokens ELSE Plus(u[k - 1], More(k))
    BY <1>1, <1>6, <1>7
  <2> QED
    BY <1>6, <2>1
<1> DEFINE v == CHOOSE x : Is(x)
<1>9. Is(v)
  <2> HIDE DEF Is
  <2> QED
    BY <1>8
<1> HIDE DEF v
<1>10. v = u
  <2> DEFINE S == {k \in 0..n : v[k] = u[k]}
  <2>1. 0 \in S
    BY <1>1, <1>6, <1>9
  <2>2. ASSUME NEW k \in 0..n - 1, k \in S PROVE k + 1 \in S
    <3>1. k + 1 \in 0..n /\ k + 1 \in 1..n /\ (k + 1) - 1 = k /\ k + 1 # 0
      BY <1>1
    <3>2. v[k + 1] = Plus(v[k], More(k + 1)) /\ u[k + 1] = Plus(u[k], More(k + 1))
      BY <1>7, <1>9, <3>1
    <3> QED
      BY <2>2, <3>1, <3>2
  <2> HIDE DEF S
  <2>3. \A k \in 0..n : k \in S
    BY <1>1, <2>1, <2>2, Induction
  <2>4. \A k \in 0..n : v[k] = u[k]
    BY <2>3 DEF S
  <2>5. v = [k \in 0..n |-> v[k]] /\ u = [k \in 0..n |-> u[k]]
    BY <1>6, <1>9
  <2> QED
    BY <2>4, <2>5
<1>11. UsedAt(f, places) = u[n]
  BY <1>2, <1>10 DEF v
<1> QED
  BY <1>6, <1>7, <1>11 DEF Accrues, n, More

(* so that it is a record, too, *)
LEMMA UsedAtAre ==
  ASSUME NEW f, Uses(f), NEW places
  PROVE  UsedAt(f, places) \in TokenRecords
<1>1. PICK u : Accrues(u, f, places)
  BY Accruing
<1>2. Len(f) \in 0..Len(f)
  BY RecordsAre
<1> QED
  BY <1>1, <1>2 DEF Accrues

(* and nothing when each used nothing. *)
LEMMA UsedNothing ==
  ASSUME NEW f, Uses(f), NEW places, \A k \in 1..Len(f) : f[k].use = NoTokens
  PROVE  Total(UsedAt(f, places)) = 0
<1> DEFINE n == Len(f)
<1>1. n \in Nat
  BY RecordsAre
<1>2. PICK u : Accrues(u, f, places)
  BY Accruing
<1>3. /\ UsedAt(f, places) = u[n] /\ u[0] = NoTokens
      /\ \A k \in 0..n : u[k] \in TokenRecords
      /\ \A k \in 1..n : u[k] = Plus(u[k - 1], NoTokens)
  BY <1>2 DEF Accrues
<1>4. Total(NoTokens) = 0
  BY DEF NoTokens, Total, InputOf, OutputOf
<1> HIDE DEF n
<1> DEFINE S == {k \in 0..n : Total(u[k]) = 0}
<1>5. 0 \in S
  BY <1>1, <1>3, <1>4
<1>6. ASSUME NEW k \in 0..n - 1, k \in S PROVE k + 1 \in S
  <2>1. k + 1 \in 1..n /\ k + 1 \in 0..n /\ (k + 1) - 1 = k /\ k \in 0..n
    BY <1>1
  <2>2. u[k + 1] = Plus(u[k], NoTokens) /\ u[k] \in TokenRecords /\ Total(u[k]) = 0
    BY <1>3, <1>6, <2>1
  <2>3. Total(u[k + 1]) = Total(u[k]) + Total(NoTokens)
    BY <2>2, NoTokensAre, PlusIs
  <2> QED
    BY <1>4, <2>1, <2>2, <2>3
<1> HIDE DEF S
<1>7. \A k \in 0..n : k \in S
  BY <1>1, <1>5, <1>6, Induction
<1> QED
  BY <1>1, <1>3, <1>7 DEF S

(* A draft that has more beside it is one at first. *)
LEMMA GoodWith ==
  ASSUME NEW beside
  PROVE  /\ \A keys : GoodDraft(DraftWith(beside), keys)
         /\ DraftWith(beside).turns = <<>> /\ DraftWith(beside).calls = <<>>
         /\ \A field \in DOMAIN beside \ DOMAIN NoDraft :
              field \in DOMAIN DraftWith(beside) /\ DraftWith(beside)[field] = beside[field]
<1> DEFINE new == DraftWith(beside)
<1>1. /\ DOMAIN NoDraft = {"turns", "active", "calls", "tools", "compactions"}
      /\ NoDraft.turns = <<>> /\ NoDraft.calls = <<>>
  BY DEF NoDraft
<1>2. /\ DOMAIN new = DOMAIN NoDraft \cup DOMAIN beside
      /\ new = [field \in DOMAIN new |-> new[field]]
      /\ \A field \in DOMAIN NoDraft : new[field] = NoDraft[field]
      /\ \A field \in DOMAIN beside \ DOMAIN NoDraft : new[field] = beside[field]
  BY DEF DraftWith
<1> HIDE DEF new
<1>3. new.turns = <<>> /\ new.calls = <<>> /\ DOMAIN NoDraft \subseteq DOMAIN new
  BY <1>1, <1>2
<1>4. AreCalls(<<>>)
  BY WrittenOut DEF AreCalls
<1>5. \A keys : GoodDraft(new, keys)
  BY <1>1, <1>2, <1>3, <1>4 DEF GoodDraft
<1> QED
  BY <1>2, <1>3, <1>5 DEF new


(* Kimi Code. *)
LEMMA KimiRows ==
  ASSUME NEW f, Uses(f), OfTool(f, KimiTraits)
  PROVE  RowsOfGood(KimiConversation(KimiLog(f)))
<1> DEFINE lists == Records(f, LAMBDA i : KimiEvents(f, i))
           log == KimiLog(f)
           n == Len(log)
           ids == Ids(log)
           draft == Drafted(KimiNormalized, NoDraft, log)
<1>1. lists = [i \in DOMAIN f |-> lists[i]]
  BY DEF Records
<1>2. /\ IsList(f) /\ Len(f) \in Nat /\ IsList(lists) /\ Len(lists) = Len(f) /\ DOMAIN f = 1..Len(f)
      /\ \A k \in 1..Len(f) : f[k].use \in TokenRecords
  BY <1>1, RecordsAre
<1>3. \A i \in 1..Len(f) : lists[i] = KimiEvents(f, i)
  BY <1>2 DEF Records
<1>4. log = FlattenSeq(lists)
  BY DEF KimiLog
<1> HIDE DEF lists
<1> DEFINE Event(i, type, usage) == [id |-> i, type |-> type, usage |-> usage]
           UseOf(i) == [input_other |-> f[i].use[1], input_cache_read |-> f[i].use[2],
                        input_cache_creation |-> f[i].use[3], output |-> OutputOf(f[i].use),
                        total |-> Total(f[i].use)]
           Told(i) == IF f[i].kind = "answer" THEN {UseOf(i)} ELSE {}
           types == {"TurnBegin", "TurnEnd", "StepInterrupted", "StatusUpdate", "ToolCall", "CompactionEnd"}
           Of(i) == \/ lists[i] = <<Event(i, "TurnBegin", Told(i))>>
                    \/ \E type \in types \ {"TurnBegin"} : lists[i] = <<Event(i, type, Told(i))>>
                    \/ \E type, other \in types \ {"TurnBegin"} :
                         lists[i] = <<Event(i, type, Told(i)), Event(i, other, Told(i))>>
<1>5. ASSUME NEW i \in 1..Len(f) PROVE Of(i)
  <2>1. f[i].kind \in {"ask", "answer", "fail", "compact", "note"}
    BY DEF OfTool, KimiTraits, Kinds
  <2>2. CASE f[i].kind = "ask"
    BY <1>3, <2>2, Zenon DEF KimiEvents
  <2>3. CASE f[i].kind = "answer"
    <3>1. lists[i] = <<Event(i, "StatusUpdate", Told(i)),
                       Event(i, IF f[i].tool THEN "ToolCall" ELSE "TurnEnd", Told(i))>>
      BY <1>3, <2>3, Zenon DEF KimiEvents
    <3> HIDE DEF Event, Told
    <3> QED
      BY <3>1
  <2>4. CASE f[i].kind = "fail"
    <3>1. lists[i] = <<Event(i, "StepInterrupted", Told(i))>>
      BY <1>3, <2>4, Zenon DEF KimiEvents
    <3> HIDE DEF Event, Told
    <3> QED
      BY <3>1
  <2>5. CASE f[i].kind = "compact"
    <3>1. lists[i] = <<Event(i, "CompactionEnd", Told(i))>>
      BY <1>3, <2>5, Zenon DEF KimiEvents
    <3> HIDE DEF Event, Told
    <3> QED
      BY <3>1
  <2>6. CASE f[i].kind = "note"
    <3>1. lists[i] = <<Event(i, "StatusUpdate", Told(i))>>
      BY <1>3, <2>6, Zenon DEF KimiEvents
    <3> HIDE DEF Event, Told
    <3> QED
      BY <3>1
  <2> QED
    BY <2>1, <2>2, <2>3, <2>4, <2>5, <2>6
<1>6. ASSUME NEW i \in 1..Len(f)
      PROVE  /\ IsList(lists[i])
             /\ \A p \in 1..Len(lists[i]) :
                  /\ lists[i][p].id = i /\ lists[i][p].usage = Told(i) /\ lists[i][p].type \in types
                  /\ lists[i][p].type = "TurnBegin" => p = 1
  <2>1. \A type, usage : /\ Event(i, type, usage).id = i /\ Event(i, type, usage).usage = usage
                         /\ Event(i, type, usage).type = type
    OBVIOUS
  <2>2. Of(i)
    BY <1>5
  <2> HIDE DEF Event, Told
  <2>3. CASE lists[i] = <<Event(i, "TurnBegin", Told(i))>>
    BY <2>1, <2>3, WrittenOut
  <2>4. ASSUME NEW type \in types \ {"TurnBegin"}, lists[i] = <<Event(i, type, Told(i))>>
        PROVE  /\ IsList(lists[i]) /\ Len(lists[i]) = 1 /\ lists[i][1].id = i
               /\ lists[i][1].usage = Told(i) /\ lists[i][1].type = type
    BY <2>1, <2>4, WrittenOut
  <2>5. ASSUME NEW type \in types \ {"TurnBegin"}, NEW other \in types \ {"TurnBegin"},
               lists[i] = <<Event(i, type, Told(i)), Event(i, other, Told(i))>>
        PROVE  /\ IsList(lists[i]) /\ Len(lists[i]) = 2 /\ lists[i][1].id = i /\ lists[i][2].id = i
               /\ lists[i][1].usage = Told(i) /\ lists[i][2].usage = Told(i)
               /\ lists[i][1].type = type /\ lists[i][2].type = other
    BY <2>1, <2>5, WrittenOut
  <2>6. (\A p \in 1..1 : p = 1) /\ \A p \in 1..2 : p = 1 \/ p = 2
    OBVIOUS
  <2> QED
    BY <2>2, <2>3, <2>4, <2>5, <2>6
<1>7. n \in Nat /\ IsList(log) /\ AreFrom(log, lists, Len(f))
  <2>1. \A i \in 1..Len(lists) : IsList(lists[i])
    BY <1>2, <1>6
  <2> QED
    BY <1>2, <1>4, <2>1, FlattenedFrom
<1>8. PICK owner, pos : ComesFrom(owner, pos, log, lists, Len(f))
  BY <1>7 DEF AreFrom
<1> HIDE DEF log, Of
<1>9. ASSUME NEW i \in 1..Len(f), NEW raw \in Told(i) PROVE KimiUsage(raw) \in TokenRecords
  <2>1. raw = UseOf(i) /\ f[i].use \in TokenRecords
    BY <1>2, <1>9
  <2>2. /\ raw.input_other \in Nat /\ raw.input_cache_read \in Nat /\ raw.input_cache_creation \in Nat
        /\ raw.output \in Nat /\ raw.total \in Nat
    BY <2>1, UseIs
  <2> HIDE DEF Told, UseOf
  <2> QED
    BY <2>2, TokensAre DEF KimiUsage
<1> HIDE DEF Told
<1>10. ASSUME NEW p \in 1..n
       PROVE  /\ ids[p] = log[p].id /\ ids[p] \in Nat /\ log[p].type \in types
              /\ \A raw \in log[p].usage : KimiUsage(raw) \in TokenRecords
              /\ log[p].type = "TurnBegin" => Own(ids, p)
  <2>1. /\ owner[p] \in 1..Len(f) /\ pos[p] \in 1..Len(lists[owner[p]])
        /\ log[p] = lists[owner[p]][pos[p]]
        /\ \A q \in 1..p - 1 : owner[q] < owner[p] \/ (owner[q] = owner[p] /\ pos[q] < pos[p])
    BY <1>8 DEF ComesFrom
  <2>2. \A q \in 1..n : log[q].id = owner[q] /\ owner[q] \in Nat /\ pos[q] \in Nat /\ pos[q] >= 1
    BY <1>6, <1>8 DEF ComesFrom
  <2>3. \A q \in 1..n : ids[q] = log[q].id
    BY DEF Ids
  <2>4. log[p].type \in types /\ (log[p].type = "TurnBegin" => pos[p] = 1)
        /\ log[p].usage = Told(owner[p])
    BY <1>6, <2>1
  <2>5. ASSUME log[p].type = "TurnBegin", NEW q \in 1..p - 1 PROVE ids[q] # ids[p]
    <3>1. q \in 1..n
      BY <1>7
    <3> HIDE DEF ids, n
    <3> QED
      BY <2>1, <2>2, <2>3, <2>4, <2>5, <3>1
  <2> HIDE DEF ids, n
  <2> QED
    BY <1>9, <2>1, <2>2, <2>3, <2>4, <2>5 DEF Own
<1>11. ASSUME NEW k \in 1..n PROVE KeepsGood("kimi", log, ids, k) /\ ids[k] \in Nat
  <2>1. k \in Nat \ {0} /\ ids[k] \in Nat
    BY <1>10
  <2>2. \A d : Step("kimi", log, d, k) = KimiNormalized(d, log[k]) /\ Beside("kimi", d)
    BY Zenon DEF Step, Beside
  <2> HIDE DEF ids, n
  <2>3. ASSUME NEW d, GoodDraft(d, Upto(ids, k - 1))
        PROVE  GoodDraft(KimiNormalized(d, log[k]), Upto(ids, k))
    <3>1. GoodDraft(d, Upto(ids, k))
      BY <2>1, <2>3, GoodNext
    <3>2. \A status \in Statuses : /\ GoodDraft(Marked(d, d.active, status), Upto(ids, k - 1))
                                   /\ GoodDraft(Marked(d, d.active, status), Upto(ids, k))
      BY <2>3, <3>1, GoodMarked
    <3>3. CASE log[k].type = "TurnBegin"
      <4>1. GoodDraft(Opened(Marked(d, d.active, "completed"), log[k].id), Upto(ids, k))
        BY <1>10, <2>1, <3>2, <3>3, OpensNext DEF Statuses
      <4> QED
        BY <3>3, <4>1 DEF KimiNormalized
    <3>4. CASE log[k].type = "TurnEnd"
      BY <3>2, <3>4 DEF KimiNormalized, Statuses
    <3>5. CASE log[k].type = "StepInterrupted"
      BY <3>2, <3>5 DEF KimiNormalized, Statuses
    <3>6. CASE log[k].type = "StatusUpdate"
      <4>1. CASE log[k].usage = {}
        BY <3>1, <3>6, <4>1 DEF KimiNormalized
      <4>2. CASE log[k].usage # {}
        <5>1. (CHOOSE raw \in log[k].usage : TRUE) \in log[k].usage
          BY <4>2
        <5>2. KimiUsage(CHOOSE raw \in log[k].usage : TRUE) \in TokenRecords
          BY <1>10, <5>1
        <5> QED
          BY <3>1, <3>6, <4>2, <5>2, GoodCalled DEF KimiNormalized
      <4> QED
        BY <4>1, <4>2
    <3>7. CASE log[k].type = "ToolCall"
      BY <3>1, <3>7, GoodToolUsed DEF KimiNormalized
    <3>8. CASE log[k].type = "CompactionEnd"
      BY <3>1, <3>8, GoodCompacted DEF KimiNormalized
    <3> QED
      BY <1>10, <3>3, <3>4, <3>5, <3>6, <3>7, <3>8
  <2> QED
    BY <2>1, <2>2, <2>3 DEF KeepsGood
<1>12. ReadTo("kimi", log, NoDraft, n, draft)
  BY <1>7, KimiReads
<1>13. GoodDraft(NoDraft, {}) /\ Beside("kimi", NoDraft)
  BY GoodAtFirst DEF Beside
<1>14. KimiConversation(KimiLog(f)) = Rows(draft)
  BY DEF KimiConversation, log
<1> HIDE DEF draft, ids, n
<1>15. GoodDraft(draft, Nat)
  BY <1>7, <1>11, <1>12, <1>13, ReadWhole
<1> QED
  BY <1>14, <1>15 DEF RowsOfGood


(* Codex. *)
LEMMA CodexRows ==
  ASSUME NEW f, Uses(f)
  PROVE  RowsOfGood(CodexConversation(CodexLog(f)))
<1> DEFINE lists == Records(f, LAMBDA i : CodexEvents(f, i))
           log == CodexLog(f)
           n == Len(log)
           ids == [p \in 1..n |-> IF log[p].type = "task_started" THEN log[p].turn ELSE 0]
           draft == Drafted(CodexNormalized, NoDraft, log)
<1>1. lists = [i \in DOMAIN f |-> lists[i]]
  BY DEF Records
<1>2. /\ IsList(f) /\ Len(f) \in Nat /\ IsList(lists) /\ Len(lists) = Len(f) /\ DOMAIN f = 1..Len(f)
      /\ \A k \in 1..Len(f) : f[k].use \in TokenRecords
  BY <1>1, RecordsAre
<1>3. \A i \in 1..Len(f) : lists[i] = CodexEvents(f, i)
  BY <1>2 DEF Records
<1>4. log = FlattenSeq(lists)
  BY DEF CodexLog
<1> HIDE DEF lists
<1> DEFINE UseOf(i) == [input |-> InputOf(f[i].use), cached |-> f[i].use[2], write |-> f[i].use[3],
                        output |-> OutputOf(f[i].use), reasoning |-> f[i].use[5],
                        total |-> Total(f[i].use)]
           Event(i, type) == [type |-> type, turn |-> Within(f, i), usage |-> UseOf(i)]
<1>5. ASSUME NEW i \in 1..Len(f)
      PROVE  /\ IsList(lists[i])
             /\ \A p \in 1..Len(lists[i]) :
                  /\ lists[i][p].usage = UseOf(i)
                  /\ lists[i][p].type = "task_started" =>
                       p = 1 /\ f[i].kind = "ask" /\ lists[i][p].turn = Within(f, i)
  <2>1. \A type : Event(i, type).type = type /\ Event(i, type).turn = Within(f, i) /\ Event(i, type).usage = UseOf(i)
    OBVIOUS
  <2>2. \/ f[i].kind = "ask" /\ lists[i] = <<Event(i, "task_started"), Event(i, "turn_context")>>
        \/ lists[i] = <<Event(i, "token_count"), Event(i, "function_call")>>
        \/ lists[i] = <<Event(i, "token_count"), Event(i, "task_complete")>>
        \/ lists[i] = <<Event(i, "turn_aborted")>>
        \/ lists[i] = <<Event(i, "compacted")>>
        \/ lists[i] = <<Event(i, "thread_settings_applied")>>
    <3>1. CASE f[i].kind = "ask"
      BY <1>3, <3>1, Zenon DEF CodexEvents
    <3>2. CASE f[i].kind = "answer"
      <4>1. lists[i] = <<Event(i, "token_count"),
                         Event(i, IF f[i].tool THEN "function_call" ELSE "task_complete")>>
        BY <1>3, <3>2, Zenon DEF CodexEvents
      <4> HIDE DEF Event
      <4> QED
        BY <4>1
    <3>3. CASE f[i].kind = "fail"
      BY <1>3, <3>3, Zenon DEF CodexEvents
    <3>4. CASE f[i].kind = "compact"
      BY <1>3, <3>4, Zenon DEF CodexEvents
    <3>5. CASE f[i].kind \notin {"ask", "answer", "fail", "compact"}
      BY <1>3, <3>5, Zenon DEF CodexEvents
    <3> QED
      BY <3>1, <3>2, <3>3, <3>4, <3>5
  <2> HIDE DEF Event, UseOf
  <2>3. (\A p \in 1..1 : p = 1) /\ \A p \in 1..2 : p = 1 \/ p = 2
    OBVIOUS
  <2>4. CASE f[i].kind = "ask" /\ lists[i] = <<Event(i, "task_started"), Event(i, "turn_context")>>
    <3>1. IsList(lists[i]) /\ Len(lists[i]) = 2 /\ lists[i][1] = Event(i, "task_started")
          /\ lists[i][2] = Event(i, "turn_context")
      BY <2>4, WrittenOut
    <3> QED
      BY <2>1, <2>3, <2>4, <3>1
  <2>5. ASSUME NEW a, NEW b, a # "task_started", b # "task_started", lists[i] = <<Event(i, a), Event(i, b)>>
        PROVE  /\ IsList(lists[i])
               /\ \A p \in 1..Len(lists[i]) : lists[i][p].usage = UseOf(i) /\ lists[i][p].type # "task_started"
    <3>1. IsList(lists[i]) /\ Len(lists[i]) = 2 /\ lists[i][1] = Event(i, a) /\ lists[i][2] = Event(i, b)
      BY <2>5, WrittenOut
    <3> QED
      BY <2>1, <2>3, <2>5, <3>1
  <2>6. ASSUME NEW a, a # "task_started", lists[i] = <<Event(i, a)>>
        PROVE  /\ IsList(lists[i])
               /\ \A p \in 1..Len(lists[i]) : lists[i][p].usage = UseOf(i) /\ lists[i][p].type # "task_started"
    <3>1. IsList(lists[i]) /\ Len(lists[i]) = 1 /\ lists[i][1] = Event(i, a)
      BY <2>6, WrittenOut
    <3> QED
      BY <2>1, <2>3, <2>6, <3>1
  <2> QED
    BY <2>2, <2>4, <2>5, <2>6
<1>6. n \in Nat /\ \A p \in 1..n : \E i, r : EventAt(log, lists, p, i, r)
  <2>1. \A i \in 1..Len(lists) : IsList(lists[i])
    BY <1>2, <1>5
  <2> HIDE DEF log
  <2> QED
    BY <1>2, <1>4, <2>1, EventsAre
<1> HIDE DEF log
<1>7. ASSUME NEW i \in 1..Len(f) PROVE CodexUsage(UseOf(i)) \in TokenRecords
  <2> DEFINE raw == UseOf(i)
  <2>1. f[i].use \in TokenRecords
    BY <1>2
  <2>2. /\ raw.input \in Nat /\ raw.cached \in Nat /\ raw.write \in Nat
        /\ raw.output \in Nat /\ raw.reasoning \in Nat /\ raw.total \in Nat
        /\ DOMAIN raw = {"input", "cached", "write", "output", "reasoning", "total"}
    BY <2>1, UseIs
  <2> HIDE DEF raw
  <2> DEFINE use == [field \in DOMAIN raw |-> InRange(raw[field])]
  <2>3. /\ use.input \in Nat /\ use.cached \in Nat /\ use.write \in Nat
        /\ use.output \in Nat /\ use.reasoning \in Nat /\ use.total \in Nat
    BY <2>2, BoundedIs
  <2> DEFINE input == use.input
             cached == use.cached
             write == Least(use.write, Over(MaxBigint, cached))
             uncached == Over(input, cached + write)
             left == Over(MaxBigint, uncached + cached + write)
             reasoning == Least(use.reasoning, left)
             visible == Least(Over(use.output, use.reasoning), Over(left, reasoning))
             known == uncached + cached + write + visible + reasoning
             rest == Least(Over(use.total, known), Over(MaxBigint, known))
  <2>4. CodexUsage(raw) = <<uncached, cached, write, visible, reasoning, rest>>
    BY DEF CodexUsage
  <2>5. MaxBigint \in Nat
    BY MaxBigintAssumption
  <2>6. CodexUsage(raw) \in TokenRecords
    <3>1. input \in Nat /\ cached \in Nat /\ write \in Nat
      BY <2>3, <2>5, Differences
    <3> HIDE DEF use, input, cached, write
    <3>2. uncached \in Nat /\ uncached + cached + write \in Nat
      <4>1. cached + write \in Nat
        BY <3>1
      <4>2. uncached \in Nat
        BY <3>1, <4>1, Differences
      <4> HIDE DEF uncached
      <4> QED
        BY <3>1, <4>2
    <3> HIDE DEF uncached
    <3>3. left \in Nat
      BY <2>5, <3>2, Differences
    <3> HIDE DEF left
    <3>4. reasoning \in Nat
      BY <2>3, <3>3, Differences
    <3> HIDE DEF reasoning
    <3>5. visible \in Nat
      BY <2>3, <3>3, <3>4, Differences
    <3> HIDE DEF visible
    <3>6. known \in Nat
      BY <3>1, <3>2, <3>4, <3>5
    <3> HIDE DEF known
    <3>7. rest \in Nat
      BY <2>3, <2>5, <3>6, Differences
    <3> HIDE DEF rest
    <3> QED
      BY <2>4, <3>1, <3>2, <3>4, <3>5, <3>7 DEF TokenRecords
  <2> QED
    BY <2>6 DEF raw
<1> HIDE DEF UseOf
<1>8. ASSUME NEW p \in 1..n
      PROVE  /\ ids[p] \in Nat /\ CodexUsage(log[p].usage) \in TokenRecords
             /\ log[p].type = "task_started" => Own(ids, p) /\ ids[p] = log[p].turn
  <2>1. PICK i, r : EventAt(log, lists, p, i, r)
    BY <1>6
  <2>2. /\ i \in 1..Len(f) /\ r \in 1..Len(lists[i]) /\ log[p] = lists[i][r]
        /\ \A q \in 1..p - 1 : \E j \in 1..i : \E t \in 1..Len(lists[j]) :
             log[q] = lists[j][t] /\ (j < i \/ t < r)
    BY <1>2, <2>1 DEF EventAt
  <2>3. log[p].usage = UseOf(i)
        /\ (log[p].type = "task_started" => r = 1 /\ f[i].kind = "ask" /\ log[p].turn = Within(f, i))
    BY <1>5, <2>2
  <2>4. ids[p] = IF log[p].type = "task_started" THEN log[p].turn ELSE 0
    OBVIOUS
  <2>5. f[i].kind = "ask" => Within(f, i) \in Nat \ {0}
    BY <1>2, <2>2, LaterTurn
  <2>6. ASSUME log[p].type = "task_started", NEW q \in 1..p - 1 PROVE ids[q] # ids[p]
    <3>1. q \in 1..n
      BY <1>6
    <3>2. ids[q] = IF log[q].type = "task_started" THEN log[q].turn ELSE 0
      BY <3>1
    <3>3. PICK j \in 1..i : \E t \in 1..Len(lists[j]) : log[q] = lists[j][t] /\ (j < i \/ t < r)
      BY <2>2
    <3>4. j \in 1..Len(f)
      BY <1>2, <2>2
    <3>5. log[q].type = "task_started" => f[j].kind = "ask" /\ log[q].turn = Within(f, j)
      BY <1>5, <3>3, <3>4
    <3>6. r = 1 /\ f[i].kind = "ask" /\ log[p].turn = Within(f, i) /\ j \in 1..i - 1
      <4>1. r = 1 /\ f[i].kind = "ask" /\ log[p].turn = Within(f, i)
        BY <2>3, <2>6
      <4>2. j < i
        <5>1. PICK t \in 1..Len(lists[j]) : j < i \/ t < r
          BY <3>3
        <5>2. t >= 1 /\ t \in Int
          BY <5>1
        <5> QED
          BY <4>1, <5>1, <5>2
      <4>3. j \in Nat /\ i \in Nat
        BY <2>2
      <4> QED
        BY <4>1, <4>2, <4>3
    <3>7. f[j].kind = "ask" => Within(f, j) # Within(f, i)
      BY <1>2, <2>2, <3>6, LaterTurn
    <3> HIDE DEF ids, n
    <3> QED
      BY <2>4, <2>5, <2>6, <3>2, <3>5, <3>6, <3>7
  <2> HIDE DEF ids, n
  <2>7. ids[p] \in Nat
    BY <2>3, <2>4, <2>5
  <2>8. CodexUsage(log[p].usage) \in TokenRecords
    BY <1>7, <2>2, <2>3
  <2> QED
    BY <2>4, <2>6, <2>7, <2>8 DEF Own
<1> HIDE DEF ids, n
<1>9. ASSUME NEW k \in 1..n PROVE KeepsGood("codex", log, ids, k) /\ ids[k] \in Nat
  <2>1. k \in Nat \ {0} /\ ids[k] \in Nat
    BY <1>8
  <2>2. \A d : Step("codex", log, d, k) = CodexNormalized(d, log[k]) /\ Beside("codex", d)
    BY Zenon DEF Step, Beside
  <2>3. ASSUME NEW d, GoodDraft(d, Upto(ids, k - 1))
        PROVE  GoodDraft(CodexNormalized(d, log[k]), Upto(ids, k))
    <3> DEFINE keys == Upto(ids, k)
    <3>1. GoodDraft(d, keys)
      BY <2>1, <2>3, GoodNext
    <3>2. ASSUME log[k].type = "task_started" PROVE GoodDraft(Opened(d, log[k].turn), keys)
      BY <1>8, <2>1, <2>3, <3>2, OpensNext
    <3> HIDE DEF keys
    <3>3. \A e, v : GoodDraft(e, keys) => GoodDraft([e EXCEPT !.active = v], keys)
      <4>1. "active" \notin {"turns", "calls"}
        OBVIOUS
      <4>2. \A e, v : GoodDraft(e, keys) => GoodDraft([e EXCEPT !["active"] = v], keys)
        BY <4>1, GoodBeside
      <4> QED
        BY <4>2
    <3>4. \A turn : \A status \in Statuses : GoodDraft([Marked(d, turn, status) EXCEPT !.active = 0], keys)
      BY <3>1, <3>3, GoodMarked
    <3>5. CASE log[k].type = "task_started"
      BY <3>2, <3>5, Zenon DEF CodexNormalized, CodexTasked, keys
    <3>6. CASE log[k].type = "turn_context"
      <4>1. CodexNormalized(d, log[k]) = [d EXCEPT !.active = TurnOf(d, log[k].turn)]
        BY <3>6, Zenon DEF CodexNormalized, CodexTasked
      <4> QED
        BY <3>1, <3>3, <4>1 DEF keys
    <3>7. CASE log[k].type = "task_complete"
      <4>1. CodexNormalized(d, log[k]) = [Marked(d, TurnOf(d, log[k].turn), "completed") EXCEPT !.active = 0]
        BY <3>7, Zenon DEF CodexNormalized, CodexTasked
      <4> QED
        BY <3>4, <4>1 DEF Statuses, keys
    <3>8. CASE log[k].type = "turn_aborted"
      <4>1. CodexNormalized(d, log[k]) = [Marked(d, TurnOf(d, log[k].turn), "aborted") EXCEPT !.active = 0]
        BY <3>8, Zenon DEF CodexNormalized, CodexTasked
      <4> QED
        BY <3>4, <4>1 DEF Statuses, keys
    <3>9. CASE log[k].type = "compacted"
      BY <3>1, <3>9, GoodCompacted DEF CodexNormalized, keys
    <3>10. CASE log[k].type = "token_count"
      BY <1>8, <3>1, <3>10, GoodCalled DEF CodexNormalized, CodexCounted, keys
    <3>11. CASE log[k].type = "function_call"
      BY <3>1, <3>11, GoodToolUsed DEF CodexNormalized, keys
    <3>12. CASE log[k].type \notin {"task_started", "turn_context", "task_complete", "turn_aborted",
                                    "compacted", "token_count", "function_call"}
      BY <3>1, <3>12 DEF CodexNormalized, keys
    <3> QED
      BY <3>5, <3>6, <3>7, <3>8, <3>9, <3>10, <3>11, <3>12 DEF keys
  <2> QED
    BY <2>1, <2>2, <2>3 DEF KeepsGood
<1>10. ReadTo("codex", log, NoDraft, n, draft)
  BY <1>6, CodexReads DEF n
<1>11. GoodDraft(NoDraft, {}) /\ Beside("codex", NoDraft)
  BY GoodAtFirst DEF Beside
<1>12. CodexConversation(CodexLog(f)) = Rows(draft)
  BY DEF CodexConversation, log
<1> HIDE DEF draft, ids, n
<1>13. GoodDraft(draft, Nat)
  BY <1>6, <1>9, <1>10, <1>11, ReadWhole
<1> QED
  BY <1>12, <1>13 DEF RowsOfGood


(* GitHub Copilot CLI. *)
LEMMA CopilotRows ==
  ASSUME NEW f, Uses(f), OfTool(f, CopilotTraits)
  PROVE  RowsOfGood(CopilotConversation(CopilotLog(f)))
<1> DEFINE lists == Records(f, LAMBDA i : CopilotEvents(f, i))
           log == CopilotLog(f)
           n == Len(log)
           ids == Ids(log)
           draft == Drafted(CopilotNormalized, CopilotEmpty, log)
<1>1. lists = [i \in DOMAIN f |-> lists[i]]
  BY DEF Records
<1>2. /\ IsList(f) /\ Len(f) \in Nat /\ IsList(lists) /\ Len(lists) = Len(f) /\ DOMAIN f = 1..Len(f)
  BY <1>1, RecordsAre
<1>3. \A i \in 1..Len(f) : lists[i] = CopilotEvents(f, i)
  BY <1>2 DEF Records
<1>4. log = FlattenSeq(lists)
  BY DEF CopilotLog
<1> HIDE DEF lists
<1> DEFINE used(i) == CopilotUsedBy(f, i)
           UseOf(i) == [inputTokens |-> InputOf(used(i)), cacheReadTokens |-> used(i)[2],
                        cacheWriteTokens |-> used(i)[3], outputTokens |-> OutputOf(used(i)),
                        reasoningTokens |-> used(i)[5]]
           Event(i, type) == [type |-> type, id |-> i, root |-> f[i].kind # "side",
                              error |-> ~f[i].ok,
                              toolCallId |-> IF f[i].kind = "again" THEN Repeated(f, i) ELSE i,
                              usage |-> UseOf(i)]
<1>5. ASSUME NEW i \in 1..Len(f)
      PROVE  /\ IsList(lists[i])
             /\ \A p \in 1..Len(lists[i]) :
                  /\ lists[i][p].usage = UseOf(i) /\ lists[i][p].id = i
                  /\ lists[i][p].type = "user.message" => p = 1
  <2>1. \A type : Event(i, type).type = type /\ Event(i, type).id = i /\ Event(i, type).usage = UseOf(i)
    OBVIOUS
  <2> DEFINE ends == IF f[i].tool THEN "tool.execution_start" ELSE "assistant.turn_end"
  <2>2. \/ lists[i] = <<Event(i, "user.message")>>
        \/ lists[i] = <<Event(i, "assistant.message"), Event(i, "tool.execution_start")>>
        \/ lists[i] = <<Event(i, "assistant.message"), Event(i, "assistant.turn_end")>>
        \/ lists[i] = <<Event(i, "tool.execution_start")>>
        \/ lists[i] = <<Event(i, "assistant.turn_end")>>
        \/ lists[i] = <<Event(i, "assistant.message"), Event(i, "tool.execution_start"),
                        Event(i, "assistant.turn_end")>>
        \/ lists[i] = <<Event(i, "session.compaction_complete")>>
        \/ lists[i] = <<Event(i, "session.shutdown")>>
    <3>1. f[i].kind \in {"ask", "answer", "again", "side", "compact", "close"}
      BY DEF OfTool, CopilotTraits, Kinds
    <3>2. CASE f[i].kind = "ask"
      BY <1>3, <3>2, Zenon DEF CopilotEvents
    <3>3. CASE f[i].kind = "answer"
      <4>1. lists[i] = <<Event(i, "assistant.message"), Event(i, ends)>>
        BY <1>3, <3>3, Zenon DEF CopilotEvents
      <4> HIDE DEF Event
      <4> QED
        BY <4>1
    <3>4. CASE f[i].kind = "again"
      <4>1. lists[i] = IF f[Repeated(f, i)].tool THEN <<Event(i, "tool.execution_start")>>
                       ELSE <<Event(i, "assistant.turn_end")>>
        BY <1>3, <3>4, Zenon DEF CopilotEvents
      <4> HIDE DEF Event
      <4> QED
        BY <4>1
    <3>5. CASE f[i].kind = "side"
      BY <1>3, <3>5, Zenon DEF CopilotEvents
    <3>6. CASE f[i].kind = "compact"
      BY <1>3, <3>6, Zenon DEF CopilotEvents
    <3>7. CASE f[i].kind = "close"
      BY <1>3, <3>7, Zenon DEF CopilotEvents
    <3> QED
      BY <3>1, <3>2, <3>3, <3>4, <3>5, <3>6, <3>7
  <2> HIDE DEF Event, UseOf
  <2>3. (\A p \in 1..1 : p = 1) /\ (\A p \in 1..2 : p = 1 \/ p = 2) /\ \A p \in 1..3 : p = 1 \/ p = 2 \/ p = 3
    OBVIOUS
  <2> DEFINE Fine == /\ IsList(lists[i])
                     /\ \A p \in 1..Len(lists[i]) :
                          /\ lists[i][p].usage = UseOf(i) /\ lists[i][p].id = i
                          /\ lists[i][p].type = "user.message" => p = 1
  <2>4. ASSUME NEW a, lists[i] = <<Event(i, a)>> PROVE Fine
    <3>1. IsList(lists[i]) /\ Len(lists[i]) = 1 /\ lists[i][1] = Event(i, a)
      BY <2>4, WrittenOut
    <3> QED
      BY <2>1, <2>3, <3>1
  <2>5. ASSUME NEW a, NEW b, b # "user.message", lists[i] = <<Event(i, a), Event(i, b)>> PROVE Fine
    <3>1. IsList(lists[i]) /\ Len(lists[i]) = 2 /\ lists[i][1] = Event(i, a) /\ lists[i][2] = Event(i, b)
      BY <2>5, WrittenOut
    <3> QED
      BY <2>1, <2>3, <2>5, <3>1
  <2>6. ASSUME NEW a, NEW b, NEW c, b # "user.message", c # "user.message",
               lists[i] = <<Event(i, a), Event(i, b), Event(i, c)>>
        PROVE Fine
    <3>1. IsList(lists[i]) /\ Len(lists[i]) = 3 /\ lists[i][1] = Event(i, a) /\ lists[i][2] = Event(i, b)
          /\ lists[i][3] = Event(i, c)
      BY <2>6, WrittenOut
    <3> QED
      BY <2>1, <2>3, <2>6, <3>1
  <2>7. Fine
    <3> HIDE DEF Fine
    <3> QED
      BY <2>2, <2>4, <2>5, <2>6
  <2> QED
    BY <2>7
<1>6. n \in Nat /\ \A p \in 1..n : \E i, r : EventAt(log, lists, p, i, r)
  <2>1. \A i \in 1..Len(lists) : IsList(lists[i])
    BY <1>2, <1>5
  <2> HIDE DEF log
  <2> QED
    BY <1>2, <1>4, <2>1, EventsAre
<1> HIDE DEF log
<1>7. ASSUME NEW i \in 1..Len(f) PROVE CopilotUsage(UseOf(i)) \in TokenRecords
  <2> DEFINE raw == UseOf(i)
  <2>1. used(i) \in TokenRecords
    BY UsedAtAre DEF CopilotUsedBy
  <2>2. /\ raw.inputTokens \in Nat /\ raw.cacheReadTokens \in Nat /\ raw.cacheWriteTokens \in Nat
        /\ raw.outputTokens \in Nat /\ raw.reasoningTokens \in Nat
        /\ DOMAIN raw = {"inputTokens", "cacheReadTokens", "cacheWriteTokens", "outputTokens",
                         "reasoningTokens"}
    <3> HIDE DEF used
    <3> QED
      BY <2>1, UseIs
  <2> HIDE DEF raw
  <2> DEFINE use == CountersOf(raw)
  <2>7. /\ use.inputTokens \in Nat /\ use.cacheReadTokens \in Nat /\ use.cacheWriteTokens \in Nat
        /\ use.outputTokens \in Nat /\ use.reasoningTokens \in Nat
    <3>1. \A field \in DOMAIN raw : raw[field] \in Nat
      BY <2>2
    <3> QED
      BY <2>2, <3>1, CountersAre
  <2> DEFINE cached == Least(use.inputTokens, use.cacheReadTokens)
             rest == use.inputTokens - cached
             written == Least(rest, use.cacheWriteTokens)
             reasoning == Least(use.outputTokens, use.reasoningTokens)
             uncached == rest - written
             visible == use.outputTokens - reasoning
  <2>5. CopilotUsage(raw) = TokensApart(uncached, cached, written, visible, reasoning, 0)
    BY DEF CopilotUsage
  <2> HIDE DEF use
  <2>3. cached \in Nat /\ rest \in Nat /\ reasoning \in Nat /\ visible \in Nat
    BY <2>7, Differences
  <2>4. written \in Nat /\ uncached \in Nat
    <3> HIDE DEF rest
    <3> QED
      BY <2>3, <2>7, Differences
  <2> HIDE DEF cached, rest, written, reasoning, uncached, visible
  <2>6. CopilotUsage(raw) \in TokenRecords
    BY <2>3, <2>4, <2>5, TokensApartAre
  <2> QED
    BY <2>6 DEF raw
<1> HIDE DEF UseOf
<1>8. ASSUME NEW p \in 1..n
      PROVE  /\ ids[p] \in Nat /\ CopilotUsage(log[p].usage) \in TokenRecords
             /\ log[p].type = "user.message" => Own(ids, p) /\ ids[p] = log[p].id
  <2>1. PICK i, r : EventAt(log, lists, p, i, r)
    BY <1>6
  <2>2. /\ i \in 1..Len(f) /\ r \in 1..Len(lists[i]) /\ log[p] = lists[i][r]
        /\ \A q \in 1..p - 1 : \E j \in 1..i : \E t \in 1..Len(lists[j]) :
             log[q] = lists[j][t] /\ (j < i \/ t < r)
    BY <1>2, <2>1 DEF EventAt
  <2>3. log[p].usage = UseOf(i) /\ log[p].id = i /\ (log[p].type = "user.message" => r = 1)
    BY <1>5, <2>2
  <2>4. \A q \in 1..n : ids[q] = log[q].id
    BY DEF Ids
  <2>5. ASSUME log[p].type = "user.message", NEW q \in 1..p - 1 PROVE ids[q] # ids[p]
    <3>1. q \in 1..n
      BY <1>6
    <3>2. PICK j \in 1..i : \E t \in 1..Len(lists[j]) : log[q] = lists[j][t] /\ (j < i \/ t < r)
      BY <2>2
    <3>3. j \in 1..Len(f) /\ i \in Nat /\ j \in Nat
      BY <1>2, <2>2
    <3>4. log[q].id = j
      BY <1>5, <3>2, <3>3
    <3>5. j < i
      <4>1. PICK t \in 1..Len(lists[j]) : j < i \/ t < r
        BY <3>2
      <4>2. t >= 1 /\ t \in Int
        BY <4>1
      <4> QED
        BY <2>3, <2>5, <4>1, <4>2
    <3> HIDE DEF ids, n
    <3> QED
      BY <2>3, <2>4, <3>1, <3>3, <3>4, <3>5
  <2> HIDE DEF ids, n
  <2>6. ids[p] \in Nat /\ ids[p] = log[p].id
    BY <2>2, <2>3, <2>4
  <2>7. CopilotUsage(log[p].usage) \in TokenRecords
    BY <1>7, <2>2, <2>3
  <2> QED
    BY <2>5, <2>6, <2>7 DEF Own
<1> HIDE DEF ids, n
<1>9. \A d : Beside("copilot", d) <=> "shutdown" \in DOMAIN d /\ (d.shutdown # <<>> =>
                                           CopilotUsage(d.shutdown[1].usage) \in TokenRecords)
  BY Zenon DEF Beside
<1>10. ASSUME NEW k \in 1..n PROVE KeepsGood("copilot", log, ids, k) /\ ids[k] \in Nat
  <2>1. k \in Nat \ {0} /\ ids[k] \in Nat
    BY <1>8
  <2>2. \A d : Step("copilot", log, d, k) = CopilotNormalized(d, log[k])
    BY ZenonT(60) DEF Step
  <2>3. ASSUME NEW d, GoodDraft(d, Upto(ids, k - 1)), Beside("copilot", d)
        PROVE  GoodDraft(CopilotNormalized(d, log[k]), Upto(ids, k)) /\ Beside("copilot", CopilotNormalized(d, log[k]))
    <3> DEFINE keys == Upto(ids, k)
               Is(new) == GoodDraft(new, keys) /\ Beside("copilot", new)
    <3>1. GoodDraft(d, keys)
      BY <2>1, <2>3, GoodNext
    <3>2. ASSUME log[k].type = "user.message" PROVE GoodDraft(Opened(d, log[k].id), keys)
      BY <1>8, <2>1, <2>3, <3>2, OpensNext
    <3> HIDE DEF keys
    <3>3. \A new : Keeps(d, new, "shutdown") => Beside("copilot", new)
      BY <1>9, <2>3 DEF Keeps
    <3>4. "shutdown" \notin {"turns", "active", "calls", "tools"}
      OBVIOUS
    <3>5. /\ \A key : Keeps(d, Opened(d, key), "shutdown")
          /\ \A turn, status : Keeps(d, Marked(d, turn, status), "shutdown")
          /\ \A turn, one : Keeps(d, ToolUsed(d, turn, one), "shutdown")
      BY <3>4, KeptBeside
    <3>6. CASE ~log[k].root
      <4>1. CopilotNormalized(d, log[k]) = d
        BY <3>6, Zenon DEF CopilotNormalized
      <4> QED
        BY <2>3, <3>1, <4>1 DEF keys
    <3>7. CASE log[k].root /\ log[k].type = "user.message"
      BY <3>2, <3>3, <3>5, <3>7 DEF CopilotNormalized, keys
    <3>8. CASE log[k].root /\ log[k].type = "assistant.turn_end"
      <4>1. CopilotNormalized(d, log[k]) = Marked(d, d.active, "completed")
        BY <3>8, Zenon DEF CopilotNormalized
      <4> QED
        BY <3>1, <3>3, <3>5, <4>1, GoodMarked DEF keys, Statuses
    <3>9. CASE log[k].root /\ log[k].type = "tool.execution_start"
      <4> DEFINE one == ToolUsed(d, d.active, log[k].toolCallId \notin d.seen)
                 more == one.seen \cup {log[k].toolCallId}
      <4>1. CopilotNormalized(d, log[k]) = [one EXCEPT !["seen"] = more]
        BY <3>9, Zenon DEF CopilotNormalized
      <4>2. GoodDraft(one, keys) /\ Keeps(d, one, "shutdown")
        BY <3>1, <3>5, GoodToolUsed
      <4> HIDE DEF one, more
      <4>3. GoodDraft([one EXCEPT !["seen"] = more], keys)
        <5>1. "seen" \notin {"turns", "calls"}
          OBVIOUS
        <5> QED
          BY <4>2, <5>1, GoodBeside
      <4>4. Keeps(d, [one EXCEPT !["seen"] = more], "shutdown")
        BY <4>2 DEF Keeps
      <4> QED
        BY <3>3, <4>1, <4>3, <4>4 DEF keys
    <3>10. CASE log[k].root /\ log[k].type = "session.compaction_complete"
      <4>1. GoodDraft([d EXCEPT !.compactions = @ + 1], keys)
        BY <3>1, GoodCompacted
      <4>2. Keeps(d, [d EXCEPT !.compactions = @ + 1], "shutdown")
        BY DEF Keeps
      <4> QED
        BY <3>3, <3>10, <4>1, <4>2 DEF CopilotNormalized, keys
    <3>11. CASE log[k].root /\ log[k].type = "session.shutdown"
      <4> DEFINE new == [d EXCEPT !["shutdown"] = <<log[k]>>]
      <4>1. CopilotNormalized(d, log[k]) = new
        BY <3>11, Zenon DEF CopilotNormalized
      <4>2. GoodDraft(new, keys)
        <5>1. "shutdown" \notin {"turns", "calls"}
          OBVIOUS
        <5> QED
          BY <3>1, <5>1, GoodBeside
      <4>3. "shutdown" \in DOMAIN new /\ new.shutdown = <<log[k]>>
        BY <1>9, <2>3
      <4> HIDE DEF new
      <4>4. Beside("copilot", new)
        BY <1>8, <1>9, <4>3
      <4> QED
        BY <4>1, <4>2, <4>4 DEF keys
    <3>13. ~log[k].root \/ log[k].root
      OBVIOUS
    <3>12. CASE log[k].root /\ log[k].type \notin {"user.message", "assistant.turn_end", "tool.execution_start",
                                    "session.compaction_complete", "session.shutdown"}
      BY <2>3, <3>1, <3>12 DEF CopilotNormalized, keys
    <3> QED
      BY <3>6, <3>7, <3>8, <3>9, <3>10, <3>11, <3>12
  <2> QED
    BY <2>1, <2>2, <2>3 DEF KeepsGood
<1>11. ReadTo("copilot", log, CopilotEmpty, n, draft)
  BY <1>6, CopilotReads DEF n
<1>12. GoodDraft(CopilotEmpty, {}) /\ Beside("copilot", CopilotEmpty)
  <2> DEFINE beside == [shutdown |-> <<>>, seen |-> {}]
  <2>1. "shutdown" \in DOMAIN beside \ DOMAIN NoDraft /\ beside.shutdown = <<>>
    BY DEF NoDraft
  <2>2. CopilotEmpty = DraftWith(beside)
    BY DEF CopilotEmpty
  <2> HIDE DEF beside
  <2>3. GoodDraft(CopilotEmpty, {}) /\ "shutdown" \in DOMAIN CopilotEmpty /\ CopilotEmpty.shutdown = <<>>
    BY <2>1, <2>2, GoodWith
  <2> QED
    BY <1>9, <2>3
<1> DEFINE last == draft.active
           aborted == /\ last # 0 /\ draft.shutdown # <<>>
                      /\ draft.shutdown[1].error /\ draft.turns[last].status # "completed"
           marked == IF aborted THEN Marked(draft, last, "aborted") ELSE draft
           whole == IF draft.shutdown = <<>> THEN marked
                    ELSE Called(marked, 0, CopilotUsage(draft.shutdown[1].usage))
<1>13. CopilotConversation(CopilotLog(f)) = Rows(whole)
  BY DEF CopilotConversation, log
<1> HIDE DEF draft
<1>14. GoodDraft(draft, Nat) /\ Beside("copilot", draft)
  BY <1>6, <1>10, <1>11, <1>12, ReadWhole
<1>15. GoodDraft(marked, Nat)
  <2> HIDE DEF aborted
  <2> QED
    BY <1>14, GoodMarked DEF Statuses
<1>16. GoodDraft(whole, Nat)
  <2> HIDE DEF marked
  <2> QED
    BY <1>9, <1>14, <1>15, GoodCalled
<1> HIDE DEF whole
<1> QED
  BY <1>13, <1>16 DEF RowsOfGood


(* Statuses may be stated anew for all turns at once. *)
LEMMA GoodRestated ==
  ASSUME NEW draft, NEW keys, GoodDraft(draft, keys), NEW turns,
         turns = [i \in DOMAIN draft.turns |-> turns[i]],
         \A i \in DOMAIN draft.turns :
            \/ turns[i] = draft.turns[i]
            \/ \E status \in Statuses : turns[i] = [draft.turns[i] EXCEPT !.status = status]
  PROVE  GoodDraft([draft EXCEPT !.turns = turns], keys)
<1> DEFINE T == [key : Nat, status : Statuses]
           old == draft.turns
<1>1. old \in Seq(T)
  BY DEF GoodDraft
<1>2. DOMAIN old = 1..Len(old) /\ Len(old) \in Nat /\ \A i \in 1..Len(old) : old[i] \in T
  <2> HIDE DEF T, old
  <2> QED
    BY <1>1
<1>3. \A i \in DOMAIN old : turns[i] \in T /\ turns[i].key = old[i].key
  <2> SUFFICES ASSUME NEW i \in DOMAIN old PROVE turns[i] \in T /\ turns[i].key = old[i].key
    OBVIOUS
  <2> DEFINE one == old[i]
  <2>1. one \in T
    BY <1>2
  <2>2. turns[i] = one \/ \E status \in Statuses : turns[i] = [one EXCEPT !.status = status]
    OBVIOUS
  <2> HIDE DEF one
  <2>3. turns[i] \in T /\ turns[i].key = one.key
    BY <2>1, <2>2
  <2> QED
    BY <2>3 DEF one
<1>4. turns = [i \in DOMAIN old |-> turns[i]]
  OBVIOUS
<1> HIDE DEF old, T
<1>5. turns \in Seq(T) /\ Len(turns) = Len(old)
  <2>1. \A i \in 1..Len(old) : turns[i] \in T
    BY <1>2, <1>3
  <2>2. turns \in [1..Len(old) -> T]
    BY <1>2, <1>4, <2>1
  <2> QED
    BY <1>2, <2>2
<1>6. \A i \in 1..Len(turns) : turns[i].key = old[i].key
  BY <1>2, <1>3, <1>5
<1> QED
  BY <1>5, <1>6, GoodOfTurns DEF T, old


(* Amp, with a ledger of the model calls or without. *)
LEMMA AmpRows ==
  ASSUME NEW f, Uses(f), NEW ledger \in BOOLEAN
  PROVE  RowsOfGood(AmpConversation(AmpThread(f, ledger)))
<1> DEFINE thread == AmpThread(f, ledger)
           records == Records(f, LAMBDA i : AmpMessage(f, ledger, i))
           charges == Records(f, LAMBDA i : AmpEvent(f, i))
           log == thread.messages
           events == thread.events
           n == Len(log)
           ids == Ids(log)
           draft == Drafted(AmpNormalized, AmpEmpty, log)
           Told(message) == /\ message.role = "assistant" => message.usage # {}
                            /\ \A raw \in message.usage :
                                 raw.cacheCreation \in Nat /\ raw.cacheRead \in Nat /\ AmpUsage(raw) \in TokenRecords
           Told2(event) == event.input \in Nat /\ event.output \in Nat /\ event.total \in Nat
<1>1. records = [i \in DOMAIN f |-> records[i]] /\ charges = [i \in DOMAIN f |-> charges[i]]
  BY DEF Records
<1>2. /\ IsList(f) /\ IsList(records) /\ Len(records) = Len(f) /\ DOMAIN f = 1..Len(f)
      /\ IsList(charges) /\ Len(charges) = Len(f)
  BY <1>1, RecordsAre
<1>3. ASSUME NEW k \in 1..Len(f) PROVE records[k].id \in Nat /\ Told(records[k])
  <2>1. records[k] = AmpMessage(f, ledger, k) /\ k \in Nat
    BY <1>2 DEF Records
  <2> DEFINE use == f[k].use
             raw == [input |-> IF ledger THEN 0 ELSE use[1],
                     output |-> IF ledger THEN 0 ELSE OutputOf(use),
                     cacheCreation |-> use[3], cacheRead |-> use[2],
                     total |-> IF ledger THEN 0 ELSE Total(use)]
  <2> HIDE DEF records
  <2>2. use \in TokenRecords
    BY <1>2, RecordsAre
  <2>3. /\ records[k].id = k
        /\ records[k].role = (IF f[k].kind = "answer" THEN "assistant" ELSE "user")
        /\ records[k].usage = IF f[k].kind # "answer" THEN {} ELSE {raw}
    BY <2>1 DEF AmpMessage
  <2>4. /\ raw.input \in Nat /\ raw.output \in Nat /\ raw.total \in Nat
        /\ raw.cacheCreation \in Nat /\ raw.cacheRead \in Nat
        /\ DOMAIN raw = {"input", "output", "cacheCreation", "cacheRead", "total"}
    <3> HIDE DEF use
    <3> QED
      BY <2>2, UseIs
  <2> HIDE DEF raw
  <2>5. AmpUsage(raw) \in TokenRecords
    <3> DEFINE now == CountersOf(raw)
    <3>1. \A field \in DOMAIN raw : raw[field] \in Nat
      BY <2>4
    <3>2. /\ now.input \in Nat /\ now.output \in Nat /\ now.total \in Nat
          /\ now.cacheCreation \in Nat /\ now.cacheRead \in Nat
      BY <2>4, <3>1, CountersAre
    <3>3. AmpUsage(raw) = TokensApart(now.input, now.cacheRead, now.cacheCreation, now.output, 0, now.total)
      BY DEF AmpUsage
    <3> HIDE DEF now
    <3>4. TokensApart(now.input, now.cacheRead, now.cacheCreation, now.output, 0, now.total) \in TokenRecords
      BY <3>2, TokensApartAre
    <3> QED
      BY <3>3, <3>4
  <2> QED
    BY <2>1, <2>3, <2>4, <2>5
<1>4. ASSUME NEW k \in 1..Len(f) PROVE charges[k].id \in Nat /\ Told2(charges[k])
  <2>1. charges[k] = AmpEvent(f, k) /\ k \in Nat
    BY <1>2 DEF Records
  <2> DEFINE use == f[k].use
             cached == IF f[k].kind = "answer" THEN 0 ELSE use[2] + use[3]
  <2> HIDE DEF charges
  <2>2. use \in TokenRecords
    BY <1>2, RecordsAre
  <2>3. /\ charges[k].id = k /\ charges[k].input = use[1] + cached
        /\ charges[k].output = OutputOf(use) /\ charges[k].total = Total(use)
    BY <2>1 DEF AmpEvent
  <2> HIDE DEF use
  <2>4. cached \in Nat /\ use[1] \in Nat /\ OutputOf(use) \in Nat /\ Total(use) \in Nat
    BY <2>2, UseIs
  <2> HIDE DEF cached
  <2> QED
    BY <2>1, <2>3, <2>4
<1>5. log = Table(records, OfKind(f, {"ask", "answer", "note"}))
      /\ events = IF ledger THEN Table(charges, OfKind(f, {"answer", "extra"})) ELSE <<>>
  BY DEF AmpThread
<1> HIDE DEF records, charges, Told, Told2
<1>6. IsList(log) /\ n \in Nat
  BY <1>2, <1>3, <1>5, TableOwn
<1>7. ASSUME NEW k \in 1..n PROVE Own(ids, k) /\ ids[k] = log[k].id /\ Told(log[k])
  <2> HIDE DEF log
  <2> QED
    BY <1>2, <1>3, <1>5, TableOwn
<1>8. IsList(events) /\ \A k \in 1..Len(events) : Told2(events[k])
  <2> HIDE DEF events
  <2>1. CASE ledger
    BY <1>2, <1>4, <1>5, <2>1, TableOwn
  <2>2. CASE ~ledger
    BY <1>5, <2>2, WrittenOut
  <2> QED
    BY <2>1, <2>2
<1>9. ASSUME NEW k \in 1..n PROVE KeepsGood("amp", log, ids, k) /\ ids[k] \in Nat
  <2>1. k \in Nat \ {0} /\ ids[k] \in Nat
    BY <1>7 DEF Own
  <2>2. \A d : Step("amp", log, d, k) = AmpNormalized(d, log[k]) /\ Beside("amp", d)
    BY Zenon DEF Step, Beside
  <2> DEFINE message == log[k]
             keys == Upto(ids, k)
  <2>3. ASSUME NEW d, GoodDraft(d, Upto(ids, k - 1))
        PROVE  GoodDraft(AmpNormalized(d, message), keys)
    <3>1. Own(ids, k) /\ ids[k] = message.id /\ Told(message)
      BY <1>7
    <3> HIDE DEF ids, log, n, message
    <3> DEFINE opened == IF AmpStartsTurn(message) THEN Opened(d, message.id) ELSE d
               turn == opened.active
               there == opened.turnOf @@ (message.id :> turn)
               placed == [opened EXCEPT !["turnOf"] = there]
               ended == CASE message.stop_reason \in {"error", "aborted", "cancelled"} ->
                                 Marked(placed, turn, "aborted")
                          [] message.stop_reason \in {"end_turn", "stop", "length", "max_tokens"} ->
                                 Marked(placed, turn, "completed")
                          [] OTHER -> placed
               called == IF message.usage = {} THEN ended
                         ELSE Called(ended, turn, AmpUsage(CHOOSE raw \in message.usage : TRUE))
    <3>2. AmpNormalized(d, message) = IF message.role # "assistant" THEN placed
                                      ELSE ToolUsed(called, turn, "tool_use" \in message.content)
      BY DEF AmpNormalized
    <3>3. GoodDraft(opened, keys)
      <4>1. GoodDraft(Opened(d, message.id), keys)
        BY <2>1, <2>3, <3>1, OpensNext
      <4>2. GoodDraft(d, keys)
        BY <2>1, <2>3, GoodNext
      <4> QED
        BY <4>1, <4>2
    <3> HIDE DEF opened, keys
    <3>4. GoodDraft(placed, keys)
      <4>1. "turnOf" \notin {"turns", "calls"}
        OBVIOUS
      <4> HIDE DEF there
      <4> QED
        BY <3>3, <4>1, GoodBeside
    <3> HIDE DEF placed, turn
    <3>5. ended \in {placed, Marked(placed, turn, "aborted"), Marked(placed, turn, "completed")}
      <4>1. ended = placed \/ ended = Marked(placed, turn, "aborted") \/ ended = Marked(placed, turn, "completed")
        BY Zenon
      <4> HIDE DEF ended
      <4> QED
        BY <4>1
    <3> HIDE DEF ended
    <3>6. GoodDraft(ended, keys)
      BY <3>4, <3>5, GoodMarked DEF Statuses
    <3>7. GoodDraft(called, keys)
      <4>1. CASE message.usage = {}
        BY <3>6, <4>1
      <4>2. CASE message.usage # {}
        <5>1. AmpUsage(CHOOSE raw \in message.usage : TRUE) \in TokenRecords
          BY <3>1, <4>2 DEF Told
        <5> QED
          BY <3>6, <4>2, <5>1, GoodCalled
      <4> QED
        BY <4>1, <4>2
    <3> HIDE DEF called
    <3> QED
      BY <3>2, <3>4, <3>7, GoodToolUsed
  <2> HIDE DEF ids, log, n
  <2> QED
    BY <2>1, <2>2, <2>3 DEF KeepsGood
<1>10. ReadTo("amp", log, AmpEmpty, n, draft)
  BY <1>6, AmpReads
<1>11. GoodDraft(AmpEmpty, {}) /\ Beside("amp", AmpEmpty)
  <2>1. GoodDraft(AmpEmpty, {})
    BY GoodWith DEF AmpEmpty
  <2> QED
    BY <2>1, Zenon DEF Beside
<1> DEFINE charged == AmpLedgerCalls(thread, draft)
           counted == IF charged = <<>> THEN draft ELSE [draft EXCEPT !.calls = charged]
           called == {call.turn : call \in Range(counted.calls)}
           Ended(i, turn) ==
             IF turn.status = "in-progress" /\ i \in called THEN [turn EXCEPT !.status = "completed"] ELSE turn
           turns == [i \in DOMAIN counted.turns |-> Ended(i, counted.turns[i])]
<1>12. AmpConversation(thread) = Rows([counted EXCEPT !.turns = turns])
  BY DEF AmpConversation
<1>13. GoodDraft(draft, Nat)
  <2> HIDE DEF draft, ids, n, log
  <2> QED
    BY <1>6, <1>9, <1>10, <1>11, ReadWhole
<1>14. AreCalls(charged)
  <2> DEFINE Call(event) ==
               [turn |-> IF event.toMessageId \in DOMAIN draft.turnOf THEN draft.turnOf[event.toMessageId] ELSE 0,
                tokens |-> AmpLedgerUsage(thread, event)]
             calls == Each(events, Call)
  <2>1. charged = Those(calls, {k \in DOMAIN calls : Total(calls[k].tokens) > 0})
    BY DEF AmpLedgerCalls
  <2>2. \A event : Call(event).tokens = AmpLedgerUsage(thread, event)
    OBVIOUS
  <2>3. calls = [i \in DOMAIN events |-> calls[i]] /\ \A i \in DOMAIN events : calls[i] = Call(events[i])
    BY DEF Each
  <2>4. ASSUME NEW event, Told2(event) PROVE AmpLedgerUsage(thread, event) \in TokenRecords
    <3> DEFINE told == {message \in Range(log) : message.id = event.toMessageId /\ message.role = "assistant"}
               m == CHOOSE m \in told : TRUE
               raw == CHOOSE raw \in m.usage : TRUE
               written == IF told = {} THEN 0 ELSE raw.cacheCreation
               read == IF told = {} THEN 0 ELSE raw.cacheRead
    <3>1. AmpLedgerUsage(thread, event) =
            TokensApart(Bounded(event.input), Bounded(read), Bounded(written), Bounded(event.output), 0,
                        Bounded(event.total))
      BY DEF AmpLedgerUsage
    <3>2. written \in Nat /\ read \in Nat
      <4>1. CASE told = {}
        BY <4>1
      <4>2. CASE told # {}
        <5>1. m \in told
          BY <4>2
        <5>2. PICK k \in 1..n : m = log[k]
          <6>1. m \in Range(log)
            BY <5>1
          <6> HIDE DEF log, m
          <6> QED
            BY <1>6, <6>1 DEF Range, IsList
        <5>3. m.role = "assistant"
          BY <5>1
        <5> HIDE DEF m, log
        <5>4. Told(m)
          BY <1>7, <5>2 DEF log
        <5>5. raw \in m.usage
          BY <5>3, <5>4 DEF Told
        <5> HIDE DEF raw
        <5> QED
          BY <4>2, <5>4, <5>5 DEF Told
      <4> QED
        BY <4>1, <4>2
    <3> HIDE DEF written, read
    <3>3. /\ Bounded(event.input) \in Nat /\ Bounded(read) \in Nat /\ Bounded(written) \in Nat
          /\ Bounded(event.output) \in Nat /\ Bounded(event.total) \in Nat
      BY <2>4, <3>2, BoundedIs DEF Told2
    <3> QED
      BY <3>1, <3>3, TokensApartAre
  <2> HIDE DEF calls, charged, events, Call
  <2>5. IsList(calls) /\ Len(calls) = Len(events)
    <3>1. DOMAIN events = 1..Len(events) /\ Len(events) \in Nat
      BY <1>8 DEF IsList
    <3> QED
      BY <2>3, <3>1, Numbered
  <2>6. ASSUME NEW k \in 1..Len(calls) PROVE calls[k].tokens \in TokenRecords
    <3>1. k \in DOMAIN events /\ Told2(events[k])
      BY <1>8, <2>5 DEF IsList
    <3> QED
      BY <2>2, <2>3, <2>4, <3>1
  <2>7. AreCalls(calls)
    BY <2>5, <2>6 DEF AreCalls
  <2> QED
    BY <2>1, <2>7, PickedAreCalls
<1> HIDE DEF draft, charged, thread
<1>15. GoodDraft(counted, Nat)
  BY <1>13, <1>14, GoodOfCalls
<1> HIDE DEF counted
<1>16. GoodDraft([counted EXCEPT !.turns = turns], Nat)
  <2>1. turns = [i \in DOMAIN counted.turns |-> turns[i]]
    OBVIOUS
  <2>2. ASSUME NEW i \in DOMAIN counted.turns
        PROVE  \/ turns[i] = counted.turns[i]
               \/ \E status \in Statuses : turns[i] = [counted.turns[i] EXCEPT !.status = status]
    <3>1. turns[i] = counted.turns[i] \/ turns[i] = [counted.turns[i] EXCEPT !.status = "completed"]
      OBVIOUS
    <3>2. "completed" \in Statuses
      BY DEF Statuses
    <3> HIDE DEF turns
    <3> QED
      BY <3>1, <3>2
  <2> HIDE DEF turns
  <2> QED
    BY <1>15, <2>1, <2>2, GoodRestated
<1> HIDE DEF turns
<1>17. RowsOfGood(AmpConversation(thread))
  BY <1>12, <1>16 DEF RowsOfGood
<1> QED
  BY <1>17 DEF thread


(* A draft that is good stays so as long as every step keeps it good. *)
LEMMA ReadStill ==
  ASSUME NEW tool, NEW log, NEW start, NEW n \in Nat, NEW draft,
         ReadTo(tool, log, start, n, draft), GoodDraft(start, Nat),
         \A k \in 1..n : \A d : GoodDraft(d, Nat) => GoodDraft(Step(tool, log, d, k), Nat)
  PROVE  GoodDraft(draft, Nat)
<1>1. PICK f : ReadsOn(f, tool, log, start, n) /\ draft = f[n]
  BY DEF ReadTo
<1>2. \A k \in 0..n : f[k] = IF k = 0 THEN start ELSE Step(tool, log, f[k - 1], k)
  BY <1>1 DEF ReadsOn
<1> DEFINE S == {k \in 0..n : GoodDraft(f[k], Nat)}
<1>3. 0 \in S
  BY <1>2
<1>4. ASSUME NEW k \in 0..n - 1, k \in S PROVE k + 1 \in S
  <2>1. k + 1 \in 1..n /\ k + 1 \in 0..n /\ (k + 1) - 1 = k /\ k + 1 # 0
    OBVIOUS
  <2>2. f[k + 1] = Step(tool, log, f[k], k + 1)
    BY <1>2, <2>1
  <2> QED
    BY <1>4, <2>1, <2>2
<1> HIDE DEF S
<1>5. \A k \in 0..n : k \in S
  BY <1>3, <1>4, Induction
<1> QED
  BY <1>1, <1>5 DEF S

(* Goose. *)
LEMMA GooseRows ==
  ASSUME NEW f, Uses(f)
  PROVE  RowsOfGood(GooseConversation(GooseLog(f)))
<1> DEFINE whole == GooseLog(f)
           records == Records(f, LAMBDA i : GooseMessage(f, i))
           entries == Records(f, LAMBDA i : GooseEntry(f, i))
           log == whole.messages
           ledger == whole.ledger
           n == Len(log)
           m == Len(ledger)
           ids == Ids(log)
           draft == Drafted(GooseNormalized, GooseEmpty, log)
<1>1. records = [i \in DOMAIN f |-> records[i]] /\ entries = [i \in DOMAIN f |-> entries[i]]
  BY DEF Records
<1>2. /\ IsList(f) /\ IsList(records) /\ Len(records) = Len(f) /\ DOMAIN f = 1..Len(f)
      /\ IsList(entries) /\ Len(entries) = Len(f)
  BY <1>1, RecordsAre
<1>3. ASSUME NEW k \in 1..Len(f) PROVE records[k].id \in Nat
  BY <1>2 DEF Records, GooseMessage
<1>4. ASSUME NEW k \in 1..Len(f) PROVE entries[k].id \in Nat /\ GooseUsage(entries[k].tokens) \in TokenRecords
  <2>1. entries[k] = GooseEntry(f, k) /\ k \in Nat
    BY <1>2 DEF Records
  <2> DEFINE use == f[k].use
             raw == entries[k].tokens
  <2> HIDE DEF entries
  <2>2. use \in TokenRecords
    BY <1>2, RecordsAre
  <2>3. /\ raw.input = InputOf(use) /\ raw.read = use[2] /\ raw.write = use[3]
        /\ raw.output = OutputOf(use) /\ raw.total = Total(use) /\ entries[k].id = k
        /\ DOMAIN raw = {"input", "read", "write", "output", "total"}
    BY <2>1 DEF GooseEntry
  <2> HIDE DEF use, raw
  <2> DEFINE now == CountersOf(raw)
  <2>4. now.input \in Nat /\ now.read \in Nat /\ now.write \in Nat /\ now.output \in Nat /\ now.total \in Nat
    <3>1. \A field \in DOMAIN raw : raw[field] \in Nat
      BY <2>2, <2>3, UseIs
    <3> QED
      BY <2>3, <3>1, CountersAre
  <2> DEFINE cached == Least(now.input, now.read)
             rest == now.input - cached
             written == Least(rest, now.write)
             uncached == rest - written
             visible == now.output
             total == now.total
  <2>7. GooseUsage(raw) = TokensApart(uncached, cached, written, visible, 0, total)
    BY DEF GooseUsage
  <2> HIDE DEF now
  <2>9. visible \in Nat /\ total \in Nat
    BY <2>4
  <2>5. cached \in Nat /\ rest \in Nat
    BY <2>4, Differences
  <2>6. written \in Nat /\ uncached \in Nat
    <3> HIDE DEF rest
    <3> QED
      BY <2>4, <2>5, Differences
  <2> HIDE DEF cached, rest, written, uncached, visible, total
  <2>8. GooseUsage(raw) \in TokenRecords
    BY <2>5, <2>6, <2>7, <2>9, TokensApartAre
  <2> QED
    BY <2>1, <2>3, <2>8 DEF raw
<1>5. /\ log = Table(records, OfKind(f, {"ask", "answer", "note"}))
      /\ ledger = Table(entries, OfKind(f, {"answer", "extra", "compact"}))
  BY DEF GooseLog
<1> HIDE DEF records, entries
<1>6. n \in Nat /\ m \in Nat
  BY <1>2, <1>3, <1>4, <1>5, TableOwn
<1>7. ASSUME NEW k \in 1..n PROVE Own(ids, k) /\ ids[k] = log[k].id
  <2> HIDE DEF log
  <2> QED
    BY <1>2, <1>3, <1>5, TableOwn
<1>8. ASSUME NEW k \in 1..m PROVE GooseUsage(ledger[k].tokens) \in TokenRecords
  <2> HIDE DEF ledger
  <2>1. PICK j \in 1..Len(entries) : ledger[k] = entries[j]
    BY <1>2, <1>4, <1>5, TableOwn
  <2> QED
    BY <1>2, <1>4, <2>1
<1>9. ASSUME NEW k \in 1..n PROVE KeepsGood("goose", log, ids, k) /\ ids[k] \in Nat
  <2>1. k \in Nat \ {0} /\ ids[k] \in Nat
    BY <1>7 DEF Own
  <2>2. \A d : Step("goose", log, d, k) = GooseNormalized(d, log[k]) /\ Beside("goose", d)
    BY Zenon DEF Step, Beside
  <2> DEFINE message == log[k]
             keys == Upto(ids, k)
  <2>3. ASSUME NEW d, GoodDraft(d, Upto(ids, k - 1))
        PROVE  GoodDraft(GooseNormalized(d, message), keys)
    <3>1. Own(ids, k) /\ ids[k] = message.id
      BY <1>7
    <3> HIDE DEF ids, log, n, message
    <3> DEFINE new == Opened(d, message.id)
               times == Append(new.started, message.time)
               begun == [new EXCEPT !["started"] = times]
               opened == IF ~GooseStartsTurn(message) THEN d ELSE begun
               turn == opened.active
               marked == Marked(opened, turn, "completed")
               wrong == marked.errors \cup (IF "error" \in message.content THEN {turn} ELSE {})
               noted == [marked EXCEPT !["errors"] = wrong]
               seen == IF message.role = "assistant" /\ turn > 0 THEN noted ELSE opened
    <3>2. GooseNormalized(d, message) = ToolUsed(seen, turn, "toolRequest" \in message.content)
      BY DEF GooseNormalized
    <3>3. "started" \notin {"turns", "calls"} /\ "errors" \notin {"turns", "calls"}
      OBVIOUS
    <3>4. GoodDraft(d, keys) /\ GoodDraft(new, keys)
      BY <2>1, <2>3, <3>1, OpensNext, GoodNext
    <3> HIDE DEF new, times, keys
    <3>5. GoodDraft(begun, keys)
      BY <3>3, <3>4, GoodBeside
    <3> HIDE DEF begun
    <3>6. GoodDraft(opened, keys)
      BY <3>4, <3>5
    <3> HIDE DEF opened, turn
    <3>7. GoodDraft(marked, keys)
      BY <3>6, GoodMarked DEF Statuses
    <3> HIDE DEF marked, wrong
    <3>8. GoodDraft(noted, keys)
      BY <3>3, <3>7, GoodBeside
    <3> HIDE DEF noted
    <3>9. GoodDraft(seen, keys)
      BY <3>6, <3>8
    <3> HIDE DEF seen
    <3> QED
      BY <3>2, <3>9, GoodToolUsed
  <2> HIDE DEF ids, log, n
  <2> QED
    BY <2>1, <2>2, <2>3 DEF KeepsGood
<1>10. ReadTo("goose", log, GooseEmpty, n, draft)
  BY <1>6, GooseReads
<1>11. GoodDraft(GooseEmpty, {}) /\ Beside("goose", GooseEmpty)
  <2>1. GoodDraft(GooseEmpty, {})
    BY GoodWith DEF GooseEmpty
  <2> QED
    BY <2>1, Zenon DEF Beside
<1> DEFINE Ended(turn) == IF turn \in draft.errors THEN [draft.turns[turn] EXCEPT !.status = "aborted"]
                          ELSE draft.turns[turn]
           turns == [turn \in DOMAIN draft.turns |-> Ended(turn)]
           aborted == [draft EXCEPT !.turns = turns]
           charged == Drafted(GooseCharged, aborted, ledger)
<1>12. GooseConversation(whole) = Rows(charged)
  BY DEF GooseConversation
<1>13. GoodDraft(draft, Nat)
  <2> HIDE DEF draft, ids, n, log
  <2> QED
    BY <1>6, <1>9, <1>10, <1>11, ReadWhole
<1> HIDE DEF draft, whole
<1>14. GoodDraft(aborted, Nat)
  <2>1. turns = [i \in DOMAIN draft.turns |-> turns[i]]
    OBVIOUS
  <2>2. ASSUME NEW i \in DOMAIN draft.turns
        PROVE  \/ turns[i] = draft.turns[i]
               \/ \E status \in Statuses : turns[i] = [draft.turns[i] EXCEPT !.status = status]
    <3>1. turns[i] = draft.turns[i] \/ turns[i] = [draft.turns[i] EXCEPT !.status = "aborted"]
      OBVIOUS
    <3>2. "aborted" \in Statuses
      BY DEF Statuses
    <3> HIDE DEF turns
    <3> QED
      BY <3>1, <3>2
  <2> HIDE DEF turns
  <2> QED
    BY <1>13, <2>1, <2>2, GoodRestated
<1> HIDE DEF aborted
<1>15. ReadTo("goose calls", ledger, aborted, m, charged)
  BY <1>6, GooseCallsReads
<1> HIDE DEF charged
<1>16. ASSUME NEW k \in 1..m, NEW d, GoodDraft(d, Nat) PROVE GoodDraft(Step("goose calls", ledger, d, k), Nat)
  <2> DEFINE entry == ledger[k]
             called == Called(d, GooseTurnAt(d, entry.time), GooseUsage(entry.tokens))
  <2>1. Step("goose calls", ledger, d, k) = GooseCharged(d, entry)
    BY ZenonT(60) DEF Step
  <2>2. GoodDraft(called, Nat)
    BY <1>8, <1>16, GoodCalled
  <2>3. GooseCharged(d, entry) = IF entry.compaction THEN [called EXCEPT !.compactions = @ + 1] ELSE called
    BY DEF GooseCharged
  <2> HIDE DEF called, entry
  <2>4. GoodDraft([called EXCEPT !.compactions = @ + 1], Nat)
    BY <2>2, GoodCompacted
  <2> QED
    BY <2>1, <2>2, <2>3, <2>4
<1> HIDE DEF ledger, m
<1>17. GoodDraft(charged, Nat)
  BY <1>6, <1>14, <1>15, <1>16, ReadStill
<1>18. RowsOfGood(GooseConversation(whole))
  BY <1>12, <1>17 DEF RowsOfGood
<1> QED
  BY <1>18 DEF whole


(* The messages of Gemini CLI: each has an id of its own. *)
GeminiFits(message) ==
  /\ message.id \in Nat /\ message.type \in {"user", "error", "gemini"}
  /\ GeminiUsage(message.tokens) \in TokenRecords

GoodMessages(messages) ==
  /\ IsList(messages) /\ \A p \in 1..Len(messages) : GeminiFits(messages[p])
  /\ \A p, q \in 1..Len(messages) : messages[p].id = messages[q].id => p = q

GoodRecord(record) ==
  /\ record.kind = "message" => GeminiFits(record.message)
  /\ record.kind \notin {"message", "rewind"} => GoodMessages(record.messages)

(* They stay so when a record is applied, *)
LEMMA GoodApplied ==
  ASSUME NEW messages, GoodMessages(messages), NEW record, GoodRecord(record)
  PROVE  GoodMessages(GeminiApplied(messages, record))
<1> DEFINE n == Len(messages)
           at(id) == {i \in DOMAIN messages : messages[i].id = id}
<1>1. /\ IsList(messages) /\ n \in Nat /\ DOMAIN messages = 1..n
      /\ \A p \in 1..n : GeminiFits(messages[p])
      /\ \A p, q \in 1..n : messages[p].id = messages[q].id => p = q
  BY DEF GoodMessages, IsList
<1>2. CASE record.kind = "rewind"
  <2> DEFINE cut == Min(at(record.to)) - 1
             left == SubSeq(messages, 1, cut)
  <2>1. GeminiApplied(messages, record) = IF at(record.to) = {} THEN <<>> ELSE left
    BY <1>2, Zenon DEF GeminiApplied
  <2>2. CASE at(record.to) = {}
    BY <2>1, <2>2, WrittenOut DEF GoodMessages
  <2>3. CASE at(record.to) # {}
    <3>1. at(record.to) \subseteq Nat /\ at(record.to) \subseteq 1..n
      BY <1>1
    <3> HIDE DEF at
    <3>2. Min(at(record.to)) \in 1..n
      BY <2>3, <3>1, MinIs
    <3>3. cut \in Nat /\ cut <= n
      BY <1>1, <3>2
    <3> HIDE DEF cut, n
    <3>4. IsList(left) /\ Len(left) = cut /\ \A p \in 1..cut : left[p] = messages[p]
      BY <1>1, <3>3, Starts DEF n
    <3>5. \A p \in 1..cut : p \in 1..n
      BY <1>1, <3>3
    <3> HIDE DEF left
    <3>6. GoodMessages(left)
      BY <1>1, <3>4, <3>5 DEF GoodMessages
    <3> QED
      BY <2>1, <2>3, <3>6
  <2> QED
    BY <2>2, <2>3
<1>3. CASE record.kind = "message"
  <2> DEFINE message == record.message
             here == at(message.id)
             longer == Append(messages, message)
             changed == [messages EXCEPT ![Min(here)] = message]
  <2>1. GeminiApplied(messages, record) = IF here = {} THEN longer ELSE changed
    BY <1>3, Zenon DEF GeminiApplied
  <2>2. GeminiFits(message)
    BY <1>3 DEF GoodRecord
  <2>3. CASE here = {}
    <3>1. \A p \in 1..n : messages[p].id # message.id
      BY <1>1, <2>3
    <3> HIDE DEF message, n
    <3>2. /\ IsList(longer) /\ Len(longer) = n + 1 /\ longer[n + 1] = message
          /\ \A i \in 1..n : longer[i] = messages[i]
      BY <1>1, SameStarts DEF n
    <3>3. \A p \in 1..n + 1 : p \in 1..n \/ p = n + 1
      BY <1>1
    <3> HIDE DEF longer
    <3>4. GoodMessages(longer)
      BY <1>1, <2>2, <3>1, <3>2, <3>3 DEF GoodMessages
    <3> QED
      BY <2>1, <2>3, <3>4
  <2>4. CASE here # {}
    <3> DEFINE o == Min(here)
    <3>1. o \in 1..n /\ messages[o].id = message.id
      <4>1. here \subseteq Nat
        BY <1>1
      <4> HIDE DEF here
      <4>2. Min(here) \in here
        BY <2>4, <4>1, MinIs
      <4> QED
        BY <1>1, <4>2 DEF here
    <3> HIDE DEF o, here, message, n
    <3>2. /\ IsList(changed) /\ Len(changed) = n
          /\ \A p \in 1..n : changed[p] = IF p = o THEN message ELSE messages[p]
      <4> DEFINE V == Range(messages) \cup {message}
      <4>1. messages \in Seq(Range(messages)) /\ Range(messages) \subseteq V /\ message \in V
        BY <1>1 DEF IsList
      <4> HIDE DEF V
      <4>2. messages \in Seq(V)
        BY <4>1
      <4>3. changed \in Seq(V) /\ Len(changed) = n
        BY <3>1, <4>1, <4>2 DEF o, n
      <4>4. \A p \in 1..n : changed[p] = IF p = o THEN message ELSE messages[p]
        BY <1>1 DEF o
      <4> HIDE DEF changed
      <4>5. DOMAIN changed = 1..Len(changed) /\ \A k \in 1..Len(changed) : changed[k] \in Range(changed)
        BY <4>3 DEF Range
      <4> QED
        BY <4>3, <4>4, <4>5 DEF IsList
    <3> HIDE DEF changed
    <3>3. GoodMessages(changed)
      BY <1>1, <2>2, <3>1, <3>2 DEF GoodMessages
    <3> QED
      BY <2>1, <2>4, <3>3
  <2> QED
    BY <2>3, <2>4
<1>4. CASE record.kind \notin {"message", "rewind"}
  <2>1. GeminiApplied(messages, record) = record.messages
    BY <1>4, Zenon DEF GeminiApplied
  <2> QED
    BY <1>4, <2>1 DEF GoodRecord
<1> QED
  BY <1>2, <1>3, <1>4

(* as the tool writes them, *)
LEMMA GeminiWrites ==
  ASSUME NEW f, Uses(f), Sound(f), NEW messages, GoodMessages(messages), NEW i \in 1..Len(f)
  PROVE  GoodRecord(GeminiRecord(f, i, messages))
<1> DEFINE message == GeminiMessage(f, i)
           use == f[i].use
           raw == message.tokens
<1>1. Origin(f, i) \in Nat /\ use \in TokenRecords
  BY OriginsAre DEF Uses
<1>2. /\ message.id = Origin(f, i) /\ message.type \in {"user", "error", "gemini"}
      /\ raw.input = InputOf(use) /\ raw.cached = use[2] /\ raw.output = use[4]
      /\ raw.thoughts = use[5] /\ raw.total = Total(use)
      /\ DOMAIN raw = {"input", "cached", "output", "thoughts", "total"}
  BY DEF GeminiMessage
<1> HIDE DEF use, raw, message
<1> DEFINE now == CountersOf(raw)
           cached == Least(now.input, now.cached)
           uncached == now.input - cached
           visible == now.output
           thoughts == now.thoughts
           total == now.total
<1>3. /\ now.input \in Nat /\ now.cached \in Nat /\ visible \in Nat /\ thoughts \in Nat /\ total \in Nat
  <2>1. \A field \in DOMAIN raw : raw[field] \in Nat
    BY <1>1, <1>2, UseIs
  <2> QED
    BY <1>2, <2>1, CountersAre
<1>5. GeminiUsage(raw) = TokensApart(uncached, cached, 0, visible, thoughts, total)
  BY DEF GeminiUsage
<1> HIDE DEF now
<1>4. cached \in Nat /\ uncached \in Nat
  BY <1>3, Differences
<1> HIDE DEF cached, uncached, visible, thoughts, total
<1>6. GeminiFits(message)
  <2>1. GeminiUsage(raw) \in TokenRecords
    BY <1>3, <1>4, <1>5, TokensApartAre
  <2>2. GeminiUsage(message.tokens) \in TokenRecords
    BY <2>1 DEF raw
  <2> QED
    BY <1>1, <1>2, <2>2 DEF GeminiFits
<1> DEFINE record == GeminiRecord(f, i, messages)
<1>7. CASE f[i].kind = "rewind"
  <2>1. record.kind = "rewind"
    BY <1>7, Zenon DEF GeminiRecord
  <2> HIDE DEF record
  <2>2. GoodRecord(record)
    BY <2>1 DEF GoodRecord
  <2> QED
    BY <2>2 DEF record
<1>8. CASE f[i].kind = "note"
  <2>1. record = [kind |-> "set", messages |-> messages]
    BY <1>8, Zenon DEF GeminiRecord
  <2> HIDE DEF record
  <2>2. GoodRecord(record)
    BY <2>1 DEF GoodRecord
  <2> QED
    BY <2>2 DEF record
<1>9. CASE f[i].kind \notin {"rewind", "note"}
  <2>1. record = [kind |-> "message", message |-> message]
    BY <1>9, Zenon DEF GeminiRecord, message
  <2> HIDE DEF record
  <2>2. GoodRecord(record)
    BY <1>6, <2>1 DEF GoodRecord
  <2> QED
    BY <2>2 DEF record
<1> QED
  BY <1>7, <1>8, <1>9

(* and when all records are read. *)
LEMMA GoodReading ==
  ASSUME NEW tool, NEW log, NEW n \in Nat, NEW r, ReadsOn(r, tool, log, <<>>, n),
         \A k \in 1..n : \A messages : GoodMessages(messages) => GoodMessages(Step(tool, log, messages, k))
  PROVE  \A k \in 0..n : GoodMessages(r[k])
<1>1. \A k \in 0..n : r[k] = IF k = 0 THEN <<>> ELSE Step(tool, log, r[k - 1], k)
  BY DEF ReadsOn
<1> DEFINE S == {k \in 0..n : GoodMessages(r[k])}
<1>2. 0 \in S
  BY <1>1, WrittenOut DEF GoodMessages
<1>3. ASSUME NEW k \in 0..n - 1, k \in S PROVE k + 1 \in S
  <2>1. k + 1 \in 1..n /\ k + 1 \in 0..n /\ (k + 1) - 1 = k /\ k + 1 # 0
    OBVIOUS
  <2>2. r[k + 1] = Step(tool, log, r[k], k + 1)
    BY <1>1, <2>1
  <2> QED
    BY <1>3, <2>1, <2>2
<1> HIDE DEF S
<1>4. \A k \in 0..n : k \in S
  BY <1>2, <1>3, Induction
<1> QED
  BY <1>4 DEF S

LEMMA GeminiLogIs ==
  ASSUME NEW f, Uses(f), Sound(f)
  PROVE  /\ IsList(GeminiLog(f)) /\ Len(GeminiLog(f)) = Len(f)
         /\ \A k \in 1..Len(f) : GoodRecord(GeminiLog(f)[k])
<1> DEFINE n == Len(f)
           Is(r) == r = [k \in 0..n |-> IF k = 0 THEN <<>>
                                        ELSE GeminiApplied(r[k - 1], GeminiRecord(f, k, r[k - 1]))]
           messages == CHOOSE r : Is(r)
           log == GeminiLog(f)
<1>1. log = [i \in DOMAIN f |-> GeminiRecord(f, i, messages[i - 1])]
  BY DEF GeminiLog, Records
<1>2. IsList(f) /\ n \in Nat /\ DOMAIN f = 1..n
  BY RecordsAre
<1>3. \A r, k : Step("gemini log", f, r[k - 1], k) = GeminiApplied(r[k - 1], GeminiRecord(f, k, r[k - 1]))
  BY ZenonT(60) DEF Step
<1> HIDE DEF n
<1>4. \A r : Is(r) <=> ReadsOn(r, "gemini log", f, <<>>, n)
  BY <1>3 DEF ReadsOn
<1>5. \E r : ReadsOn(r, "gemini log", f, <<>>, n)
  BY <1>2, ReadOn
<1> HIDE DEF Is
<1>6. ReadsOn(messages, "gemini log", f, <<>>, n)
  BY <1>4, <1>5
<1> HIDE DEF messages, log
<1>7. ASSUME NEW k \in 1..n, NEW before, GoodMessages(before)
      PROVE  GoodMessages(Step("gemini log", f, before, k))
  <2>1. Step("gemini log", f, before, k) = GeminiApplied(before, GeminiRecord(f, k, before))
    BY ZenonT(60) DEF Step
  <2>2. GoodRecord(GeminiRecord(f, k, before))
    BY <1>7, GeminiWrites DEF n
  <2> QED
    BY <1>7, <2>1, <2>2, GoodApplied
<1>8. \A k \in 0..n : GoodMessages(messages[k])
  BY <1>2, <1>6, <1>7, GoodReading
<1>9. log = [i \in DOMAIN f |-> log[i]] /\ \A i \in 1..n : log[i] = GeminiRecord(f, i, messages[i - 1])
  BY <1>1, <1>2
<1>10. IsList(log) /\ Len(log) = n
  BY <1>9, RecordsAre DEF n
<1>11. ASSUME NEW k \in 1..n PROVE GoodRecord(log[k])
  <2>1. k - 1 \in 0..n
    BY <1>2
  <2>2. GoodMessages(messages[k - 1])
    BY <1>8, <2>1
  <2> QED
    BY <1>9, <2>2, GeminiWrites DEF n
<1> QED
  BY <1>10, <1>11 DEF log, n

LEMMA GeminiMessagesAre ==
  ASSUME NEW log, Len(log) \in Nat, \A k \in 1..Len(log) : GoodRecord(log[k])
  PROVE  GoodMessages(GeminiMessages(log))
<1> DEFINE n == Len(log)
           Is(r) == r = [k \in 0..n |-> IF k = 0 THEN <<>> ELSE GeminiApplied(r[k - 1], log[k])]
           messages == CHOOSE r : Is(r)
<1>1. GeminiMessages(log) = messages[n]
  BY DEF GeminiMessages, Drafted
<1>2. \A r, k : Step("gemini messages", log, r[k - 1], k) = GeminiApplied(r[k - 1], log[k])
  BY ZenonT(60) DEF Step
<1> HIDE DEF n
<1>3. \A r : Is(r) <=> ReadsOn(r, "gemini messages", log, <<>>, n)
  BY <1>2 DEF ReadsOn
<1>4. \E r : ReadsOn(r, "gemini messages", log, <<>>, n)
  BY ReadOn DEF n
<1> HIDE DEF Is
<1>5. ReadsOn(messages, "gemini messages", log, <<>>, n)
  BY <1>3, <1>4
<1> HIDE DEF messages
<1>6. ASSUME NEW k \in 1..n, NEW before, GoodMessages(before)
      PROVE  GoodMessages(Step("gemini messages", log, before, k))
  <2>1. Step("gemini messages", log, before, k) = GeminiApplied(before, log[k])
    BY ZenonT(60) DEF Step
  <2>2. GoodRecord(log[k])
    BY <1>6 DEF n
  <2> QED
    BY <1>6, <2>1, <2>2, GoodApplied
<1>7. n \in Nat
  BY DEF n
<1>8. \A k \in 0..n : GoodMessages(messages[k])
  BY <1>5, <1>6, <1>7, GoodReading
<1> QED
  BY <1>1, <1>7, <1>8

(* Gemini CLI. *)
LEMMA GeminiRowsOf ==
  ASSUME NEW records, Len(records) \in Nat, \A k \in 1..Len(records) : GoodRecord(records[k])
  PROVE  RowsOfGood(GeminiConversation(records))
<1> DEFINE log == GeminiMessages(records)
           n == Len(log)
           ids == Ids(log)
           draft == Drafted(GeminiNormalized, NoDraft, log)
<1>1. GoodMessages(log)
  BY GeminiMessagesAre
<1> HIDE DEF log
<1>2. n \in Nat
  BY <1>1 DEF GoodMessages, IsList
<1>3. ASSUME NEW k \in 1..n PROVE Own(ids, k) /\ ids[k] = log[k].id /\ GeminiFits(log[k])
  <2>1. \A p \in 1..n : ids[p] = log[p].id
    BY DEF Ids
  <2> HIDE DEF ids
  <2>2. GeminiFits(log[k]) /\ log[k].id \in Nat /\ \A p, q \in 1..n : log[p].id = log[q].id => p = q
    BY <1>1 DEF GoodMessages, GeminiFits
  <2>3. \A j \in 1..k - 1 : j \in 1..n /\ j # k
    BY <1>2
  <2> QED
    BY <2>1, <2>2, <2>3 DEF Own
<1>4. ASSUME NEW k \in 1..n PROVE KeepsGood("gemini", log, ids, k) /\ ids[k] \in Nat
  <2>1. k \in Nat \ {0} /\ ids[k] \in Nat
    BY <1>3 DEF Own
  <2>2. \A d : Step("gemini", log, d, k) = GeminiNormalized(d, log[k]) /\ Beside("gemini", d)
    BY Zenon DEF Step, Beside
  <2> DEFINE message == log[k]
             keys == Upto(ids, k)
  <2>3. ASSUME NEW d, GoodDraft(d, Upto(ids, k - 1))
        PROVE  GoodDraft(GeminiNormalized(d, message), keys)
    <3>1. Own(ids, k) /\ ids[k] = message.id /\ GeminiFits(message)
      BY <1>3
    <3> HIDE DEF ids, n, message
    <3>2. GoodDraft(d, keys) /\ GoodDraft(Opened(d, message.id), keys)
      BY <2>1, <2>3, <3>1, OpensNext, GoodNext
    <3> HIDE DEF keys
    <3>3. message.type \in {"user", "error", "gemini"} /\ GeminiUsage(message.tokens) \in TokenRecords
      BY <3>1 DEF GeminiFits
    <3>4. CASE message.type = "user"
      <4>1. GeminiNormalized(d, message) = Opened(d, message.id)
        BY <3>4, Zenon DEF GeminiNormalized
      <4> QED
        BY <3>2, <4>1
    <3>5. CASE message.type = "error"
      <4>1. GeminiNormalized(d, message) = Marked(d, d.active, "aborted")
        BY <3>5, Zenon DEF GeminiNormalized
      <4> QED
        BY <3>2, <4>1, GoodMarked DEF Statuses
    <3>6. CASE message.type = "gemini"
      <4> DEFINE called == Called(d, d.active, GeminiUsage(message.tokens))
                 marked == Marked(called, d.active, "completed")
      <4>1. GeminiNormalized(d, message) = ToolUsed(marked, d.active, message.tool)
        BY <3>6, Zenon DEF GeminiNormalized
      <4>2. GoodDraft(called, keys)
        BY <3>2, <3>3, GoodCalled
      <4> HIDE DEF called
      <4>3. GoodDraft(marked, keys)
        BY <4>2, GoodMarked DEF Statuses
      <4> HIDE DEF marked
      <4> QED
        BY <4>1, <4>3, GoodToolUsed
    <3> QED
      BY <3>3, <3>4, <3>5, <3>6
  <2> HIDE DEF ids, n
  <2> QED
    BY <2>1, <2>2, <2>3 DEF KeepsGood
<1>5. ReadTo("gemini", log, NoDraft, n, draft)
  BY <1>2, GeminiReads
<1>6. GoodDraft(NoDraft, {}) /\ Beside("gemini", NoDraft)
  BY GoodAtFirst, Zenon DEF Beside
<1>7. GeminiConversation(records) = Rows(draft)
  BY DEF GeminiConversation, log
<1> HIDE DEF draft, ids, n
<1>8. GoodDraft(draft, Nat)
  BY <1>2, <1>4, <1>5, <1>6, ReadWhole
<1> QED
  BY <1>7, <1>8 DEF RowsOfGood

LEMMA GeminiRows ==
  ASSUME NEW f, Uses(f), Sound(f)
  PROVE  RowsOfGood(GeminiConversation(GeminiLog(f))) /\ RowsOfGood(GeminiConversation(GeminiDocument(f)))
<1>1. Len(GeminiLog(f)) \in Nat /\ \A k \in 1..Len(GeminiLog(f)) : GoodRecord(GeminiLog(f)[k])
  BY GeminiLogIs DEF Uses, IsList
<1>2. GoodMessages(GeminiMessages(GeminiLog(f)))
  BY <1>1, GeminiMessagesAre
<1> DEFINE record == [kind |-> "session", messages |-> GeminiMessages(GeminiLog(f))]
<1>3. GoodRecord(record)
  BY <1>2 DEF GoodRecord
<1>4. GeminiDocument(f) = <<record>>
  BY DEF GeminiDocument
<1> HIDE DEF record
<1>5. Len(GeminiDocument(f)) = 1 /\ \A k \in 1..1 : GeminiDocument(f)[k] = record
  BY <1>4
<1>6. RowsOfGood(GeminiConversation(GeminiDocument(f)))
  BY <1>3, <1>5, GeminiRowsOf
<1> QED
  BY <1>1, <1>6, GeminiRowsOf


(* As many items are picked from a list as from another one, at the same places. *)
LEMMA SameManyPicked ==
  ASSUME NEW items, IsList(items), NEW others, IsList(others), Len(others) = Len(items), NEW at
  PROVE  Len(Those(items, at)) = Len(Those(others, at))
<1> DEFINE n == Len(items)
           V == Range(items) \cup Range(others)
<1>1. n \in Nat /\ \A k \in 1..n : items[k] \in V /\ others[k] \in V
  BY DEF IsList
<1>2. PICK f : Picks(f, items, at)
  BY Picking
<1>3. PICK g : Picks(g, others, at)
  BY Picking
<1>4. /\ Those(items, at) = f[n] /\ Those(others, at) = g[n] /\ f[0] = <<>> /\ g[0] = <<>>
      /\ \A k \in 1..n : /\ f[k] = IF k \in at THEN Append(f[k - 1], items[k]) ELSE f[k - 1]
                         /\ g[k] = IF k \in at THEN Append(g[k - 1], others[k]) ELSE g[k - 1]
  BY <1>2, <1>3 DEF Picks
<1> HIDE DEF n, V
<1> DEFINE S == {k \in 0..n : f[k] \in Seq(V) /\ g[k] \in Seq(V) /\ Len(f[k]) = Len(g[k])}
<1>5. 0 \in S
  <2>1. 0 \in 0..n /\ f[0] = <<>> /\ g[0] = <<>>
    BY <1>1, <1>4
  <2>2. <<>> \in Seq(V)
    OBVIOUS
  <2> QED
    BY <2>1, <2>2
<1>6. ASSUME NEW k \in 0..n - 1, k \in S PROVE k + 1 \in S
  <2>1. k + 1 \in 1..n /\ k + 1 \in 0..n /\ (k + 1) - 1 = k
    BY <1>1
  <2>2. f[k] \in Seq(V) /\ g[k] \in Seq(V) /\ Len(f[k]) = Len(g[k]) /\ items[k + 1] \in V /\ others[k + 1] \in V
    BY <1>1, <1>6, <2>1
  <2>3. /\ f[k + 1] = IF k + 1 \in at THEN Append(f[k], items[k + 1]) ELSE f[k]
        /\ g[k + 1] = IF k + 1 \in at THEN Append(g[k], others[k + 1]) ELSE g[k]
    BY <1>4, <2>1
  <2> DEFINE one == f[k]
             two == g[k]
  <2>4. one \in Seq(V) /\ two \in Seq(V) /\ Len(one) = Len(two)
    BY <2>2
  <2>5. /\ f[k + 1] = IF k + 1 \in at THEN Append(one, items[k + 1]) ELSE one
        /\ g[k + 1] = IF k + 1 \in at THEN Append(two, others[k + 1]) ELSE two
    BY <2>3
  <2> HIDE DEF one, two
  <2>6. f[k + 1] \in Seq(V) /\ g[k + 1] \in Seq(V) /\ Len(f[k + 1]) = Len(g[k + 1])
    <3> DEFINE a == items[k + 1]
               b == others[k + 1]
               longer == Append(one, a)
               larger == Append(two, b)
    <3>1. a \in V /\ b \in V
      BY <2>2
    <3> HIDE DEF a, b
    <3>2. longer \in Seq(V) /\ Len(longer) = Len(one) + 1
      BY <2>4, <3>1
    <3>3. larger \in Seq(V) /\ Len(larger) = Len(two) + 1
      BY <2>4, <3>1
    <3> HIDE DEF longer, larger
    <3>4. CASE k + 1 \in at
      BY <2>4, <2>5, <3>2, <3>3, <3>4 DEF a, b, longer, larger
    <3>5. CASE k + 1 \notin at
      BY <2>4, <2>5, <3>5
    <3> QED
      BY <3>4, <3>5
  <2> QED
    BY <2>1, <2>6
<1> HIDE DEF S
<1>7. \A k \in 0..n : k \in S
  BY <1>1, <1>5, <1>6, Induction
<1> QED
  BY <1>1, <1>4, <1>7 DEF S

(* Calls that told no tokens count none, but for what the last one is said to have used. *)
LEMMA CountOfLast ==
  ASSUME NEW calls, AreCalls(calls), \A k \in 1..Len(calls) - 1 : calls[k].tokens = NoTokens
  PROVE  /\ calls = <<>> => AllTokens(calls) = 0
         /\ calls # <<>> => AllTokens(calls) = Bounded(Total(calls[Len(calls)].tokens))
<1> DEFINE n == Len(calls)
<1>1. n \in Nat /\ (calls = <<>> <=> n = 0) /\ \A k \in 1..n : calls[k].tokens \in TokenRecords
  BY DEF AreCalls, IsList
<1>2. PICK g : Counted(g, calls)
  BY Counting
<1>3. /\ AllTokens(calls) = Bounded(g[n]) /\ g[0] = 0
      /\ \A k \in 1..n : g[k] = g[k - 1] + Total(calls[k].tokens)
  BY <1>2 DEF Counted
<1>4. \A k \in 1..n - 1 : calls[k].tokens = NoTokens
  OBVIOUS
<1> HIDE DEF n
<1>5. Total(NoTokens) = 0 /\ Bounded(0) = 0
  BY MaxBigintAssumption DEF NoTokens, Total, InputOf, OutputOf, Bounded
<1> DEFINE S == {k \in 0..n - 1 : g[k] = 0}
<1>6. CASE n = 0
  BY <1>1, <1>3, <1>5, <1>6
<1>7. CASE n # 0
  <2>1. 0 \in S /\ n - 1 \in Nat
    BY <1>1, <1>3, <1>7
  <2>2. ASSUME NEW k \in 0..(n - 1) - 1, k \in S PROVE k + 1 \in S
    <3>1. k + 1 \in 1..n /\ k + 1 \in 1..n - 1 /\ k + 1 \in 0..n - 1 /\ (k + 1) - 1 = k
      BY <1>1
    <3>2. g[k + 1] = g[k] + Total(calls[k + 1].tokens) /\ calls[k + 1].tokens = NoTokens /\ g[k] = 0
      BY <1>3, <1>4, <2>2, <3>1
    <3> QED
      BY <1>5, <3>1, <3>2
  <2> HIDE DEF S
  <2>3. \A k \in 0..n - 1 : k \in S
    BY <2>1, <2>2, Induction
  <2>4. g[n - 1] = 0
    BY <2>1, <2>3 DEF S
  <2>5. n \in 1..n /\ Total(calls[n].tokens) \in Nat
    BY <1>1, <1>7, TotalIs
  <2>6. g[n] = Total(calls[n].tokens)
    BY <1>3, <2>4, <2>5
  <2> QED
    BY <1>1, <1>3, <1>7, <2>6 DEF n
<1> QED
  BY <1>6, <1>7

(* Facts that are no model calls used nothing. *)
Idle(f) == \A i \in 1..Len(f) :
  f[i].kind \in {"ask", "again", "fail", "compact", "note", "close", "rewind"} => f[i].use = NoTokens

(* A message of Mistral Vibe adds a call, without tokens, if it is an answer. *)
LEMMA VibeAdds ==
  ASSUME NEW d, "calls" \in DOMAIN d, NEW message
  PROVE  /\ "calls" \in DOMAIN VibeNormalized(d, message)
         /\ \E turn : VibeNormalized(d, message).calls =
              IF message.role # "assistant" THEN d.calls
              ELSE Append(d.calls, [turn |-> turn, tokens |-> NoTokens])
<1> DEFINE starts == message.role = "user" /\ ~message.injected
           opened == IF starts THEN Opened(Marked(d, d.active, "completed"), message.id) ELSE d
           counted == [opened EXCEPT !.compactions = @ + IF message.boundary = "compaction" THEN 1 ELSE 0]
           turn == opened.active
           marked == Marked(counted, turn, "completed")
           called == Called(marked, turn, NoTokens)
           used == ToolUsed(called, turn, message.tool)
<1>1. VibeNormalized(d, message) = IF message.role # "assistant" THEN counted ELSE used
  BY DEF VibeNormalized
<1>2. "calls" \in DOMAIN opened /\ opened.calls = d.calls
  BY DEF Opened, Marked
<1> HIDE DEF opened, turn
<1>3. "calls" \in DOMAIN counted /\ counted.calls = d.calls
  BY <1>2
<1> HIDE DEF counted
<1>4. "calls" \in DOMAIN marked /\ marked.calls = d.calls
  BY <1>3 DEF Marked
<1> HIDE DEF marked
<1>5. "calls" \in DOMAIN called /\ called.calls = Append(d.calls, [turn |-> turn, tokens |-> NoTokens])
  BY <1>4 DEF Called
<1> HIDE DEF called
<1>6. "calls" \in DOMAIN used /\ used.calls = Append(d.calls, [turn |-> turn, tokens |-> NoTokens])
  BY <1>5 DEF ToolUsed
<1> HIDE DEF used
<1> QED
  BY <1>1, <1>3, <1>6

(* Mistral Vibe shows what all calls used on the last one, and on no turn. *)
LEMMA VibeAddsUp ==
  ASSUME NEW f, Uses(f), Idle(f), OfTool(f, VibeTraits), "aggregate" \in Traits
  PROVE  AddsUp(VibeConversation(VibeLog(f)))
<1> DEFINE whole == VibeLog(f)
           log == whole.messages
           n == Len(log)
           ids == [j \in 1..n |-> j]
           draft == Drafted(VibeNormalized, NoDraft, log)
           spent == VibeSpent(f)
           usage == VibeUsage(whole.stats)
<1>1. log = [i \in DOMAIN f |-> log[i]]
  BY DEF VibeLog, Records
<1>2. n = Len(f) /\ n \in Nat /\ DOMAIN log = 1..n /\ DOMAIN f = 1..n
  BY <1>1, RecordsAre
<1>3. \A k \in 1..n : log[k].id = k /\ log[k].role = IF f[k].kind = "answer" THEN "assistant" ELSE "user"
  BY <1>2 DEF VibeLog, Records
<1>4. \A d : Beside("mistral-vibe", d) <=>
                \A k \in 1..Len(d.calls) : d.calls[k] = [turn |-> d.calls[k].turn, tokens |-> NoTokens]
  BY Zenon DEF Beside
<1>5. \A d, k : Step("mistral-vibe", log, d, k) = VibeNormalized(d, log[k])
  BY ZenonT(60) DEF Step
<1>6. ASSUME NEW k \in 1..n PROVE KeepsGood("mistral-vibe", log, ids, k) /\ ids[k] \in Nat
  <2>1. Own(ids, k) /\ ids[k] = k /\ k \in Nat \ {0} /\ log[k].id = k
    BY <1>2, <1>3, OwnNumbers
  <2> HIDE DEF ids, log, n, draft
  <2>2. ASSUME NEW d, GoodDraft(d, Upto(ids, k - 1)), Beside("mistral-vibe", d)
        PROVE  GoodDraft(VibeNormalized(d, log[k]), Upto(ids, k)) /\ Beside("mistral-vibe", VibeNormalized(d, log[k]))
    <3> DEFINE message == log[k]
               keys == Upto(ids, k)
               starts == message.role = "user" /\ ~message.injected
               opened == IF starts THEN Opened(Marked(d, d.active, "completed"), message.id) ELSE d
               counted == [opened EXCEPT !.compactions = @ + IF message.boundary = "compaction" THEN 1 ELSE 0]
               turn == opened.active
               marked == Marked(counted, turn, "completed")
               called == Called(marked, turn, NoTokens)
               used == ToolUsed(called, turn, message.tool)
    <3>1. VibeNormalized(d, message) = IF message.role # "assistant" THEN counted ELSE used
      BY DEF VibeNormalized
    <3>2. GoodDraft(Marked(d, d.active, "completed"), Upto(ids, k - 1))
      BY <2>2, GoodMarked DEF Statuses
    <3>3. GoodDraft(Opened(Marked(d, d.active, "completed"), message.id), keys)
      BY <2>1, <3>2, OpensNext
    <3>4. GoodDraft(d, keys)
      BY <2>1, <2>2, GoodNext
    <3> HIDE DEF keys
    <3>5. GoodDraft(opened, keys)
      BY <3>3, <3>4
    <3> HIDE DEF opened, turn
    <3>6. GoodDraft(counted, keys)
      BY <3>5, GoodCompacted
    <3> HIDE DEF counted
    <3>7. GoodDraft(marked, keys)
      BY <3>6, GoodMarked DEF Statuses
    <3> HIDE DEF marked
    <3>8. GoodDraft(called, keys)
      BY <3>7, NoTokensAre, GoodCalled
    <3> HIDE DEF called
    <3>9. GoodDraft(used, keys)
      BY <3>8, GoodToolUsed
    <3>10. Beside("mistral-vibe", VibeNormalized(d, message))
      <4>1. "calls" \in DOMAIN d /\ IsList(d.calls)
           /\ \A j \in 1..Len(d.calls) : d.calls[j] = [turn |-> d.calls[j].turn, tokens |-> NoTokens]
        BY <1>4, <2>2 DEF GoodDraft, AreCalls
      <4> DEFINE calls == VibeNormalized(d, message).calls
      <4> HIDE DEF message
      <4>2. PICK at : calls = IF message.role # "assistant" THEN d.calls
                              ELSE Append(d.calls, [turn |-> at, tokens |-> NoTokens])
        BY <4>1, VibeAdds
      <4> HIDE DEF calls
      <4>3. \A j \in 1..Len(calls) : calls[j] = [turn |-> calls[j].turn, tokens |-> NoTokens]
        <5>1. CASE message.role # "assistant"
          BY <4>1, <4>2, <5>1
        <5>2. CASE message.role = "assistant"
          <6> DEFINE call == [turn |-> at, tokens |-> NoTokens]
                     m == Len(d.calls)
          <6>1. call = [turn |-> call.turn, tokens |-> NoTokens]
            OBVIOUS
          <6>2. calls = Append(d.calls, call)
            BY <4>2, <5>2
          <6> HIDE DEF call
          <6>3. Len(calls) = m + 1 /\ calls[m + 1] = call /\ \A j \in 1..m : calls[j] = d.calls[j]
            BY <4>1, <6>2, SameStarts
          <6>4. m \in Nat
            BY <4>1 DEF IsList
          <6> HIDE DEF m
          <6>5. \A j \in 1..m + 1 : j \in 1..m \/ j = m + 1
            BY <6>4
          <6> QED
            BY <4>1, <6>1, <6>3, <6>5 DEF m
        <5> QED
          BY <5>1, <5>2
      <4> QED
        BY <1>4, <4>3 DEF calls
    <3> HIDE DEF used
    <3> QED
      BY <3>1, <3>6, <3>9, <3>10 DEF keys
  <2> QED
    BY <1>5, <2>1, <2>2 DEF KeepsGood
<1>7. ReadTo("mistral-vibe", log, NoDraft, n, draft)
  BY <1>2, VibeReads
<1>8. GoodDraft(NoDraft, {}) /\ Beside("mistral-vibe", NoDraft)
  <2>1. NoDraft.calls = <<>>
    BY DEF NoDraft
  <2>2. Beside("mistral-vibe", NoDraft)
    BY <1>4, <2>1
  <2> QED
    BY <2>2, GoodAtFirst
<1>9. GoodDraft(draft, Nat) /\ Beside("mistral-vibe", draft)
  <2> HIDE DEF draft, ids, n, log
  <2> QED
    BY <1>2, <1>6, <1>7, <1>8, ReadWhole
<1> DEFINE calls == draft.calls
           m == Len(calls)
<1>10. /\ AreCalls(calls) /\ m \in Nat /\ (calls = <<>> <=> m = 0)
       /\ \A k \in 1..m : calls[k] = [turn |-> calls[k].turn, tokens |-> NoTokens]
  <2> HIDE DEF draft
  <2> QED
    BY <1>4, <1>9 DEF GoodDraft, AreCalls, IsList
<1>11. calls = <<>> => \A k \in 1..n : f[k].kind # "answer"
  <2> HIDE DEF log, n, draft
  <2>1. PICK r : ReadsOn(r, "mistral-vibe", log, NoDraft, n) /\ draft = r[n]
    BY <1>7 DEF ReadTo
  <2>2. \A k \in 0..n : r[k] = IF k = 0 THEN NoDraft ELSE Step("mistral-vibe", log, r[k - 1], k)
    BY <2>1 DEF ReadsOn
  <2> DEFINE S == {k \in 0..n : /\ "calls" \in DOMAIN r[k] /\ IsList(r[k].calls)
                                /\ (\E j \in 1..k : f[j].kind = "answer") => r[k].calls # <<>>}
  <2>3. 0 \in S
    <3>1. r[0] = NoDraft /\ "calls" \in DOMAIN NoDraft /\ IsList(NoDraft.calls)
      BY <1>2, <2>2, WrittenOut DEF NoDraft
    <3> QED
      BY <1>2, <3>1
  <2>4. ASSUME NEW k \in 0..n - 1, k \in S PROVE k + 1 \in S
    <3> DEFINE now == r[k]
               next == r[k + 1]
    <3>1. k + 1 \in 1..n /\ k + 1 \in 0..n /\ (k + 1) - 1 = k /\ k + 1 # 0
      BY <1>2
    <3>2. next = VibeNormalized(now, log[k + 1])
      BY <1>5, <2>2, <3>1
    <3>3. /\ "calls" \in DOMAIN now /\ IsList(now.calls)
          /\ (\E j \in 1..k : f[j].kind = "answer") => now.calls # <<>>
      BY <2>4
    <3>4. log[k + 1].role = IF f[k + 1].kind = "answer" THEN "assistant" ELSE "user"
      BY <1>3, <3>1
    <3> HIDE DEF now, next
    <3>5. "calls" \in DOMAIN next /\ \E turn : next.calls =
              IF log[k + 1].role # "assistant" THEN now.calls
              ELSE Append(now.calls, [turn |-> turn, tokens |-> NoTokens])
      BY <3>2, <3>3, VibeAdds
    <3>6. IsList(next.calls) /\ ((\E j \in 1..k + 1 : f[j].kind = "answer") => next.calls # <<>>)
      <4>1. CASE f[k + 1].kind = "answer"
        <5>1. PICK call : next.calls = Append(now.calls, call)
          BY <3>4, <3>5, <4>1
        <5>2. IsList(next.calls) /\ Len(next.calls) = Len(now.calls) + 1 /\ Len(now.calls) \in Nat
          BY <3>3, <5>1, SameStarts DEF IsList
        <5>3. Len(next.calls) # 0
          BY <5>2
        <5>4. next.calls # <<>>
          BY <5>3
        <5> QED
          BY <5>2, <5>4
      <4>2. CASE f[k + 1].kind # "answer"
        <5>1. next.calls = now.calls
          BY <3>4, <3>5, <4>2
        <5>2. \A j \in 1..k + 1 : j \in 1..k \/ j = k + 1
          BY <3>1
        <5> QED
          BY <3>3, <4>2, <5>1, <5>2
      <4> QED
        BY <4>1, <4>2
    <3> QED
      BY <3>1, <3>5, <3>6 DEF next
  <2> HIDE DEF S
  <2>5. \A k \in 0..n : k \in S
    BY <1>2, <2>3, <2>4, Induction
  <2>6. n \in S
    BY <1>2, <2>5
  <2> QED
    BY <2>1, <2>6 DEF S
<1>12. spent \in TokenRecords
  BY UsedAtAre DEF VibeSpent
<1>13. /\ usage = VibeUsage([prompt |-> InputOf(spent), cached |-> spent[2], completion |-> OutputOf(spent)])
  BY DEF VibeLog
<1>14. /\ usage \in TokenRecords /\ Bounded(Total(usage)) = Total(usage)
       /\ Total(spent) = 0 => Total(usage) = 0
  <2> HIDE DEF spent, usage
  <2> DEFINE raw == [prompt |-> InputOf(spent), cached |-> spent[2], completion |-> OutputOf(spent)]
             now == CountersOf(raw)
             input == now.prompt
             cached == Least(input, now.cached)
             uncached == input - cached
             output == now.completion
  <2>2. usage = Tokens(uncached, cached, 0, output, 0, 0)
    BY <1>13 DEF VibeUsage
  <2>9. /\ DOMAIN raw = {"prompt", "cached", "completion"} /\ raw.prompt = InputOf(spent)
        /\ raw.completion = OutputOf(spent) /\ raw.cached = spent[2]
    OBVIOUS
  <2>10. /\ InputOf(spent) \in Nat /\ OutputOf(spent) \in Nat /\ spent[2] \in Nat
         /\ Total(spent) = InputOf(spent) + OutputOf(spent) + spent[6] /\ spent[6] \in Nat
    BY <1>12, UseIs DEF Total
  <2> HIDE DEF raw
  <2>11. /\ now.prompt \in Nat /\ now.cached \in Nat /\ now.completion \in Nat
         /\ now.prompt = Bounded(raw.prompt) /\ now.completion = Bounded(raw.completion)
    <3>1. \A field \in DOMAIN raw : raw[field] \in Nat
      BY <2>9, <2>10
    <3> QED
      BY <2>9, <3>1, CountersAre
  <2> HIDE DEF now
  <2>1. input \in Nat /\ output \in Nat
    BY <2>11
  <2>3. cached \in Nat /\ uncached \in Nat /\ cached <= input
    BY <2>1, <2>11, Differences
  <2>4. Total(spent) = 0 => input = 0 /\ output = 0
    <3>1. Bounded(0) = 0
      BY MaxBigintAssumption DEF Bounded
    <3>2. Total(spent) = 0 => InputOf(spent) = 0 /\ OutputOf(spent) = 0
      <4> HIDE DEF input, output
      <4> QED
        BY <2>10
    <3> QED
      BY <2>9, <2>11, <3>1, <3>2
  <2> HIDE DEF input, output
  <2> HIDE DEF cached, uncached, output
  <2> DEFINE a == <<uncached, cached, 0, output, 0, 0>>
  <2>5. usage = Filled(a)
    <3>1. Over(0, uncached + cached + 0 + output + 0) = 0
      BY <2>1, <2>3 DEF Over
    <3> QED
      BY <2>2, <3>1 DEF Tokens
  <2>6. a \in TokenRecords /\ Sum6(a) = uncached + cached + output
    BY <2>1, <2>3 DEF TokenRecords, Sum6
  <2>7. Sum6(a) \in Nat /\ (Total(spent) = 0 => Sum6(a) = 0)
    <3>1. Total(spent) = 0 => cached = 0 /\ uncached = 0 /\ output = 0
      BY <2>1, <2>3, <2>4 DEF uncached
    <3> HIDE DEF a
    <3> QED
      BY <2>1, <2>3, <2>6, <3>1
  <2> HIDE DEF a
  <2>8. usage \in TokenRecords /\ Total(usage) = Bounded(Sum6(a))
    BY <2>5, <2>6, FilledIs
  <2> QED
    BY <2>7, <2>8, MaxBigintAssumption DEF Bounded
<1>15. calls = <<>> => Total(usage) = 0
  <2> SUFFICES ASSUME calls = <<>> PROVE Total(spent) = 0
    BY <1>14
  <2>1. \A k \in 1..n : f[k].use = NoTokens
    <3>1. \A k \in 1..n : f[k].kind \in {"ask", "compact", "note"}
      BY <1>2, <1>11 DEF OfTool, VibeTraits, Kinds
    <3> HIDE DEF n
    <3> QED
      BY <1>2, <3>1 DEF Idle
  <2>2. \A k \in 1..Len(f) : f[k].use = NoTokens
    BY <1>2, <2>1
  <2> QED
    BY <2>2, UsedNothing DEF VibeSpent
<1> DEFINE new == IF calls = <<>> THEN calls ELSE [calls EXCEPT ![m].tokens = usage]
           rows == VibeConversation(whole)
<1>16. /\ rows.calls = new /\ rows.tools = draft.tools
       /\ rows.totals.calls = m /\ rows.totals.tools = Len(draft.tools) /\ rows.totals.tokens = usage
       /\ DOMAIN rows.turns = DOMAIN draft.turns
       /\ \A i \in DOMAIN draft.turns :
            /\ rows.turns[i].key = draft.turns[i].key
            /\ rows.turns[i].calls = Len(InTurn(calls, i))
            /\ rows.turns[i].tokens = Summed(InTurn(calls, i))
  <2> DEFINE plain == Rows(draft)
  <2>1. rows = IF calls = <<>> THEN [plain EXCEPT !.totals.tokens = usage]
               ELSE [plain EXCEPT !.calls[m].tokens = usage, !.totals.tokens = usage]
    BY DEF VibeConversation
  <2>2. /\ {"turns", "calls", "tools", "totals"} \subseteq DOMAIN plain
        /\ plain.calls = calls /\ plain.tools = draft.tools
        /\ plain.totals = [calls |-> m, tools |-> Len(draft.tools), tokens |-> Summed(calls)]
        /\ DOMAIN plain.turns = DOMAIN draft.turns
        /\ \A i \in DOMAIN draft.turns :
             /\ plain.turns[i].key = draft.turns[i].key
             /\ plain.turns[i].calls = Len(InTurn(calls, i))
             /\ plain.turns[i].tokens = Summed(InTurn(calls, i))
    <3> HIDE DEF draft
    <3> QED
      BY DEF Rows
  <2> HIDE DEF plain, usage, draft, rows
  <2>3. rows.calls = new /\ rows.tools = plain.tools /\ rows.turns = plain.turns
        /\ rows.totals = [plain.totals EXCEPT !.tokens = usage]
    <3> HIDE DEF calls
    <3> QED
      BY <2>1, <2>2
  <2>4. /\ [plain.totals EXCEPT !.tokens = usage].calls = m
        /\ [plain.totals EXCEPT !.tokens = usage].tools = Len(draft.tools)
        /\ [plain.totals EXCEPT !.tokens = usage].tokens = usage
    BY <2>2
  <2> QED
    BY <2>2, <2>3, <2>4
<1> HIDE DEF draft, usage, rows, spent
<1>17. /\ AreCalls(new) /\ Len(new) = m
       /\ \A k \in 1..m : /\ new[k].turn = calls[k].turn
                          /\ new[k].tokens = IF k = m THEN usage ELSE NoTokens
  <2>1. CASE calls = <<>>
    <3>1. m = 0 /\ new = calls
      BY <1>10, <2>1
    <3> HIDE DEF new, m, calls
    <3> QED
      BY <1>10, <3>1 DEF m
  <2>2. CASE calls # <<>>
    <3> DEFINE last == calls[m]
               one == [last EXCEPT !.tokens = usage]
    <3>1. new = [calls EXCEPT ![m] = one]
      BY <2>2
    <3>2. m \in 1..m /\ IsList(calls) /\ last.tokens \in TokenRecords
      BY <1>10, <2>2 DEF AreCalls
    <3> HIDE DEF calls
    <3>3. DOMAIN new = DOMAIN calls /\ new = [k \in DOMAIN calls |-> new[k]]
          /\ \A k \in DOMAIN calls : new[k] = IF k = m THEN one ELSE calls[k]
      <4> HIDE DEF one, m
      <4> QED
        BY <3>1
    <3>4. DOMAIN calls = 1..m
      BY <3>2 DEF IsList
    <3> HIDE DEF new
    <3>5. IsList(new) /\ Len(new) = m
      BY <1>10, <3>3, <3>4, Numbered
    <3>6. ASSUME NEW k \in 1..m
          PROVE  new[k].turn = calls[k].turn /\ new[k].tokens = IF k = m THEN usage ELSE NoTokens
      <4>1. last = [turn |-> last.turn, tokens |-> NoTokens]
        BY <1>10, <3>2
      <4>2. one.turn = last.turn /\ one.tokens = usage
        <5> HIDE DEF last
        <5>1. DOMAIN last = {"turn", "tokens"}
          BY <4>1
        <5> QED
          BY <5>1
      <4> HIDE DEF one
      <4>3. new[k] = IF k = m THEN one ELSE calls[k]
        BY <3>3, <3>4
      <4>4. calls[k] = [turn |-> calls[k].turn, tokens |-> NoTokens]
        BY <1>10
      <4>5. calls[k].tokens = NoTokens
        BY <4>4
      <4> QED
        BY <4>2, <4>3, <4>5
    <3>7. \A k \in 1..m : new[k].tokens \in TokenRecords
      <4> HIDE DEF one, last, m
      <4> QED
        BY <1>14, <3>6, NoTokensAre
    <3> HIDE DEF one, last, m
    <3> QED
      BY <3>5, <3>6, <3>7 DEF AreCalls
  <2> QED
    BY <2>1, <2>2
<1>18. /\ rows.totals.calls = Len(rows.calls) /\ rows.totals.tools = Len(rows.tools)
       /\ Total(rows.totals.tokens) = AllTokens(rows.calls)
  <2>1. Total(usage) = AllTokens(new)
    <3> HIDE DEF calls, m
    <3>1. CASE m = 0
      <4>1. calls = <<>> /\ new = <<>>
        BY <1>10, <3>1
      <4> HIDE DEF new
      <4> QED
        BY <1>15, <1>17, <4>1, CountOfLast, WrittenOut DEF AreCalls
    <3>2. CASE m # 0
      <4> HIDE DEF new
      <4>1. m \in 1..m /\ new # <<>>
        BY <1>10, <1>17, <3>2
      <4>2. new[m].tokens = usage /\ \A k \in 1..m - 1 : new[k].tokens = NoTokens
        BY <1>10, <1>17, <4>1
      <4> QED
        BY <1>14, <1>17, <4>1, <4>2, CountOfLast
    <3> QED
      BY <3>1, <3>2
  <2> HIDE DEF new, calls, m
  <2> QED
    BY <1>16, <1>17, <2>1
<1>19. ASSUME NEW i \in DOMAIN rows.turns
       PROVE  /\ rows.turns[i].calls = Len(InTurn(rows.calls, i))
              /\ Total(rows.turns[i].tokens) = 0
              /\ \A j \in DOMAIN rows.turns : rows.turns[i].key = rows.turns[j].key => i = j
  <2> HIDE DEF new
  <2> DEFINE at == {k \in DOMAIN calls : calls[k].turn = i}
             those == InTurn(calls, i)
  <2>1. IsList(calls) /\ IsList(new) /\ DOMAIN calls = 1..m /\ DOMAIN new = 1..m /\ Len(new) = Len(calls)
    <3> HIDE DEF calls
    <3> QED
      BY <1>10, <1>17 DEF AreCalls, IsList
  <2>2. {k \in DOMAIN new : new[k].turn = i} = at
    <3> HIDE DEF m, calls
    <3> QED
      BY <1>17, <2>1
  <2>3. InTurn(new, i) = Those(new, at) /\ those = Those(calls, at)
    BY <2>2 DEF InTurn
  <2> HIDE DEF at, those, calls
  <2>4. Len(InTurn(new, i)) = Len(those)
    BY <2>1, <2>3, SameManyPicked
  <2>5. AreCalls(those) /\ PickedFrom(those, calls, at \cap 1..Len(calls))
    BY <1>10, <2>1, <2>3, PickedAreCalls, Picked
  <2>6. \A k \in 1..Len(those) : those[k].tokens = NoTokens
    <3>1. \A k \in 1..m : calls[k].tokens = NoTokens
      <4> TAKE k \in 1..m
      <4>1. calls[k] = [turn |-> calls[k].turn, tokens |-> NoTokens]
        BY <1>10
      <4> QED
        BY <4>1
    <3> QED
      BY <2>5, <3>1 DEF PickedFrom, m
  <2>7. AllTokens(those) = 0
    <3>1. Len(those) \in Nat /\ (those # <<>> => Len(those) # 0)
      BY <2>5 DEF AreCalls, IsList
    <3>2. \A k \in 1..Len(those) - 1 : those[k].tokens = NoTokens
      BY <2>6, <3>1
    <3>3. those # <<>> => those[Len(those)].tokens = NoTokens
      BY <2>6, <3>1
    <3>4. Total(NoTokens) = 0 /\ Bounded(0) = 0
      BY MaxBigintAssumption DEF NoTokens, Total, InputOf, OutputOf, Bounded
    <3> QED
      BY <2>5, <3>2, <3>3, <3>4, CountOfLast
  <2>8. Total(Summed(those)) = 0
    BY <2>5, <2>7, SummedIs
  <2>9. \A j, k \in DOMAIN draft.turns : draft.turns[j].key = draft.turns[k].key => j = k
    <3>1. DOMAIN draft.turns = 1..Len(draft.turns)
      BY <1>9 DEF GoodDraft
    <3> QED
      BY <1>9, <3>1 DEF GoodDraft
  <2> QED
    BY <1>16, <2>4, <2>8, <2>9 DEF those
<1> HIDE DEF new, calls, m
<1>20. AddsUp(rows)
  BY <1>18, <1>19 DEF AddsUp
<1> QED
  BY <1>20 DEF rows


(* What Continue tells a call used. *)
ContinueFields == {"prompt", "completion", "cached", "reasoning"}

LEMMA ContinueRaws ==
  /\ \A use \in TokenRecords : ContinueRaw(use) \in [ContinueFields -> Nat]
  /\ \A raw \in [ContinueFields -> Nat] :
       ContinueRead(raw) \in [ContinueFields -> Nat] /\ ContinueUsage(raw) \in TokenRecords
  /\ \A usage, told \in [ContinueFields -> Nat] :
       /\ ContinueResidual(usage, told) \in [ContinueFields -> Nat]
       /\ [field \in DOMAIN told |-> told[field] + usage[field]] \in [ContinueFields -> Nat]
<1>1. ASSUME NEW use \in TokenRecords PROVE ContinueRaw(use) \in [ContinueFields -> Nat]
  <2> DEFINE raw == ContinueRaw(use)
  <2>1. /\ DOMAIN raw = ContinueFields /\ raw = [field \in DOMAIN raw |-> raw[field]]
        /\ raw.prompt = InputOf(use) /\ raw.completion = OutputOf(use) /\ raw.cached = use[2]
        /\ raw.reasoning = use[5]
    BY DEF ContinueRaw, ContinueFields
  <2> HIDE DEF raw
  <2>2. /\ raw.prompt \in Nat /\ raw.completion \in Nat /\ raw.cached \in Nat /\ raw.reasoning \in Nat
    BY <2>1, UseIs
  <2>3. \A field \in ContinueFields : raw[field] \in Nat
    BY <2>2 DEF ContinueFields
  <2> QED
    BY <2>1, <2>3 DEF raw
<1>2. ASSUME NEW raw \in [ContinueFields -> Nat]
      PROVE  ContinueRead(raw) \in [ContinueFields -> Nat] /\ ContinueUsage(raw) \in TokenRecords
  <2>1. raw.prompt \in Nat /\ raw.completion \in Nat /\ raw.cached \in Nat /\ raw.reasoning \in Nat
    BY DEF ContinueFields
  <2> DEFINE prompt == raw.prompt
             kept == raw.cached
             apart == kept > prompt
             cached == IF apart THEN Least(kept, Over(MaxBigint, prompt)) ELSE kept
             uncached == IF apart THEN prompt ELSE prompt - cached
             output == Least(raw.completion, Over(MaxBigint, uncached + cached))
             reasoning == Least(output, raw.reasoning)
             visible == output - reasoning
  <2>2. ContinueUsage(raw) = <<uncached, cached, 0, visible, reasoning, 0>>
    BY DEF ContinueUsage
  <2>3. cached \in Nat /\ uncached \in Nat
    <3> HIDE DEF prompt, kept
    <3>1. prompt \in Nat /\ kept \in Nat
      BY <2>1 DEF prompt, kept
    <3>2. Over(MaxBigint, prompt) \in Nat /\ Least(kept, Over(MaxBigint, prompt)) \in Nat
      BY <3>1, MaxBigintAssumption, Differences
    <3> QED
      BY <3>1, <3>2
  <2> HIDE DEF cached, uncached
  <2>4. output \in Nat
    <3>1. uncached + cached \in Nat /\ MaxBigint \in Nat
      BY <2>3, MaxBigintAssumption
    <3>2. Over(MaxBigint, uncached + cached) \in Nat
      BY <3>1, Differences
    <3> QED
      BY <2>1, <3>2, Differences
  <2> HIDE DEF output
  <2>5. reasoning \in Nat /\ visible \in Nat
    BY <2>1, <2>4, Differences
  <2>6. ContinueRead(raw) \in [ContinueFields -> Nat]
    BY BoundedIs DEF ContinueRead
  <2> HIDE DEF reasoning, visible
  <2> QED
    BY <2>2, <2>3, <2>5, <2>6 DEF TokenRecords
<1>3. ASSUME NEW usage \in [ContinueFields -> Nat], NEW told \in [ContinueFields -> Nat]
      PROVE  /\ ContinueResidual(usage, told) \in [ContinueFields -> Nat]
             /\ [field \in DOMAIN told |-> told[field] + usage[field]] \in [ContinueFields -> Nat]
  <2>1. \A field \in ContinueFields : Over(usage[field], told[field]) \in Nat
    BY Differences
  <2> QED
    BY <2>1 DEF ContinueResidual
<1> QED
  BY <1>1, <1>2, <1>3

(* Continue. *)
LEMMA ContinueRows ==
  ASSUME NEW f, Uses(f), Sound(f)
  PROVE  RowsOfGood(ContinueConversation(ContinueLog(f)))
<1> DEFINE records == Records(f, LAMBDA i : ContinueItem(f, i))
           log == ContinueLog(f).history
           n == Len(log)
           ids == Ids(log)
           none == ContinueRaw(NoTokens)
           draft == Drafted(ContinueNormalized, ContinueEmpty, log)
           F == [ContinueFields -> Nat]
<1>1. records = [i \in DOMAIN f |-> records[i]]
  BY DEF Records
<1>2. IsList(f) /\ IsList(records) /\ Len(records) = Len(f) /\ DOMAIN f = 1..Len(f)
  BY <1>1, RecordsAre
<1>3. ASSUME NEW k \in 1..Len(f) PROVE records[k].id \in Nat /\ records[k].usage \in F
  <2>1. records[k] = ContinueItem(f, k)
    BY <1>2 DEF Records
  <2>2. Origin(f, k) \in Nat /\ f[k].use \in TokenRecords
    BY <1>2, RecordsAre, OriginsAre
  <2> HIDE DEF records
  <2>3. records[k].usage = ContinueRaw(f[k].use) /\ records[k].id = Origin(f, k)
    BY <2>1 DEF ContinueItem
  <2> QED
    BY <2>2, <2>3, ContinueRaws
<1>4. log = Table(records, OfKind(f, ContinueTraits \ {"extra"}))
  BY DEF ContinueLog
<1> HIDE DEF records, F
<1>5. IsList(log) /\ n \in Nat
  BY <1>2, <1>3, <1>4, TableOwn
<1>6. ASSUME NEW k \in 1..n
      PROVE  Own(ids, k) /\ ids[k] = log[k].id /\ log[k].usage \in F
  <2> HIDE DEF log
  <2> QED
    BY <1>2, <1>3, <1>4, TableOwn
<1>7. \A d : Beside("continue", d) <=> "told" \in DOMAIN d /\ d.told \in F
  BY Zenon DEF Beside, F, ContinueFields
<1>8. ASSUME NEW k \in 1..n PROVE KeepsGood("continue", log, ids, k) /\ ids[k] \in Nat
  <2>1. k \in Nat \ {0} /\ ids[k] \in Nat
    BY <1>6 DEF Own
  <2>2. \A d : Step("continue", log, d, k) = ContinueNormalized(d, log[k])
    BY ZenonT(60) DEF Step
  <2> HIDE DEF ids, log, n
  <2>3. ASSUME NEW d, GoodDraft(d, Upto(ids, k - 1)), Beside("continue", d)
        PROVE  /\ GoodDraft(ContinueNormalized(d, log[k]), Upto(ids, k))
               /\ Beside("continue", ContinueNormalized(d, log[k]))
    <3> DEFINE item == log[k]
               keys == Upto(ids, k)
               turn == d.active
               use == ContinueRead(item.usage)
               marked == Marked(d, turn, "completed")
               made == Called(marked, turn, ContinueUsage(use))
               told == [field \in DOMAIN made.told |-> made.told[field] + use[field]]
               paid == [made EXCEPT !["told"] = told]
               count == paid.compactions + IF item.conversationSummary THEN 1 ELSE 0
               called == [paid EXCEPT !["compactions"] = count]
               fresh == {tool.id : tool \in Range(item.toolCalls \o item.toolCallStates)} \ d.seen
               number == Cardinality(fresh)
               more == called.tools \o [j \in 1..number |-> turn]
               used == [called EXCEPT !["tools"] = more]
               seen == used.seen \cup fresh
               answered == [used EXCEPT !["seen"] = seen]
    <3>1. d.told \in F /\ "told" \in DOMAIN d /\ use \in F
      BY <1>6, <1>7, <2>3, ContinueRaws DEF F
    <3>2. ContinueNormalized(d, item) =
            CASE item.role = "user" /\ item.visible -> Opened(d, item.id)
              [] item.role = "assistant" -> answered
              [] OTHER -> d
      BY DEF ContinueNormalized, ToolsUsed
    <3> HIDE DEF item, use
    <3>3. GoodDraft(Opened(d, item.id), keys) /\ Beside("continue", Opened(d, item.id))
      <4>1. GoodDraft(Opened(d, item.id), keys)
        BY <1>6, <2>1, <2>3, OpensNext DEF item
      <4>2. Keeps(d, Opened(d, item.id), "told")
        BY KeptBeside
      <4> HIDE DEF keys
      <4> QED
        BY <1>7, <3>1, <4>1, <4>2 DEF Keeps
    <3>4. GoodDraft(d, keys)
      BY <2>1, <2>3, GoodNext
    <3> HIDE DEF keys
    <3>5. GoodDraft(marked, keys) /\ Keeps(d, marked, "told")
      BY <3>4, GoodMarked, KeptBeside DEF Statuses
    <3> HIDE DEF marked
    <3>6. ContinueUsage(use) \in TokenRecords
      BY <3>1, ContinueRaws DEF F
    <3>7. GoodDraft(made, keys) /\ Keeps(marked, made, "told")
      BY <3>5, <3>6, GoodCalled, KeptBeside
    <3> HIDE DEF made
    <3>8. "told" \in DOMAIN made /\ made.told = d.told
      BY <3>1, <3>5, <3>7 DEF Keeps
    <3>9. told \in F
      <4> DEFINE now == made.told
      <4>1. now \in F
        BY <3>1, <3>8
      <4> HIDE DEF now
      <4>2. [field \in DOMAIN now |-> now[field] + use[field]] \in F
        BY <3>1, <4>1, ContinueRaws DEF F
      <4> QED
        BY <4>2 DEF now
    <3> HIDE DEF told
    <3>10. "told" \notin {"turns", "calls"} /\ "compactions" \notin {"turns", "calls"}
           /\ "tools" \notin {"turns", "calls"} /\ "seen" \notin {"turns", "calls"}
      OBVIOUS
    <3>11. GoodDraft(paid, keys) /\ "told" \in DOMAIN paid /\ paid.told = told
      <4>1. GoodDraft(paid, keys)
        BY <3>7, <3>10, GoodBeside
      <4> QED
        BY <3>8, <4>1
    <3> HIDE DEF paid, count
    <3>12. GoodDraft(called, keys) /\ "told" \in DOMAIN called /\ called.told = told
      <4>1. GoodDraft(called, keys)
        BY <3>10, <3>11, GoodBeside
      <4> QED
        BY <3>11, <4>1
    <3> HIDE DEF called, more
    <3>13. GoodDraft(used, keys) /\ "told" \in DOMAIN used /\ used.told = told
      <4>1. GoodDraft(used, keys)
        BY <3>10, <3>12, GoodBeside
      <4> QED
        BY <3>12, <4>1
    <3> HIDE DEF used, seen
    <3>14. GoodDraft(answered, keys) /\ "told" \in DOMAIN answered /\ answered.told = told
      <4>1. GoodDraft(answered, keys)
        BY <3>10, <3>13, GoodBeside
      <4> QED
        BY <3>13, <4>1
    <3> HIDE DEF answered
    <3>15. Beside("continue", answered)
      BY <1>7, <3>9, <3>14
    <3> QED
      BY <2>3, <3>2, <3>3, <3>4, <3>14, <3>15 DEF item, keys
  <2> QED
    BY <2>1, <2>2, <2>3 DEF KeepsGood
<1>9. ReadTo("continue", log, ContinueEmpty, n, draft)
  BY <1>5, ContinueReads
<1>10. GoodDraft(ContinueEmpty, {}) /\ Beside("continue", ContinueEmpty)
  <2> DEFINE beside == [seen |-> {}, told |-> none]
  <2>1. DOMAIN beside = {"seen", "told"} /\ beside.told = none
    OBVIOUS
  <2>2. "told" \notin DOMAIN NoDraft
    BY DEF NoDraft
  <2>3. ContinueEmpty = DraftWith(beside)
    BY DEF ContinueEmpty
  <2>4. none \in F
    BY NoTokensAre, ContinueRaws DEF F
  <2> HIDE DEF beside, none
  <2> QED
    BY <1>7, <2>1, <2>2, <2>3, <2>4, GoodWith
<1> DEFINE residual == ContinueResidual(ContinueRead(ContinueLog(f).usage), draft.told)
<1>11. ContinueConversation(ContinueLog(f)) =
         Rows(IF Range(residual) = {0} THEN draft ELSE Called(draft, 0, ContinueUsage(residual)))
  BY DEF ContinueConversation
<1>12. ContinueRead(ContinueLog(f).usage) \in F
  BY UsedAtAre, ContinueRaws DEF ContinueLog, F
<1> HIDE DEF draft, ids, n, log, none
<1>13. GoodDraft(draft, Nat) /\ Beside("continue", draft)
  BY <1>5, <1>8, <1>9, <1>10, ReadWhole
<1>14. ContinueUsage(residual) \in TokenRecords
  BY <1>7, <1>12, <1>13, ContinueRaws DEF F
<1> HIDE DEF residual
<1>15. GoodDraft(Called(draft, 0, ContinueUsage(residual)), Nat)
  BY <1>13, <1>14, GoodCalled
<1> QED
  BY <1>11, <1>13, <1>15 DEF RowsOfGood


(* A list with a record for every item of a list. *)
LEMMA ForEachItem ==
  ASSUME NEW items, IsList(items), NEW list, list = [k \in DOMAIN items |-> list[k]]
  PROVE  IsList(list) /\ Len(list) = Len(items) /\ DOMAIN list = 1..Len(items)
<1>1. DOMAIN items = 1..Len(items) /\ Len(items) \in Nat
  BY DEF IsList
<1>2. list = [k \in 1..Len(items) |-> list[k]]
  BY <1>1
<1>3. IsList(list) /\ Len(list) = Len(items)
  BY <1>1, <1>2, Numbered
<1> QED
  BY <1>1, <1>3

(* What an OpenHands event adds to the responses. *)
LEMMA OpenHandsResponses ==
  ASSUME NEW d, NEW keys, GoodDraft(d, keys), Beside("openhands", d), NEW event
  PROVE  /\ GoodDraft(OpenHandsResponded(d, event), keys)
         /\ Beside("openhands", OpenHandsResponded(d, event))
<1> DEFINE answered == d.answered \cup {d.active}
           one == [d EXCEPT !["answered"] = answered]
           responses == IF event.response \in Range(one.responses) THEN one.responses
                        ELSE Append(one.responses, event.response)
           two == [one EXCEPT !["responses"] = responses]
           turnOf == two.turnOf @@ (event.response :> d.active)
           three == [two EXCEPT !["turnOf"] = turnOf]
<1>1. OpenHandsResponded(d, event) = IF OpenHandsResponds(event) THEN three ELSE d
  BY DEF OpenHandsResponded
<1>2. \A x : Beside("openhands", x) <=> "responses" \in DOMAIN x /\ IsList(x.responses)
  BY Zenon DEF Beside
<1>3. "answered" \notin {"turns", "calls"} /\ "responses" \notin {"turns", "calls"}
      /\ "turnOf" \notin {"turns", "calls"}
  OBVIOUS
<1>4. "responses" \in DOMAIN d /\ IsList(d.responses)
  BY <1>2
<1> HIDE DEF answered
<1>5. GoodDraft(one, keys) /\ "responses" \in DOMAIN one /\ IsList(one.responses)
  <2>1. GoodDraft(one, keys)
    BY <1>3, GoodBeside
  <2> QED
    BY <1>4, <2>1
<1> HIDE DEF one
<1>6. IsList(responses)
  <2> DEFINE old == one.responses
  <2>1. IsList(old)
    BY <1>5
  <2> HIDE DEF old
  <2>2. IsList(Append(old, event.response))
    BY <2>1, SameStarts
  <2> QED
    BY <2>1, <2>2 DEF old
<1> HIDE DEF responses
<1>7. GoodDraft(two, keys) /\ "responses" \in DOMAIN two /\ IsList(two.responses)
  <2>1. GoodDraft(two, keys)
    BY <1>3, <1>5, GoodBeside
  <2> QED
    BY <1>5, <1>6, <2>1
<1> HIDE DEF two, turnOf
<1>8. GoodDraft(three, keys) /\ "responses" \in DOMAIN three /\ IsList(three.responses)
  <2>1. GoodDraft(three, keys)
    BY <1>3, <1>7, GoodBeside
  <2> QED
    BY <1>7, <2>1
<1> HIDE DEF three
<1> QED
  BY <1>1, <1>2, <1>8

(* What the state of OpenHands tells a response used: the cache's share is no    *)
(* more than the limit, so that it is not taken from less.                       *)
LEMMA OpenHandsTokens ==
  ASSUME NEW raw, {"prompt", "cacheRead", "cacheWrite", "completion", "reasoning"} \subseteq DOMAIN raw,
         \A field \in DOMAIN raw : raw[field] \in Nat, raw.cacheRead + raw.cacheWrite <= MaxBigint
  PROVE  OpenHandsUsage(raw) \in TokenRecords
<1> DEFINE use == CountersOf(raw)
           some == use.cacheRead
           more == use.cacheWrite
           prompt == use.prompt
           completion == use.completion
           reasoning == Least(completion, use.reasoning)
           uncached == IF Bounded(some + more) <= prompt THEN prompt - (some + more) ELSE prompt
           visible == completion - reasoning
<1>1. /\ some \in Nat /\ more \in Nat /\ prompt \in Nat /\ completion \in Nat /\ use.reasoning \in Nat
      /\ some = Bounded(raw.cacheRead) /\ more = Bounded(raw.cacheWrite)
  BY CountersAre
<1>2. OpenHandsUsage(raw) = TokensApart(uncached, some, more, visible, reasoning, 0)
  BY DEF OpenHandsUsage
<1> HIDE DEF use
<1>3. reasoning \in Nat /\ visible \in Nat
  BY <1>1, Differences
<1>4. uncached \in Nat
  <2>1. some <= raw.cacheRead /\ more <= raw.cacheWrite /\ raw.cacheRead \in Nat /\ raw.cacheWrite \in Nat
    BY <1>1, BoundedIs
  <2> HIDE DEF some, more, prompt
  <2>2. Bounded(some + more) = some + more
    BY <1>1, <2>1, MaxBigintAssumption DEF Bounded
  <2> QED
    BY <1>1, <2>2
<1> HIDE DEF some, more, prompt, reasoning, uncached, visible
<1> QED
  BY <1>1, <1>2, <1>3, <1>4, TokensApartAre

(* No call used more than the limit. *)
Moderate(f) == \A i \in 1..Len(f) : Total(f[i].use) <= MaxBigint

LEMMA CachedWithin ==
  ASSUME NEW use \in TokenRecords
  PROVE  /\ use[2] + use[3] <= Total(use)
         /\ use[2] + use[3] \in Nat /\ Total(use) \in Nat
<1>1. /\ use[1] \in Nat /\ use[2] \in Nat /\ use[3] \in Nat
      /\ use[4] \in Nat /\ use[5] \in Nat /\ use[6] \in Nat
  BY DEF TokenRecords
<1> QED
  BY <1>1 DEF Total, InputOf, OutputOf

LEMMA OpenHandsUsages ==
  ASSUME NEW f, Uses(f), Moderate(f)
  PROVE  /\ IsList(OpenHandsLog(f).token_usages)
         /\ \A k \in 1..Len(OpenHandsLog(f).token_usages) :
              OpenHandsUsage(OpenHandsLog(f).token_usages[k]) \in TokenRecords
<1> DEFINE places == [i \in DOMAIN f |-> i]
           used == Those(places, OfKind(f, {"answer", "extra"}))
           told == OpenHandsLog(f).token_usages
<1>1. told = [k \in DOMAIN used |->
                [response_id |-> used[k], prompt |-> InputOf(f[used[k]].use),
                 cacheRead |-> f[used[k]].use[2], cacheWrite |-> f[used[k]].use[3],
                 completion |-> OutputOf(f[used[k]].use), reasoning |-> f[used[k]].use[5]]]
  BY DEF OpenHandsLog, Each
<1>2. IsList(f) /\ DOMAIN f = 1..Len(f) /\ \A i \in 1..Len(f) : f[i].use \in TokenRecords
  BY RecordsAre
<1>3. IsList(places) /\ Len(places) = Len(f) /\ \A i \in 1..Len(f) : places[i] = i
  BY <1>2, RecordsAre
<1> HIDE DEF places, told
<1>4. IsList(used) /\ \A k \in 1..Len(used) : used[k] \in 1..Len(f)
  BY <1>3, Picked DEF PickedFrom
<1> HIDE DEF used
<1>5. told = [k \in DOMAIN used |-> told[k]]
  BY <1>1
<1>6. IsList(told) /\ Len(told) = Len(used) /\ DOMAIN used = 1..Len(used)
  BY <1>4, <1>5, ForEachItem DEF IsList
<1>7. ASSUME NEW k \in 1..Len(told) PROVE OpenHandsUsage(told[k]) \in TokenRecords
  <2> DEFINE use == f[used[k]].use
             raw == told[k]
  <2>1. use \in TokenRecords /\ Total(use) <= MaxBigint /\ used[k] \in Nat
    BY <1>2, <1>4, <1>6 DEF Moderate
  <2>2. /\ raw.prompt = InputOf(use) /\ raw.cacheRead = use[2] /\ raw.cacheWrite = use[3]
        /\ raw.completion = OutputOf(use) /\ raw.reasoning = use[5] /\ raw.response_id = used[k]
        /\ DOMAIN raw = {"response_id", "prompt", "cacheRead", "cacheWrite", "completion", "reasoning"}
    BY <1>1, <1>6
  <2> HIDE DEF use, raw
  <2>3. \A field \in DOMAIN raw : raw[field] \in Nat
    BY <2>1, <2>2, UseIs
  <2>4. use[2] + use[3] <= MaxBigint
    <3>1. use[2] + use[3] <= Total(use) /\ use[2] + use[3] \in Nat /\ Total(use) \in Nat
      BY <2>1, CachedWithin
    <3>2. MaxBigint \in Nat /\ Total(use) <= MaxBigint
      BY <2>1, MaxBigintAssumption
    <3> QED
      BY <3>1, <3>2
  <2>5. OpenHandsUsage(raw) \in TokenRecords
    BY <2>2, <2>3, <2>4, OpenHandsTokens
  <2> QED
    BY <2>5 DEF raw
<1> QED
  BY <1>6, <1>7 DEF told

LEMMA OpenHandsCallsAre ==
  ASSUME NEW log, IsList(log.token_usages), NEW d, IsList(d.responses),
         \A k \in 1..Len(log.token_usages) : OpenHandsUsage(log.token_usages[k]) \in TokenRecords
  PROVE  AreCalls(OpenHandsModelCalls(log, d))
<1> DEFINE usages == log.token_usages
           known == {usage.response_id : usage \in Range(log.token_usages)}
           rest == Those(d.responses, {k \in DOMAIN d.responses : d.responses[k] \notin known})
           turn(id) == IF id \in DOMAIN d.turnOf THEN d.turnOf[id] ELSE 0
           told == [k \in DOMAIN usages |-> [turn |-> turn(usages[k].response_id),
                                             tokens |-> OpenHandsUsage(usages[k])]]
           untold == [k \in DOMAIN rest |-> [turn |-> turn(rest[k]), tokens |-> NoTokens]]
<1>1. OpenHandsModelCalls(log, d) = told \o untold
  BY DEF OpenHandsModelCalls, Each
<1>2. IsList(usages) /\ DOMAIN usages = 1..Len(usages)
      /\ \A k \in 1..Len(usages) : OpenHandsUsage(usages[k]) \in TokenRecords
  BY DEF IsList
<1>3. IsList(rest)
  BY Picked
<1>4. told = [k \in DOMAIN usages |-> told[k]] /\ \A k \in DOMAIN usages : told[k].tokens = OpenHandsUsage(usages[k])
  <2> HIDE DEF usages
  <2> QED
    OBVIOUS
<1>5. untold = [k \in DOMAIN rest |-> untold[k]] /\ \A k \in DOMAIN rest : untold[k].tokens = NoTokens
  <2> HIDE DEF rest
  <2> QED
    OBVIOUS
<1> HIDE DEF told, untold, rest, usages
<1>6. AreCalls(told)
  BY <1>2, <1>4, ForEachItem DEF AreCalls
<1>7. AreCalls(untold)
  BY <1>3, <1>5, ForEachItem, NoTokensAre DEF AreCalls
<1> QED
  BY <1>1, <1>6, <1>7, MoreCalls

(* OpenHands. *)
LEMMA OpenHandsRows ==
  ASSUME NEW f, Uses(f), Moderate(f)
  PROVE  RowsOfGood(OpenHandsConversation(OpenHandsLog(f)))
<1> DEFINE lists == Records(f, LAMBDA i : OpenHandsEvents(f, i))
           whole == OpenHandsLog(f)
           log == whole.events
           n == Len(log)
           ids == Ids(log)
           draft == Drafted(OpenHandsNormalized, OpenHandsEmpty, log)
           Prompts(i) == f[i].kind = "ask"
           Of(i, event) == event.id = i /\ (event.user => Prompts(i))
<1>1. lists = [i \in DOMAIN f |-> lists[i]]
  BY DEF Records
<1>2. /\ IsList(f) /\ Len(f) \in Nat /\ IsList(lists) /\ Len(lists) = Len(f) /\ DOMAIN f = 1..Len(f)
  BY <1>1, RecordsAre
<1>3. \A i \in 1..Len(f) : lists[i] = OpenHandsEvents(f, i)
  BY <1>2 DEF Records
<1>4. log = FlattenSeq(lists)
  BY DEF OpenHandsLog
<1> HIDE DEF lists
<1>5. ASSUME NEW i \in 1..Len(f)
      PROVE  /\ IsList(lists[i]) /\ \A p \in 1..Len(lists[i]) : Of(i, lists[i][p])
             /\ Prompts(i) => Len(lists[i]) = 1
  <2> DEFINE response == IF f[i].kind = "again" THEN Repeated(f, i) ELSE i
             One(kind) == [id |-> i, kind |-> kind, user |-> f[i].kind = "ask",
                           response |-> IF f[i].kind \in {"ask", "fail"} THEN 0 ELSE response]
  <2>1. \A kind : Of(i, One(kind))
    OBVIOUS
  <2>2. CASE f[i].kind = "ask"
    <3>1. lists[i] = <<One("MessageEvent")>>
      BY <1>3, <2>2, Zenon DEF OpenHandsEvents
    <3> HIDE DEF One, Of
    <3> QED
      BY <2>1, <3>1, WrittenOut
  <2>3. CASE f[i].kind = "answer"
    <3>1. lists[i] = <<One(IF f[i].tool THEN "ActionEvent" ELSE "MessageEvent")>>
                       \o IF f[i].ok THEN <<>> ELSE <<One("AgentErrorEvent")>>
      BY <1>3, <2>3, Zenon DEF OpenHandsEvents
    <3> DEFINE a == One(IF f[i].tool THEN "ActionEvent" ELSE "MessageEvent")
               b == One("AgentErrorEvent")
    <3>2. Of(i, a) /\ Of(i, b) /\ ~Prompts(i)
      BY <2>1, <2>3
    <3>3. lists[i] = <<a>> \o (IF f[i].ok THEN <<>> ELSE <<b>>)
      BY <3>1
    <3> HIDE DEF a, b, One, Of, Prompts
    <3>4. IsList(<<a>>) /\ IsList(<<>>) /\ IsList(<<b>>)
      BY WrittenOut
    <3>5. IsList(<<a>> \o <<>>) /\ IsList(<<a>> \o <<b>>)
      BY <3>4, Joined
    <3>6. \A p \in 1..Len(<<a>> \o <<>>) : Of(i, (<<a>> \o <<>>)[p])
      BY <3>2
    <3>7. \A p \in 1..Len(<<a>> \o <<b>>) : Of(i, (<<a>> \o <<b>>)[p])
      BY <3>2
    <3> QED
      BY <3>2, <3>3, <3>5, <3>6, <3>7
  <2>4. CASE f[i].kind \notin {"ask", "answer"}
    <3>1. lists[i] = <<>> \/ \E kind : lists[i] = <<One(kind)>>
      <4>1. CASE f[i].kind \in {"again", "compact", "fail"}
        BY <1>3, <2>4, <4>1, Zenon DEF OpenHandsEvents
      <4>2. CASE f[i].kind \notin {"again", "compact", "fail"}
        BY <1>3, <2>4, <4>2, Zenon DEF OpenHandsEvents
      <4> QED
        BY <4>1, <4>2
    <3>2. ~Prompts(i)
      BY <2>4
    <3> HIDE DEF One, Of, Prompts
    <3>3. CASE lists[i] = <<>>
      BY <3>2, <3>3, WrittenOut
    <3>4. ASSUME NEW kind, lists[i] = <<One(kind)>>
          PROVE  IsList(lists[i]) /\ \A p \in 1..Len(lists[i]) : Of(i, lists[i][p])
      <4> DEFINE one == One(kind)
      <4>1. Of(i, one) /\ lists[i] = <<one>>
        BY <2>1, <3>4
      <4> HIDE DEF one
      <4> QED
        BY <4>1, WrittenOut
    <3> QED
      BY <3>1, <3>2, <3>3, <3>4
  <2> QED
    BY <2>2, <2>3, <2>4
<1> HIDE DEF Prompts
<1>6. n \in Nat /\ IsList(log) /\ AreFrom(log, lists, Len(f))
  <2>1. \A i \in 1..Len(lists) : IsList(lists[i])
    BY <1>2, <1>5
  <2> QED
    BY <1>2, <1>4, <2>1, FlattenedFrom
<1>7. PICK owner, pos : ComesFrom(owner, pos, log, lists, Len(f))
  BY <1>6 DEF AreFrom
<1> HIDE DEF log
<1>8. ASSUME NEW p \in 1..n
      PROVE  ids[p] = log[p].id /\ ids[p] \in Nat /\ (log[p].user => Own(ids, p))
  <2>1. /\ owner[p] \in 1..Len(f) /\ pos[p] \in 1..Len(lists[owner[p]])
        /\ log[p] = lists[owner[p]][pos[p]]
        /\ \A q \in 1..p - 1 : owner[q] < owner[p] \/ (owner[q] = owner[p] /\ pos[q] < pos[p])
    BY <1>7 DEF ComesFrom
  <2>2. \A q \in 1..n : log[q].id = owner[q] /\ owner[q] \in Nat /\ pos[q] \in Nat /\ pos[q] >= 1
    <3> TAKE q \in 1..n
    <3>1. owner[q] \in 1..Len(f) /\ pos[q] \in 1..Len(lists[owner[q]]) /\ log[q] = lists[owner[q]][pos[q]]
      BY <1>7 DEF ComesFrom
    <3>2. Of(owner[q], log[q]) /\ IsList(lists[owner[q]])
      BY <1>5, <3>1
    <3>3. log[q].id = owner[q]
      BY <3>2
    <3> HIDE DEF Of, n
    <3>4. owner[q] \in Nat /\ pos[q] \in Nat /\ pos[q] >= 1
      BY <1>2, <3>1, <3>2 DEF IsList
    <3> QED
      BY <3>3, <3>4
  <2>3. \A q \in 1..n : ids[q] = log[q].id
    BY DEF Ids
  <2>4. log[p].user => pos[p] = 1
    <3>1. log[p].user => Prompts(owner[p])
      BY <1>5, <2>1
    <3>2. Prompts(owner[p]) => Len(lists[owner[p]]) = 1
      BY <1>5, <2>1
    <3> QED
      BY <2>1, <3>1, <3>2
  <2>5. ASSUME log[p].user, NEW q \in 1..p - 1 PROVE ids[q] # ids[p]
    <3>1. q \in 1..n
      BY <1>6
    <3> HIDE DEF ids, n
    <3> QED
      BY <2>1, <2>2, <2>3, <2>4, <2>5, <3>1
  <2> HIDE DEF ids, n
  <2> QED
    BY <2>2, <2>3, <2>5 DEF Own
<1> HIDE DEF Of
<1>9. ASSUME NEW k \in 1..n PROVE KeepsGood("openhands", log, ids, k) /\ ids[k] \in Nat
  <2>1. k \in Nat \ {0} /\ ids[k] \in Nat
    BY <1>8
  <2>2. \A d : Step("openhands", log, d, k) = OpenHandsNormalized(d, log[k])
    BY ZenonT(60) DEF Step
  <2>3. \A x : Beside("openhands", x) <=> "responses" \in DOMAIN x /\ IsList(x.responses)
    BY Zenon DEF Beside
  <2> HIDE DEF ids, n
  <2>4. ASSUME NEW d, GoodDraft(d, Upto(ids, k - 1)), Beside("openhands", d)
        PROVE  /\ GoodDraft(OpenHandsNormalized(d, log[k]), Upto(ids, k))
               /\ Beside("openhands", OpenHandsNormalized(d, log[k]))
    <3> DEFINE event == log[k]
               keys == Upto(ids, k)
               responded == OpenHandsResponded(d, event)
               used == ToolUsed(responded, d.active, TRUE)
               counted == [responded EXCEPT !["compactions"] = @ + 1]
               errors == responded.errors \cup {d.active}
               failed == [responded EXCEPT !["errors"] = errors]
    <3>1. OpenHandsNormalized(d, event) =
            CASE event.kind = "MessageEvent" /\ event.user -> Opened(d, event.id)
              [] event.kind = "ActionEvent" -> used
              [] event.kind = "Condensation" -> counted
              [] event.kind \in {"AgentErrorEvent", "ConversationErrorEvent"} -> failed
              [] OTHER -> responded
      BY DEF OpenHandsNormalized
    <3> HIDE DEF event
    <3>2. event.user => GoodDraft(Opened(d, event.id), keys) /\ Beside("openhands", Opened(d, event.id))
      <4>1. event.user => GoodDraft(Opened(d, event.id), keys)
        BY <1>8, <2>1, <2>4, OpensNext DEF event
      <4>2. Keeps(d, Opened(d, event.id), "responses")
        BY KeptBeside
      <4> HIDE DEF keys
      <4> QED
        BY <2>3, <2>4, <4>1, <4>2 DEF Keeps
    <3>3. GoodDraft(d, keys)
      BY <2>1, <2>4, GoodNext
    <3> HIDE DEF keys
    <3>4. GoodDraft(responded, keys) /\ Beside("openhands", responded)
      BY <2>4, <3>3, OpenHandsResponses
    <3> HIDE DEF responded
    <3>5. GoodDraft(used, keys) /\ Beside("openhands", used)
      <4>1. Keeps(responded, used, "responses")
        BY KeptBeside
      <4>2. GoodDraft(used, keys)
        BY <3>4, GoodToolUsed
      <4> HIDE DEF used
      <4> QED
        BY <2>3, <3>4, <4>1, <4>2 DEF Keeps
    <3>6. GoodDraft(counted, keys) /\ Beside("openhands", counted)
      <4>1. counted.responses = responded.responses /\ DOMAIN counted = DOMAIN responded
        BY <2>3, <3>4
      <4>2. GoodDraft(counted, keys)
        <5> DEFINE v == responded.compactions + 1
        <5>1. counted = [responded EXCEPT !.compactions = v]
          OBVIOUS
        <5> HIDE DEF v, counted
        <5> QED
          BY <3>4, <5>1, GoodCompacted
      <4> HIDE DEF counted
      <4> QED
        BY <2>3, <3>4, <4>1, <4>2
    <3> HIDE DEF errors
    <3>7. GoodDraft(failed, keys) /\ Beside("openhands", failed)
      <4>1. failed.responses = responded.responses /\ DOMAIN failed = DOMAIN responded
        BY <2>3, <3>4
      <4>2. "errors" \notin {"turns", "calls"}
        OBVIOUS
      <4>3. GoodDraft(failed, keys)
        BY <3>4, <4>2, GoodBeside
      <4> HIDE DEF failed
      <4> QED
        BY <2>3, <3>4, <4>1, <4>3
    <3> HIDE DEF used, counted, failed
    <3>8. OpenHandsNormalized(d, event) \in
            (IF event.user THEN {Opened(d, event.id)} ELSE {}) \cup {used, counted, failed, responded}
      BY <3>1, Zenon
    <3> QED
      BY <3>2, <3>4, <3>5, <3>6, <3>7, <3>8 DEF event, keys
  <2> QED
    BY <2>1, <2>2, <2>4 DEF KeepsGood
<1>10. ReadTo("openhands", log, OpenHandsEmpty, n, draft)
  BY <1>6, OpenHandsReads
<1>11. \A x : Beside("openhands", x) <=> "responses" \in DOMAIN x /\ IsList(x.responses)
  BY Zenon DEF Beside
<1>12. GoodDraft(OpenHandsEmpty, {}) /\ Beside("openhands", OpenHandsEmpty)
  <2> DEFINE beside == [responses |-> <<>>, turnOf |-> <<>>, answered |-> {}, errors |-> {}]
  <2>1. "responses" \in DOMAIN beside /\ beside.responses = <<>>
    OBVIOUS
  <2>2. "responses" \notin DOMAIN NoDraft
    BY DEF NoDraft
  <2>3. OpenHandsEmpty = DraftWith(beside)
    BY DEF OpenHandsEmpty
  <2> HIDE DEF beside
  <2> QED
    BY <1>11, <2>1, <2>2, <2>3, GoodWith, WrittenOut
<1> DEFINE failed == IF whole.execution_status \in {"error", "stuck"} THEN {Len(draft.turns)} ELSE {}
           status(turn) == IF turn \in draft.errors \cup failed THEN "aborted"
                           ELSE IF turn \in draft.answered THEN "completed" ELSE "in-progress"
           turns == [turn \in DOMAIN draft.turns |-> [draft.turns[turn] EXCEPT !.status = status(turn)]]
           calls == OpenHandsModelCalls(whole, draft)
           restated == [draft EXCEPT !.turns = turns]
           last == [restated EXCEPT !.calls = calls]
<1>13. OpenHandsConversation(whole) = Rows(last)
  <2>1. OpenHandsConversation(whole) = Rows([draft EXCEPT !.turns = turns, !.calls = calls])
    BY DEF OpenHandsConversation, log
  <2> HIDE DEF turns, calls, draft
  <2> QED
    BY <2>1
<1>14. IsList(whole.token_usages) /\ \A k \in 1..Len(whole.token_usages) :
                                      OpenHandsUsage(whole.token_usages[k]) \in TokenRecords
  BY OpenHandsUsages
<1> HIDE DEF draft, ids, n, whole
<1>15. GoodDraft(draft, Nat) /\ IsList(draft.responses)
  BY <1>6, <1>9, <1>10, <1>11, <1>12, ReadWhole
<1>16. \A turn : status(turn) \in Statuses
  BY DEF Statuses
<1> HIDE DEF failed, status
<1>17. turns = [i \in DOMAIN draft.turns |-> turns[i]]
       /\ \A i \in DOMAIN draft.turns : turns[i] = [draft.turns[i] EXCEPT !.status = status(i)]
  OBVIOUS
<1> HIDE DEF turns
<1>18. GoodDraft(restated, Nat)
  <2>1. \A i \in DOMAIN draft.turns :
          \/ turns[i] = draft.turns[i]
          \/ \E s \in Statuses : turns[i] = [draft.turns[i] EXCEPT !.status = s]
    BY <1>16, <1>17
  <2> QED
    BY <1>15, <1>17, <2>1, GoodRestated
<1>19. AreCalls(calls)
  BY <1>14, <1>15, OpenHandsCallsAre
<1> HIDE DEF restated, calls
<1>20. GoodDraft(last, Nat)
  BY <1>18, <1>19, GoodOfCalls
<1> QED
  BY <1>13, <1>20 DEF RowsOfGood, whole


(* Marking a turn leaves the keys of the turns as they are. *)
SameKeys(draft, new) ==
  /\ Len(new.turns) = Len(draft.turns)
  /\ \A i \in 1..Len(draft.turns) : new.turns[i].key = draft.turns[i].key

LEMMA MarkedKeys ==
  ASSUME NEW draft, NEW keys, GoodDraft(draft, keys), NEW turn, NEW status
  PROVE  SameKeys(draft, Marked(draft, turn, status))
<1> DEFINE T == [key : Nat, status : Statuses]
           turns == draft.turns
           new == [turns EXCEPT ![turn].status = status]
<1>1. turns \in Seq(T) /\ "turns" \in DOMAIN draft
  BY DEF GoodDraft
<1>2. CASE turn = 0
  BY <1>2 DEF Marked, SameKeys
<1>3. CASE turn # 0
  <2>1. Marked(draft, turn, status).turns = new
    BY <1>1, <1>3 DEF Marked
  <2> HIDE DEF turns
  <2>2. Len(new) = Len(turns)
    <3> HIDE DEF T
    <3> QED
      BY <1>1
  <2>3. ASSUME NEW i \in 1..Len(turns) PROVE new[i].key = turns[i].key
    <3> DEFINE one == [turns[turn] EXCEPT !.status = status]
    <3>1. new = [turns EXCEPT ![turn] = one] /\ DOMAIN turns = 1..Len(turns)
      <4> HIDE DEF T
      <4> QED
        BY <1>1
    <3>2. i = turn => one.key = turns[i].key
      <4>1. turns[i] \in T
        <5> HIDE DEF T
        <5> QED
          BY <1>1
      <4> QED
        BY <4>1
    <3> HIDE DEF one, new
    <3> QED
      BY <3>1, <3>2
  <2> HIDE DEF new
  <2> QED
    BY <2>1, <2>2, <2>3 DEF SameKeys, turns
<1> QED
  BY <1>2, <1>3

(* Aider. *)
LEMMA AiderRows ==
  ASSUME NEW f, Uses(f)
  PROVE  RowsOfGood(AiderConversation(AiderLog(f)))
<1> DEFINE whole == AiderLog(f)
           log == AiderSession(whole, 1)
           n == Len(log)
           ids == [j \in 1..n |-> j]
           draft == Drafted(AiderNormalized, NoDraft, log)
           Later(type) == {i \in 2..Len(whole) : whole[i].event = type}
           ends == {Len(whole)} \cup Later("exit") \cup {i - 1 : i \in Later("launched")}
<1>1. /\ IsList(f) /\ Len(f) \in Nat /\ IsList(whole) /\ Len(whole) = Len(f) + 1
      /\ \A k \in 1..Len(f) : f[k].use \in TokenRecords
      /\ whole[1].event = "launched"
      /\ \A i \in 2..Len(f) + 1 : whole[i] = AiderEvent(f, i - 1)
  <2>1. IsList(f)
    BY DEF Uses
  <2> QED
    BY <2>1, RecordsAre, AiderLogIs
<1>2. log = SubSeq(whole, 1, Min(ends))
  BY DEF AiderSession
<1> HIDE DEF whole, log
<1>3. Min(ends) \in 0..Len(whole)
  <2>1. ends \subseteq 0..Len(whole) /\ Len(whole) \in ends
    BY <1>1
  <2> HIDE DEF ends
  <2>2. ends \subseteq Nat /\ ends # {}
    BY <2>1
  <2> QED
    BY <2>1, <2>2, MinIs
<1> HIDE DEF ends
<1>4. n \in Nat /\ \A k \in 1..n : log[k] = whole[k] /\ k \in 1..Len(whole)
  BY <1>1, <1>2, <1>3, Starts
<1>5. ASSUME NEW k \in 1..n, log[k].event = "message_send"
      PROVE  AiderUsage(log[k].usage) \in TokenRecords
  <2>1. k # 1
    BY <1>1, <1>4, <1>5
  <2>2. k \in 2..Len(f) + 1 /\ k - 1 \in 1..Len(f)
    BY <1>1, <1>4, <2>1
  <2> DEFINE use == f[k - 1].use
  <2>3. use \in TokenRecords /\ log[k] = AiderEvent(f, k - 1)
    BY <1>1, <1>4, <2>2
  <2>4. log[k].usage = [prompt_tokens |-> InputOf(use), completion_tokens |-> OutputOf(use),
                        total_tokens |-> Total(use)]
    BY <2>3 DEF AiderEvent
  <2> DEFINE raw == log[k].usage
  <2> HIDE DEF use
  <2>5. raw.prompt_tokens = InputOf(use) /\ raw.completion_tokens = OutputOf(use) /\ raw.total_tokens = Total(use)
    BY <2>4
  <2> HIDE DEF raw
  <2>6. raw.prompt_tokens \in Nat /\ raw.completion_tokens \in Nat /\ raw.total_tokens \in Nat
    BY <2>3, <2>5, UseIs
  <2>7. AiderUsage(raw) \in TokenRecords
    <3>1. /\ InRange(raw.prompt_tokens) \in Nat /\ InRange(raw.completion_tokens) \in Nat
          /\ InRange(raw.total_tokens) \in Nat
      BY <2>6, BoundedIs
    <3> QED
      BY <3>1, TokensApartAre DEF AiderUsage
  <2> QED
    BY <2>7 DEF raw
<1>6. \A d : Beside("aider", d) <=> \A i \in 1..Len(d.turns) : d.turns[i].key = i
  BY Zenon DEF Beside
<1>7. ASSUME NEW d, NEW keys, NEW status \in Statuses, GoodDraft(d, keys), Beside("aider", d)
      PROVE  /\ GoodDraft(AiderLeft(d, status), keys) /\ Beside("aider", AiderLeft(d, status))
             /\ Len(AiderLeft(d, status).turns) = Len(d.turns)
  <2> DEFINE marked == Marked(d, d.active, status)
             left == [marked EXCEPT !["active"] = 0]
  <2>1. GoodDraft(marked, keys) /\ SameKeys(d, marked)
    BY <1>7, GoodMarked, MarkedKeys
  <2> HIDE DEF marked
  <2>2. "active" \notin {"turns", "calls"}
    OBVIOUS
  <2>3. GoodDraft(left, keys)
    BY <2>1, <2>2, GoodBeside
  <2>4. left.turns = marked.turns
    OBVIOUS
  <2>5. AiderLeft(d, status) = left
    BY DEF AiderLeft, marked
  <2> HIDE DEF left
  <2> QED
    BY <1>6, <1>7, <2>1, <2>3, <2>4, <2>5 DEF SameKeys
<1>8. ASSUME NEW k \in 1..n PROVE KeepsGood("aider", log, ids, k) /\ ids[k] \in Nat
  <2>1. k \in Nat \ {0} /\ ids[k] = k /\ Upto(ids, k - 1) = 1..k - 1 /\ Upto(ids, k) = 1..k
    <3>1. n \in Nat /\ \A j \in 1..n : ids[j] = j
      BY <1>4
    <3> HIDE DEF n, ids
    <3>2. \A m \in 0..n : Upto(ids, m) = 1..m
      BY <3>1 DEF Upto
    <3> QED
      BY <3>1, <3>2
  <2>2. \A d : Step("aider", log, d, k) = AiderNormalized(d, log[k])
    BY ZenonT(60) DEF Step
  <2> HIDE DEF ids, n
  <2>3. ASSUME NEW d, GoodDraft(d, Upto(ids, k - 1)), Beside("aider", d)
        PROVE  /\ GoodDraft(AiderNormalized(d, log[k]), Upto(ids, k))
               /\ Beside("aider", AiderNormalized(d, log[k]))
    <3> DEFINE event == log[k]
               aborted == AiderLeft(d, "aborted")
               key == Len(d.turns) + 1
               opened == Opened(aborted, key)
               called == Called(d, d.active, AiderUsage(event.usage))
               done == AiderLeft(called, "completed")
    <3>1. AiderNormalized(d, event) =
            CASE event.event = "message_send_starting" -> opened
              [] event.event \in {"message_send_exception", "exit"} -> aborted
              [] event.event = "message_send" -> done
              [] OTHER -> d
      BY DEF AiderNormalized
    <3>2. /\ GoodDraft(d, 1..k) /\ GoodDraft(d, 1..k - 1)
      BY <2>1, <2>3, GoodNext
    <3> HIDE DEF event
    <3>3. /\ GoodDraft(aborted, 1..k) /\ GoodDraft(aborted, 1..k - 1) /\ Beside("aider", aborted)
          /\ Len(aborted.turns) = Len(d.turns)
      BY <1>7, <2>3, <3>2 DEF Statuses
    <3>4. event.event = "message_send" => GoodDraft(done, 1..k) /\ Beside("aider", done)
      <4> SUFFICES ASSUME event.event = "message_send" PROVE GoodDraft(done, 1..k) /\ Beside("aider", done)
        OBVIOUS
      <4>1. AiderUsage(event.usage) \in TokenRecords
        BY <1>5 DEF event
      <4>2. GoodDraft(called, 1..k)
        BY <3>2, <4>1, GoodCalled
      <4>3. called.turns = d.turns
        BY DEF Called
      <4> HIDE DEF called
      <4>4. Beside("aider", called)
        BY <1>6, <2>3, <4>3
      <4> QED
        BY <1>7, <4>2, <4>4 DEF Statuses
    <3> HIDE DEF aborted, done
    <3>5. GoodDraft(opened, 1..k) /\ Beside("aider", opened)
      <4> DEFINE T == [key : Nat, status : Statuses]
                 turns == aborted.turns
                 m == Len(turns)
                 one == [key |-> key, status |-> "in-progress"]
      <4>1. turns \in Seq(T) /\ m \in Nat /\ key = m + 1
        <5>1. turns \in Seq(T)
          BY <3>3 DEF GoodDraft
        <5> HIDE DEF T
        <5> QED
          BY <3>3, <5>1
      <4>2. \A i \in 1..m : turns[i].key = i
        BY <1>6, <3>3
      <4>3. key \in Nat /\ key \in 1..k /\ \A i \in 1..m : turns[i].key # key
        <5>1. m # 0 => m \in 1..k - 1
          <6> SUFFICES ASSUME m # 0 PROVE m \in 1..k - 1
            OBVIOUS
          <6>1. m \in 1..m
            BY <4>1
          <6>2. turns[m].key \in 1..k - 1
            BY <3>3, <6>1 DEF GoodDraft
          <6> QED
            BY <4>2, <6>1, <6>2
        <5> HIDE DEF m, key
        <5> QED
          BY <2>1, <4>1, <4>2, <5>1
      <4>4. 1..k - 1 \cup {key} \subseteq 1..k
        BY <2>1, <4>3
      <4>5. opened.turns = Append(turns, one)
        BY <3>3 DEF Opened, GoodDraft
      <4> HIDE DEF key
      <4>6. GoodDraft(opened, 1..k)
        <5> HIDE DEF opened
        <5> QED
          BY <3>3, <4>3, <4>4, GoodOpened DEF opened
      <4>7. one.key = key
        OBVIOUS
      <4> HIDE DEF one, opened, turns, T
      <4>8. /\ Len(Append(turns, one)) = m + 1 /\ Append(turns, one)[m + 1] = one
            /\ \A i \in 1..m : Append(turns, one)[i] = turns[i]
        BY <4>1
      <4> HIDE DEF m
      <4>9. \A i \in 1..Len(opened.turns) : i \in 1..m \/ i = m + 1
        BY <4>1, <4>5, <4>8
      <4>10. \A i \in 1..Len(opened.turns) : opened.turns[i].key = i
        BY <4>1, <4>2, <4>5, <4>7, <4>8, <4>9
      <4> QED
        BY <1>6, <4>6, <4>10
    <3> HIDE DEF opened
    <3>6. CASE event.event = "message_send_starting"
      BY <3>1, <3>5, <3>6, <2>1, Zenon DEF event
    <3>7. CASE event.event = "message_send"
      BY <3>1, <3>4, <3>7, <2>1, Zenon DEF event
    <3>8. CASE event.event \in {"message_send_exception", "exit"}
      BY <3>1, <3>3, <3>8, <2>1, Zenon DEF event
    <3>9. CASE event.event \notin {"message_send_starting", "message_send", "message_send_exception", "exit"}
      BY <3>1, <3>2, <3>9, <2>1, <2>3, Zenon DEF event
    <3> QED
      BY <3>6, <3>7, <3>8, <3>9
  <2> QED
    BY <2>1, <2>2, <2>3 DEF KeepsGood
<1>9. ReadTo("aider", log, NoDraft, n, draft)
  BY <1>4, AiderReads
<1>10. GoodDraft(NoDraft, {}) /\ Beside("aider", NoDraft)
  <2>1. NoDraft.turns = <<>>
    BY DEF NoDraft
  <2> QED
    BY <1>6, <2>1, GoodAtFirst
<1>11. AiderConversation(AiderLog(f)) = Rows(draft)
  BY DEF AiderConversation, log, whole
<1> HIDE DEF draft, ids, n
<1>12. GoodDraft(draft, Nat)
  BY <1>4, <1>8, <1>9, <1>10, ReadWhole
<1> QED
  BY <1>11, <1>12 DEF RowsOfGood


(* Pi and Claude Code read their logs by the places of the records. *)
LEMMA PiReads ==
  ASSUME NEW log, IsList(log)
  PROVE  ReadTo("pi", log, NoDraft, Len(log),
                Drafted(LAMBDA d, i : PiNormalized(log, d, i), NoDraft, [i \in DOMAIN log |-> i]))
<1> DEFINE n == Len(log)
           places == [i \in DOMAIN log |-> i]
           Was(f) == f = [k \in 0..Len(places) |-> IF k = 0 THEN NoDraft ELSE PiNormalized(log, f[k - 1], places[k])]
           Is(f) == f = [k \in 0..n |-> IF k = 0 THEN NoDraft ELSE PiNormalized(log, f[k - 1], k)]
<1>1. Drafted(LAMBDA d, i : PiNormalized(log, d, i), NoDraft, [i \in DOMAIN log |-> i])
        = (CHOOSE f : Was(f))[Len(places)]
  BY DEF Drafted
<1>2. n \in Nat /\ DOMAIN log = 1..n
  BY DEF IsList
<1>3. Len(places) = n /\ \A k \in 1..n : places[k] = k
  BY <1>2
<1> HIDE DEF n, places
<1>4. \A f, k : Step("pi", log, f[k - 1], k) = PiNormalized(log, f[k - 1], k)
  BY ZenonT(60) DEF Step
<1>5. \A f : Was(f) <=> Is(f)
  <2> TAKE f
  <2>1. \A k \in 0..n : k = 0 \/ k \in 1..n
    BY <1>2
  <2>2. [k \in 0..n |-> IF k = 0 THEN NoDraft ELSE PiNormalized(log, f[k - 1], places[k])]
          = [k \in 0..n |-> IF k = 0 THEN NoDraft ELSE PiNormalized(log, f[k - 1], k)]
    BY <1>3, <2>1
  <2> QED
    BY <1>3, <2>2
<1>6. \A f : Is(f) <=> ReadsOn(f, "pi", log, NoDraft, n)
  BY <1>4 DEF ReadsOn
<1>7. \E f : ReadsOn(f, "pi", log, NoDraft, n)
  BY <1>2, ReadOn
<1> HIDE DEF Is, Was
<1>8. (CHOOSE f : Was(f)) = (CHOOSE f : Is(f))
  BY <1>5
<1> QED
  BY <1>1, <1>3, <1>6, <1>7, <1>8 DEF ReadTo, n

(* Pi. *)
LEMMA PiRows ==
  ASSUME NEW f, Uses(f)
  PROVE  RowsOfGood(PiConversation(PiLog(f)))
<1> DEFINE log == PiLog(f)
           n == Len(log)
           ids == [j \in 1..n |-> j]
           draft == Drafted(LAMBDA d, i : PiNormalized(log, d, i), NoDraft, [i \in DOMAIN log |-> i])
<1>1. log = [i \in DOMAIN f |-> log[i]]
  BY DEF PiLog, Records
<1>2. /\ IsList(log) /\ n = Len(f) /\ n \in Nat /\ DOMAIN log = 1..n /\ DOMAIN f = 1..n
      /\ \A k \in 1..n : f[k].use \in TokenRecords
  BY <1>1, RecordsAre
<1>3. ASSUME NEW k \in 1..n PROVE PiUsage(log[k].usage) \in TokenRecords
  <2> DEFINE use == f[k].use
             raw == log[k].usage
  <2>1. use \in TokenRecords
    BY <1>2
  <2>2. /\ raw.input = use[1] /\ raw.cacheRead = use[2] /\ raw.cacheWrite = use[3]
        /\ raw.output = OutputOf(use) /\ raw.reasoning = use[5] /\ raw.totalTokens = Total(use)
        /\ DOMAIN raw = {"input", "cacheRead", "cacheWrite", "output", "reasoning", "totalTokens"}
    BY <1>2 DEF PiLog, Records
  <2> HIDE DEF use, raw
  <2> DEFINE now == CountersOf(raw)
  <2>3. /\ now.input \in Nat /\ now.cacheRead \in Nat /\ now.cacheWrite \in Nat
        /\ now.output \in Nat /\ now.reasoning \in Nat /\ now.totalTokens \in Nat
    <3>1. \A field \in DOMAIN raw : raw[field] \in Nat
      BY <2>1, <2>2, UseIs
    <3> QED
      BY <2>2, <3>1, CountersAre
  <2> DEFINE reasoning == Least(now.output, now.reasoning)
             visible == now.output - reasoning
  <2>6. PiUsage(raw) = TokensApart(now.input, now.cacheRead, now.cacheWrite, visible, reasoning, now.totalTokens)
    BY DEF PiUsage
  <2> HIDE DEF now
  <2>4. reasoning \in Nat /\ visible \in Nat
    BY <2>3, Differences
  <2> HIDE DEF reasoning, visible
  <2>5. TokensApart(now.input, now.cacheRead, now.cacheWrite, visible, reasoning, now.totalTokens)
          \in TokenRecords
    BY <2>3, <2>4, TokensApartAre
  <2>7. PiUsage(raw) \in TokenRecords
    BY <2>5, <2>6
  <2> QED
    BY <2>7 DEF raw
<1>4. ASSUME NEW k \in 1..n PROVE KeepsGood("pi", log, ids, k) /\ ids[k] \in Nat
  <2>1. Own(ids, k) /\ ids[k] = k /\ k \in Nat \ {0}
    BY <1>2, OwnNumbers
  <2>2. \A d : Step("pi", log, d, k) = PiNormalized(log, d, k) /\ Beside("pi", d)
    BY Zenon DEF Step, Beside
  <2> HIDE DEF ids, log, n
  <2>3. ASSUME NEW d, GoodDraft(d, Upto(ids, k - 1))
        PROVE  GoodDraft(PiNormalized(log, d, k), Upto(ids, k))
    <3> DEFINE entry == log[k]
               keys == Upto(ids, k)
               nearest == TurnOf(d, PiAncestralTurn(log, entry))
               turn == IF nearest = 0 THEN d.active ELSE nearest
               counted == IF entry.type = "compaction" THEN [d EXCEPT !.compactions = @ + 1] ELSE d
               called == Called(d, turn, PiUsage(entry.usage))
               stopped == PiStopped(called, turn, entry.stop)
               used == ToolUsed(stopped, turn, entry.tool)
               billed == Called(counted, turn, PiUsage(entry.usage))
    <3>1. PiNormalized(log, d, k) = CASE entry.type = "user" -> Opened(d, k)
                                      [] entry.type = "assistant" -> used
                                      [] OTHER -> IF entry.billed THEN billed ELSE counted
      BY DEF PiNormalized
    <3>2. GoodDraft(Opened(d, k), keys) /\ GoodDraft(d, keys)
      BY <2>1, <2>3, OpensNext, GoodNext
    <3>3. PiUsage(entry.usage) \in TokenRecords
      BY <1>3
    <3> HIDE DEF keys, entry, nearest, turn
    <3>4. GoodDraft(counted, keys)
      <4>1. GoodDraft([d EXCEPT !.compactions = @ + 1], keys)
        BY <3>2, GoodCompacted
      <4> QED
        BY <3>2, <4>1
    <3> HIDE DEF counted
    <3>5. GoodDraft(billed, keys) /\ GoodDraft(called, keys)
      BY <3>2, <3>3, <3>4, GoodCalled
    <3> HIDE DEF called, billed
    <3>6. GoodDraft(stopped, keys)
      BY <3>5, GoodMarked DEF PiStopped, Statuses
    <3> HIDE DEF stopped
    <3>7. GoodDraft(used, keys)
      BY <3>6, GoodToolUsed
    <3> HIDE DEF used
    <3>8. PiNormalized(log, d, k) \in {Opened(d, k), used, billed, counted}
      BY <3>1, Zenon
    <3> QED
      BY <3>2, <3>4, <3>5, <3>7, <3>8 DEF keys
  <2> QED
    BY <2>1, <2>2, <2>3 DEF KeepsGood
<1>5. ReadTo("pi", log, NoDraft, n, draft)
  <2> HIDE DEF log
  <2> QED
    BY <1>2, PiReads
<1>6. GoodDraft(NoDraft, {}) /\ Beside("pi", NoDraft)
  BY GoodAtFirst, Zenon DEF Beside
<1>7. PiConversation(PiLog(f)) = Rows(draft)
  BY DEF PiConversation
<1> HIDE DEF draft, ids, n, log
<1>8. GoodDraft(draft, Nat)
  BY <1>2, <1>4, <1>5, <1>6, ReadWhole
<1> QED
  BY <1>7, <1>8 DEF RowsOfGood


(* Claude Code reads its log, and then the responses it has found. *)
LEMMA ClaudeReads ==
  ASSUME NEW log, IsList(log)
  PROVE  ReadTo("claude", log, ClaudeEmpty, Len(log),
                Drafted(LAMBDA d, i : ClaudeRead(d, log[i], i), ClaudeEmpty, [i \in DOMAIN log |-> i]))
<1> DEFINE n == Len(log)
           places == [i \in DOMAIN log |-> i]
           Was(f) == f = [k \in 0..Len(places) |-> IF k = 0 THEN ClaudeEmpty ELSE ClaudeRead(f[k - 1], log[places[k]], places[k])]
           Is(f) == f = [k \in 0..n |-> IF k = 0 THEN ClaudeEmpty ELSE ClaudeRead(f[k - 1], log[k], k)]
<1>1. Drafted(LAMBDA d, i : ClaudeRead(d, log[i], i), ClaudeEmpty, [i \in DOMAIN log |-> i])
        = (CHOOSE f : Was(f))[Len(places)]
  BY DEF Drafted
<1>2. n \in Nat /\ DOMAIN log = 1..n
  BY DEF IsList
<1>3. Len(places) = n /\ \A k \in 1..n : places[k] = k
  BY <1>2
<1>4. \A f : Is(f) <=> f = [k \in 0..n |-> IF k = 0 THEN ClaudeEmpty ELSE Step("claude", log, f[k - 1], k)]
  <2>1. \A f, k : Step("claude", log, f[k - 1], k) = ClaudeRead(f[k - 1], log[k], k)
    BY ZenonT(60) DEF Step
  <2> HIDE DEF n
  <2> QED
    BY <2>1
<1>5. \A f : Was(f) <=> Is(f)
  <2> HIDE DEF n, places
  <2> TAKE f
  <2>1. \A k \in 0..n : k = 0 \/ k \in 1..n
    BY <1>2
  <2>2. [k \in 0..n |-> IF k = 0 THEN ClaudeEmpty ELSE ClaudeRead(f[k - 1], log[places[k]], places[k])]
          = [k \in 0..n |-> IF k = 0 THEN ClaudeEmpty ELSE ClaudeRead(f[k - 1], log[k], k)]
    BY <1>3, <2>1
  <2> QED
    BY <1>3, <2>2
<1> HIDE DEF n, places
<1>6. \A f : Is(f) <=> ReadsOn(f, "claude", log, ClaudeEmpty, n)
  BY <1>4 DEF ReadsOn
<1>7. \E f : ReadsOn(f, "claude", log, ClaudeEmpty, n)
  BY <1>2, ReadOn
<1> HIDE DEF Is, Was
<1>8. (CHOOSE f : Was(f)) = (CHOOSE f : Is(f))
  BY <1>5
<1> QED
  BY <1>1, <1>3, <1>6, <1>7, <1>8 DEF ReadTo, n

CalledFrom(responses, start, places) == Drafted(LAMBDA d, i : ClaudeCalled(responses, d, i), start, places)

LEMMA ClaudeCallsReads ==
  ASSUME NEW responses, NEW start, NEW log, IsList(log)
  PROVE  ReadTo("claude calls", responses, start, Len(log),
                CalledFrom(responses, start, [i \in DOMAIN log |-> i]))
<1> DEFINE n == Len(log)
           places == [i \in DOMAIN log |-> i]
           Was(f) == f = [k \in 0..Len(places) |-> IF k = 0 THEN start ELSE ClaudeCalled(responses, f[k - 1], places[k])]
           Is(f) == f = [k \in 0..n |-> IF k = 0 THEN start ELSE ClaudeCalled(responses, f[k - 1], k)]
<1>1. CalledFrom(responses, start, [i \in DOMAIN log |-> i]) = (CHOOSE f : Was(f))[Len(places)]
  BY DEF CalledFrom, Drafted
<1>2. n \in Nat /\ DOMAIN log = 1..n
  BY DEF IsList
<1>3. Len(places) = n /\ \A k \in 1..n : places[k] = k
  BY <1>2
<1>4. \A f : Is(f) <=> f = [k \in 0..n |-> IF k = 0 THEN start ELSE Step("claude calls", responses, f[k - 1], k)]
  <2>1. \A f, k : Step("claude calls", responses, f[k - 1], k) = ClaudeCalled(responses, f[k - 1], k)
    BY ZenonT(60) DEF Step
  <2> HIDE DEF n
  <2> QED
    BY <2>1
<1>5. \A f : Was(f) <=> Is(f)
  <2> HIDE DEF n, places
  <2> TAKE f
  <2>1. \A k \in 0..n : k = 0 \/ k \in 1..n
    BY <1>2
  <2>2. [k \in 0..n |-> IF k = 0 THEN start ELSE ClaudeCalled(responses, f[k - 1], places[k])]
          = [k \in 0..n |-> IF k = 0 THEN start ELSE ClaudeCalled(responses, f[k - 1], k)]
    BY <1>3, <2>1
  <2> QED
    BY <1>3, <2>2
<1> HIDE DEF n, places
<1>6. \A f : Is(f) <=> ReadsOn(f, "claude calls", responses, start, n)
  BY <1>4 DEF ReadsOn
<1>7. \E f : ReadsOn(f, "claude calls", responses, start, n)
  BY <1>2, ReadOn
<1> HIDE DEF Is, Was
<1>8. (CHOOSE f : Was(f)) = (CHOOSE f : Is(f))
  BY <1>5
<1> QED
  BY <1>1, <1>3, <1>6, <1>7, <1>8 DEF ReadTo, n

(* A set of numbers that are at most n has a greatest. *)
LEMMA MaxBelow ==
  ASSUME NEW n \in Nat, NEW S, S \subseteq 1..n, S # {}
  PROVE  Max(S) \in S /\ \A y \in S : y <= Max(S)
<1> DEFINE T == {n - y : y \in S}
<1>1. T \subseteq Nat /\ T # {}
  OBVIOUS
<1>2. PICK t \in T : \A y \in T : t <= y
  <2> HIDE DEF T
  <2> QED
    BY <1>1, LeastNumber
<1>3. PICK x \in S : t = n - x
  OBVIOUS
<1>4. ASSUME NEW y \in S PROVE y <= x
  <2>1. n - y \in T
    OBVIOUS
  <2>2. t <= n - y
    BY <1>2, <2>1
  <2> QED
    BY <1>3, <2>2
<1>5. \E z \in S : \A y \in S : y <= z
  BY <1>4
<1> QED
  BY <1>5 DEF Max

(* An answer written again is one there was. *)
Repeats(f) == \A i \in 1..Len(f) : f[i].kind = "again" =>
                \E j \in 1..i - 1 : f[j].turn = f[i].turn /\ f[j].kind \in Whole

LEMMA RepeatedIs ==
  ASSUME NEW f, IsList(f), Repeats(f), NEW i \in 1..Len(f), f[i].kind = "again"
  PROVE  Repeated(f, i) \in 1..Len(f)
<1> DEFINE those == {j \in 1..i - 1 : f[j].turn = f[i].turn /\ f[j].kind \in Whole}
<1>1. Len(f) \in Nat /\ i \in Nat /\ i <= Len(f)
  BY DEF IsList
<1>2. those # {} /\ those \subseteq 1..i - 1
  BY DEF Repeats
<1>3. Repeated(f, i) = Max(those)
  BY Zenon DEF Repeated
<1> HIDE DEF those
<1>4. Max(those) \in those
  <2> DEFINE n == i - 1
  <2>1. n \in Nat /\ those \subseteq 1..n
    BY <1>1, <1>2
  <2> HIDE DEF n
  <2> QED
    BY <1>2, <2>1, MaxBelow
<1>5. Max(those) \in 1..i - 1
  BY <1>2, <1>4
<1>6. \A m \in 1..i - 1 : m \in 1..Len(f)
  BY <1>1
<1> QED
  BY <1>3, <1>5, <1>6

LEMMA ClaudeTokens ==
  ASSUME NEW raw, \A field \in DOMAIN raw : raw[field] \in Nat,
         DOMAIN raw = {"input_tokens", "cache_read", "cache_creation", "output_tokens", "thinking_tokens"}
  PROVE  ClaudeUsage(raw) \in TokenRecords
<1> DEFINE use == CountersOf(raw)
           reasoning == Least(use.output_tokens, use.thinking_tokens)
           visible == use.output_tokens - reasoning
<1>1. /\ use.input_tokens \in Nat /\ use.cache_read \in Nat /\ use.cache_creation \in Nat
      /\ use.output_tokens \in Nat /\ use.thinking_tokens \in Nat
  BY CountersAre
<1>2. ClaudeUsage(raw) = TokensApart(use.input_tokens, use.cache_read, use.cache_creation, visible, reasoning, 0)
  BY DEF ClaudeUsage
<1> HIDE DEF use
<1>3. reasoning \in Nat /\ visible \in Nat
  BY <1>1, Differences
<1> HIDE DEF reasoning, visible
<1>4. TokensApart(use.input_tokens, use.cache_read, use.cache_creation, visible, reasoning, 0) \in TokenRecords
  BY <1>1, <1>3, TokensApartAre
<1> QED
  BY <1>2, <1>4

(* The usages an event of Claude Code tells. *)
TellsUse(event) ==
  /\ ClaudeUsage(event.usage) \in TokenRecords
  /\ IsList(event.advisors)
  /\ \A u \in 1..Len(event.advisors) : ClaudeUsage(event.advisors[u]) \in TokenRecords

LEMMA ClaudeTells ==
  ASSUME NEW f, Uses(f), Repeats(f), NEW i \in 1..Len(f)
  PROVE  TellsUse(ClaudeLog(f)[i]) /\ ClaudeLog(f)[i].uuid = i
<1> DEFINE event == ClaudeLog(f)[i]
           told == IF f[i].kind = "again" THEN Repeated(f, i) ELSE i
           fact == f[told]
           usage == [input_tokens |-> fact.use[1], cache_read |-> fact.use[2],
                     cache_creation |-> fact.use[3], output_tokens |-> OutputOf(fact.use),
                     thinking_tokens |-> fact.use[5]]
<1>1. IsList(f) /\ DOMAIN f = 1..Len(f) /\ \A k \in 1..Len(f) : f[k].use \in TokenRecords
  BY RecordsAre
<1>2. told \in 1..Len(f)
  BY <1>1, RepeatedIs
<1>3. /\ event.uuid = i /\ event.usage = usage
      /\ event.advisors = IF fact.kind = "advised" THEN <<usage>> ELSE <<>>
  BY <1>1 DEF ClaudeLog, Records
<1> HIDE DEF event, told
<1>4. ClaudeUsage(usage) \in TokenRecords
  <2> DEFINE use == fact.use
  <2>1. use \in TokenRecords
    BY <1>1, <1>2
  <2>2. /\ usage.input_tokens = use[1] /\ usage.cache_read = use[2] /\ usage.cache_creation = use[3]
        /\ usage.output_tokens = OutputOf(use) /\ usage.thinking_tokens = use[5]
        /\ DOMAIN usage =
             {"input_tokens", "cache_read", "cache_creation", "output_tokens", "thinking_tokens"}
    OBVIOUS
  <2> HIDE DEF usage, use
  <2>3. \A field \in DOMAIN usage : usage[field] \in Nat
    BY <2>1, <2>2, UseIs
  <2> QED
    BY <2>2, <2>3, ClaudeTokens
<1> HIDE DEF usage
<1>5. TellsUse(event)
  <2>1. CASE event.advisors = <<usage>>
    BY <1>3, <1>4, <2>1, WrittenOut DEF TellsUse
  <2>2. CASE event.advisors = <<>>
    BY <1>3, <1>4, <2>2, WrittenOut DEF TellsUse
  <2> QED
    BY <1>3, <2>1, <2>2
<1> QED
  BY <1>3, <1>5 DEF event

LEMMA ClaudeKeeps ==
  ASSUME NEW responses, GoodResponses(responses), NEW new, Used(new.usages)
  PROVE  GoodResponses(ClaudeResponded(responses, new))
<1> DEFINE at == {k \in DOMAIN responses : responses[k].key = new.key}
           more == Append(responses, new)
           other == [responses EXCEPT ![Min(at)] = new]
<1>1. ClaudeResponded(responses, new) \in {more, other, responses}
  BY Zenon DEF ClaudeResponded
<1>2. IsList(responses) /\ DOMAIN responses = 1..Len(responses) /\ Len(responses) \in Nat
      /\ \A k \in 1..Len(responses) : Used(responses[k].usages)
  BY DEF GoodResponses, IsList
<1>3. GoodResponses(more)
  <2>1. IsList(more) /\ Len(more) = Len(responses) + 1 /\ more[Len(responses) + 1] = new
        /\ \A k \in 1..Len(responses) : more[k] = responses[k]
    BY <1>2, SameStarts
  <2> HIDE DEF more
  <2>2. \A k \in 1..Len(more) : k \in 1..Len(responses) \/ k = Len(responses) + 1
    BY <1>2, <2>1
  <2> QED
    BY <1>2, <2>1, <2>2 DEF GoodResponses
<1>4. GoodResponses(other)
  <2>1. DOMAIN other = DOMAIN responses /\ other = [k \in DOMAIN responses |-> other[k]]
        /\ \A k \in DOMAIN responses : other[k] = new \/ other[k] = responses[k]
    OBVIOUS
  <2> HIDE DEF other
  <2>2. IsList(other) /\ Len(other) = Len(responses)
    BY <1>2, <2>1, ForEachItem
  <2> QED
    BY <1>2, <2>1, <2>2 DEF GoodResponses
<1> HIDE DEF more, other
<1> QED
  BY <1>1, <1>3, <1>4

LEMMA ClaudeAnswers ==
  ASSUME NEW d, NEW keys, GoodDraft(d, keys), Beside("claude", d), NEW event, TellsUse(event), NEW i
  PROVE  GoodDraft(ClaudeAnswered(d, event, i), keys) /\ Beside("claude", ClaudeAnswered(d, event, i))
<1> DEFINE advised == [u \in DOMAIN event.advisors |-> ClaudeUsage(event.advisors[u])]
           first == <<ClaudeUsage(event.usage)>>
           usages == first \o advised
           rank == <<IF event.stopped THEN 1 ELSE 0,
                     FoldLeft(LAMBDA sum, use : sum + ClaudeWeight(use), 0, usages), i>>
           response == [key |-> event.requestId, rank |-> rank, index |-> i,
                        turn |-> d.active, usages |-> usages]
           status == IF event.isApiErrorMessage THEN "aborted" ELSE "completed"
           marked == Marked(d, d.active, status)
           fresh == event.tool /\ event.requestId \notin d.seen
           used == ToolUsed(marked, d.active, fresh)
           responses == ClaudeResponded(used.responses, response)
           one == [used EXCEPT !["responses"] = responses]
           seen == IF fresh THEN one.seen \cup {event.requestId} ELSE one.seen
           two == [one EXCEPT !["seen"] = seen]
<1>1. ClaudeAnswered(d, event, i) = two
  BY DEF ClaudeAnswered, ClaudeAdvisorUsages, Each
<1>2. Used(usages)
  <2>1. Used(first)
    BY WrittenOut DEF Used, TellsUse
  <2>2. IsList(advised) /\ Len(advised) = Len(event.advisors) /\ DOMAIN advised = 1..Len(advised)
    <3>1. advised = [u \in DOMAIN event.advisors |-> advised[u]] /\ IsList(event.advisors)
      BY DEF TellsUse
    <3> HIDE DEF advised
    <3> QED
      BY <3>1, ForEachItem
  <2>3. Used(advised)
    <3>1. DOMAIN event.advisors = 1..Len(event.advisors)
      BY DEF TellsUse, IsList
    <3>2. \A u \in 1..Len(event.advisors) : advised[u] = ClaudeUsage(event.advisors[u])
      BY <3>1
    <3> HIDE DEF advised
    <3> QED
      BY <2>2, <3>2 DEF Used, TellsUse
  <2> HIDE DEF first, advised
  <2>4. IsList(usages) /\ Len(usages) = Len(first) + Len(advised) /\ Len(first) \in Nat /\ Len(advised) \in Nat
    BY <2>1, <2>3, Joined DEF Used, IsList
  <2>5. \A u \in 1..Len(first) + Len(advised) :
          usages[u] = IF u <= Len(first) THEN first[u] ELSE advised[u - Len(first)]
    BY <2>1, <2>3 DEF Used, IsList
  <2> HIDE DEF usages
  <2>6. ASSUME NEW u \in 1..Len(usages) PROVE usages[u] \in TokenRecords
    <3>1. u <= Len(first) => u \in 1..Len(first)
      BY <2>4
    <3>2. ~(u <= Len(first)) => u - Len(first) \in 1..Len(advised)
      BY <2>4
    <3> QED
      BY <2>1, <2>3, <2>4, <2>5, <3>1, <3>2 DEF Used
  <2> QED
    BY <2>4, <2>6 DEF Used
<1> HIDE DEF usages, rank
<1>3. Used(response.usages)
  BY <1>2
<1>4. \A x : Beside("claude", x) <=> "responses" \in DOMAIN x /\ GoodResponses(x.responses)
  BY Zenon DEF Beside
<1>5. "responses" \in DOMAIN d /\ GoodResponses(d.responses)
  BY <1>4
<1>6. "responses" \notin {"turns", "calls"} /\ "seen" \notin {"turns", "calls"}
  OBVIOUS
<1>7. GoodDraft(marked, keys) /\ Keeps(d, marked, "responses")
  BY GoodMarked, KeptBeside DEF Statuses
<1> HIDE DEF marked, fresh
<1>8. GoodDraft(used, keys) /\ Keeps(marked, used, "responses")
  BY <1>7, GoodToolUsed, KeptBeside
<1> HIDE DEF used, response
<1>9. "responses" \in DOMAIN used /\ GoodResponses(used.responses)
  BY <1>5, <1>7, <1>8 DEF Keeps
<1>10. GoodResponses(responses)
  BY <1>3, <1>9, ClaudeKeeps
<1> HIDE DEF responses
<1>11. GoodDraft(one, keys) /\ "responses" \in DOMAIN one /\ one.responses = responses
  <2>1. GoodDraft(one, keys)
    BY <1>6, <1>8, GoodBeside
  <2> QED
    BY <1>9, <2>1
<1> HIDE DEF one, seen
<1>12. GoodDraft(two, keys) /\ "responses" \in DOMAIN two /\ two.responses = responses
  <2>1. GoodDraft(two, keys)
    BY <1>6, <1>11, GoodBeside
  <2> QED
    BY <1>11, <2>1
<1> HIDE DEF two
<1> QED
  BY <1>1, <1>4, <1>10, <1>12

(* Claude Code. *)
LEMMA ClaudeRows ==
  ASSUME NEW f, Uses(f), Repeats(f)
  PROVE  RowsOfGood(ClaudeConversation(ClaudeLog(f)))
<1> DEFINE log == ClaudeLog(f)
           n == Len(log)
           ids == [j \in 1..n |-> j]
           draft == Drafted(LAMBDA d, i : ClaudeRead(d, log[i], i), ClaudeEmpty, [i \in DOMAIN log |-> i])
           last == Drafted(LAMBDA d, i : ClaudeCalled(draft.responses, d, i), draft, [i \in DOMAIN log |-> i])
<1>1. log = [i \in DOMAIN f |-> log[i]]
  BY DEF ClaudeLog, Records
<1>2. IsList(log) /\ n = Len(f) /\ n \in Nat
  BY <1>1, RecordsAre
<1>3. ASSUME NEW k \in 1..n PROVE TellsUse(log[k]) /\ log[k].uuid = k
  BY <1>2, ClaudeTells
<1>4. \A x : Beside("claude", x) <=> "responses" \in DOMAIN x /\ GoodResponses(x.responses)
  BY Zenon DEF Beside
<1>5. ASSUME NEW k \in 1..n PROVE KeepsGood("claude", log, ids, k) /\ ids[k] \in Nat
  <2>1. Own(ids, k) /\ ids[k] = k /\ k \in Nat \ {0}
    BY <1>2, OwnNumbers
  <2>2. \A d : Step("claude", log, d, k) = ClaudeRead(d, log[k], k)
    BY ZenonT(60) DEF Step
  <2> HIDE DEF ids, log, n
  <2>3. ASSUME NEW d, GoodDraft(d, Upto(ids, k - 1)), Beside("claude", d)
        PROVE  /\ GoodDraft(ClaudeRead(d, log[k], k), Upto(ids, k))
               /\ Beside("claude", ClaudeRead(d, log[k], k))
    <3> DEFINE event == log[k]
               keys == Upto(ids, k)
               opened == Opened(d, event.uuid)
               counted == [d EXCEPT !.compactions = @ + 1]
               answered == ClaudeAnswered(d, event, k)
    <3>1. GoodDraft(d, keys) /\ GoodDraft(opened, keys)
      BY <1>3, <2>1, <2>3, OpensNext, GoodNext
    <3>2. Beside("claude", opened)
      <4>1. Keeps(d, opened, "responses")
        BY KeptBeside
      <4> HIDE DEF opened
      <4> QED
        BY <1>4, <2>3, <4>1 DEF Keeps
    <3>3. GoodDraft(counted, keys)
      BY <3>1, GoodCompacted
    <3>4. Beside("claude", counted)
      <4>1. counted.responses = d.responses /\ DOMAIN counted = DOMAIN d
        BY <1>4, <2>3
      <4> HIDE DEF counted
      <4> QED
        BY <1>4, <2>3, <4>1
    <3>5. GoodDraft(answered, keys) /\ Beside("claude", answered)
      BY <1>3, <2>3, <3>1, ClaudeAnswers
    <3>6. ClaudeRead(d, event, k) \in {opened, counted, answered, d}
      BY Zenon DEF ClaudeRead, ClaudeStartsTurn
    <3> HIDE DEF opened, counted, answered
    <3> QED
      BY <2>3, <3>1, <3>2, <3>3, <3>4, <3>5, <3>6 DEF keys
  <2> QED
    BY <2>1, <2>2, <2>3 DEF KeepsGood
<1>6. ReadTo("claude", log, ClaudeEmpty, n, draft)
  <2> HIDE DEF log
  <2> QED
    BY <1>2, ClaudeReads
<1>7. GoodDraft(ClaudeEmpty, {}) /\ Beside("claude", ClaudeEmpty)
  <2> DEFINE beside == [responses |-> <<>>, seen |-> {}]
  <2>1. "responses" \in DOMAIN beside /\ beside.responses = <<>>
    OBVIOUS
  <2>2. "responses" \notin DOMAIN NoDraft
    BY DEF NoDraft
  <2>3. ClaudeEmpty = DraftWith(beside)
    BY DEF ClaudeEmpty
  <2>4. GoodResponses(<<>>)
    BY WrittenOut DEF GoodResponses
  <2> HIDE DEF beside
  <2> QED
    BY <1>4, <2>1, <2>2, <2>3, <2>4, GoodWith
<1>8. ClaudeConversation(log) = Rows(last)
  BY DEF ClaudeConversation
<1>9. ReadTo("claude calls", draft.responses, draft, n, last)
  <2> DEFINE responses == draft.responses
             start == draft
             places == [i \in DOMAIN log |-> i]
  <2>1. last = CalledFrom(responses, start, places)
    BY DEF CalledFrom
  <2> HIDE DEF log, draft, responses, start, last
  <2>2. ReadTo("claude calls", responses, start, n, CalledFrom(responses, start, places))
    BY <1>2, ClaudeCallsReads
  <2> QED
    BY <2>1, <2>2 DEF responses, start
<1> HIDE DEF draft, ids, n, log, last
<1>10. GoodDraft(draft, Nat) /\ GoodResponses(draft.responses)
  BY <1>2, <1>4, <1>5, <1>6, <1>7, ReadWhole
<1>11. ASSUME NEW k \in 1..n, NEW d, GoodDraft(d, Nat)
       PROVE  GoodDraft(Step("claude calls", draft.responses, d, k), Nat)
  <2> DEFINE responses == draft.responses
             kept == {j \in DOMAIN responses : responses[j].index = k}
             response == responses[Min(kept)]
             more == [u \in DOMAIN response.usages |-> [turn |-> response.turn, tokens |-> response.usages[u]]]
             calls == d.calls \o more
  <2>1. Step("claude calls", responses, d, k) = ClaudeCalled(responses, d, k)
    BY ZenonT(60) DEF Step
  <2>2. ClaudeCalled(responses, d, k) = IF kept = {} THEN d ELSE [d EXCEPT !.calls = calls]
    BY DEF ClaudeCalled, Each
  <2>3. CASE kept = {}
    BY <1>11, <2>1, <2>2, <2>3
  <2>4. CASE kept # {}
    <3>1. DOMAIN responses = 1..Len(responses) /\ \A j \in 1..Len(responses) : Used(responses[j].usages)
      BY <1>10 DEF GoodResponses, IsList
    <3>2. Min(kept) \in kept
      <4>1. kept \subseteq Nat
        BY <3>1
      <4> HIDE DEF kept
      <4> QED
        BY <2>4, <4>1, MinIs
    <3>3. Used(response.usages)
      BY <3>1, <3>2
    <3> DEFINE usages == response.usages
    <3>4. more = [u \in DOMAIN usages |-> more[u]] /\ \A u \in DOMAIN usages : more[u].tokens = usages[u]
      OBVIOUS
    <3>5. Used(usages)
      BY <3>3
    <3> HIDE DEF usages, more, response, kept
    <3>8. IsList(usages) /\ DOMAIN usages = 1..Len(usages) /\ \A u \in 1..Len(usages) : usages[u] \in TokenRecords
      BY <3>5 DEF Used, IsList
    <3>6. AreCalls(more)
      BY <3>4, <3>8, ForEachItem DEF AreCalls
    <3>7. AreCalls(calls)
      BY <1>11, <3>6, MoreCalls DEF GoodDraft
    <3> HIDE DEF calls
    <3>9. GoodDraft([d EXCEPT !.calls = calls], Nat)
      BY <1>11, <3>7, GoodOfCalls
    <3>10. ClaudeCalled(responses, d, k) = [d EXCEPT !.calls = calls]
      BY <2>2, <2>4
    <3> QED
      BY <2>1, <3>9, <3>10 DEF responses
  <2> QED
    BY <2>3, <2>4
<1>12. GoodDraft(last, Nat)
  BY <1>2, <1>9, <1>10, <1>11, ReadStill
<1> QED
  BY <1>8, <1>12 DEF RowsOfGood, log


(* A list that is built along a chain of numbers, each below the one before. *)
Chains(g, n, parent, items) ==
  g = [u \in 0..n |-> IF u = 0 THEN <<>> ELSE Append(g[parent[u]], items[u])]

LEMMA Chaining ==
  ASSUME NEW n \in Nat, NEW parent, NEW items, \A u \in 1..n : parent[u] \in 0..u - 1
  PROVE  \E g : Chains(g, n, parent, items)
<1> DEFINE S == {m \in 0..n : \E g : Chains(g, m, parent, items)}
<1>1. 0 \in S
  <2> DEFINE g == [u \in 0..0 |-> <<>>]
  <2>1. g = [u \in 0..0 |-> IF u = 0 THEN <<>> ELSE Append(g[parent[u]], items[u])]
    OBVIOUS
  <2> HIDE DEF g
  <2>2. Chains(g, 0, parent, items)
    BY <2>1 DEF Chains
  <2> QED
    BY <2>2
<1>2. ASSUME NEW m \in 0..n - 1, m \in S PROVE m + 1 \in S
  <2>1. PICK f : Chains(f, m, parent, items)
    BY <1>2
  <2>2. ASSUME NEW u \in 0..m
        PROVE  f[u] = IF u = 0 THEN <<>> ELSE Append(f[parent[u]], items[u])
    BY <2>1 DEF Chains
  <2> DEFINE g == [u \in 0..m + 1 |-> IF u = m + 1 THEN Append(f[parent[m + 1]], items[m + 1]) ELSE f[u]]
  <2>3. \A u \in 1..m + 1 : parent[u] \in 0..u - 1
    OBVIOUS
  <2>4. ASSUME NEW u \in 0..m + 1
        PROVE  g[u] = IF u = 0 THEN <<>> ELSE Append(g[parent[u]], items[u])
    <3>1. CASE u = m + 1
      <4> DEFINE p == parent[m + 1]
      <4>1. p \in 0..m
        BY <2>3
      <4> HIDE DEF p
      <4>2. g[u] = Append(f[p], items[u]) /\ g[p] = f[p] /\ u # 0
        BY <3>1, <4>1 DEF p
      <4> HIDE DEF g
      <4> QED
        BY <3>1, <4>2 DEF p
    <3>2. CASE u \in 1..m
      <4> DEFINE p == parent[u]
      <4>1. p \in 0..m
        BY <2>3, <3>2
      <4> HIDE DEF p
      <4>2. g[u] = f[u] /\ g[p] = f[p] /\ u # 0 /\ u \in 0..m
        BY <3>2, <4>1
      <4> HIDE DEF g
      <4> QED
        BY <2>2, <4>2 DEF p
    <3>3. CASE u = 0
      <4>1. g[u] = f[0] /\ f[0] = <<>>
        BY <2>2, <3>3
      <4> HIDE DEF g
      <4> QED
        BY <3>3, <4>1
    <3> QED
      BY <3>1, <3>2, <3>3
  <2>5. g = [u \in 0..m + 1 |-> g[u]]
    OBVIOUS
  <2> HIDE DEF g
  <2>6. Chains(g, m + 1, parent, items)
    BY <2>4, <2>5 DEF Chains
  <2>7. m + 1 \in 0..n
    OBVIOUS
  <2> QED
    BY <2>6, <2>7
<1> HIDE DEF S
<1>3. \A m \in 0..n : m \in S
  BY <1>1, <1>2, Induction
<1> QED
  BY <1>3 DEF S

(* Where there is an item to pick, one is picked. *)
LEMMA PickedSome ==
  ASSUME NEW items, IsList(items), NEW at, NEW place \in 1..Len(items), place \in at
  PROVE  Len(Those(items, at)) \in Nat \ {0}
<1> DEFINE n == Len(items)
<1>1. n \in Nat
  BY DEF IsList
<1>2. PICK f : Picks(f, items, at)
  BY Picking
<1>3. /\ Those(items, at) = f[n] /\ f[0] = <<>>
      /\ \A k \in 1..n : f[k] = IF k \in at THEN Append(f[k - 1], items[k]) ELSE f[k - 1]
  BY <1>2 DEF Picks
<1> HIDE DEF n
<1> DEFINE S == {k \in 0..n : IsList(f[k]) /\ (place <= k => Len(f[k]) # 0)}
<1>4. 0 \in S
  BY <1>1, <1>3, WrittenOut
<1>5. ASSUME NEW k \in 0..n - 1, k \in S PROVE k + 1 \in S
  <2>1. k + 1 \in 1..n /\ k + 1 \in 0..n /\ (k + 1) - 1 = k
    BY <1>1
  <2>2. IsList(f[k]) /\ (place <= k => Len(f[k]) # 0) /\ Len(f[k]) \in Nat
    BY <1>5 DEF IsList
  <2>3. CASE k + 1 \in at
    <3> DEFINE more == Append(f[k], items[k + 1])
    <3>1. f[k + 1] = more
      BY <1>3, <2>1, <2>3
    <3>2. IsList(more) /\ Len(more) = Len(f[k]) + 1
      BY <2>2, SameStarts
    <3> HIDE DEF more
    <3> QED
      BY <2>1, <2>2, <3>1, <3>2
  <2>4. CASE k + 1 \notin at
    <3>1. f[k + 1] = f[k]
      BY <1>3, <2>1, <2>4
    <3>2. place <= k + 1 => place <= k
      BY <2>4
    <3> QED
      BY <2>1, <2>2, <3>1, <3>2
  <2> QED
    BY <2>3, <2>4
<1> HIDE DEF S
<1>6. \A k \in 0..n : k \in S
  BY <1>1, <1>4, <1>5, Induction
<1>7. n \in 0..n /\ place <= n
  BY <1>1 DEF n
<1>8. n \in S
  BY <1>6, <1>7
<1>9. IsList(f[n]) /\ Len(f[n]) # 0
  BY <1>7, <1>8 DEF S
<1> QED
  BY <1>3, <1>9 DEF IsList

(* What a fact continues came before it, and is not the end of an answer. *)
LEMMA ParentIs ==
  ASSUME NEW f, IsList(f), Sound(f), NEW i \in 1..Len(f)
  PROVE  /\ Parent(f, i) \in 0..i - 1
         /\ Parent(f, i) # 0 => f[Parent(f, i)].kind # "finish"
<1> DEFINE branch == {j \in 1..i - 1 : Within(f, j) = f[i].turn /\ f[j].kind # "note"}
           m == Max(branch)
<1>1. Len(f) \in Nat /\ i \in Nat
  BY DEF IsList
<1>2. Parent(f, i) = IF branch = {} THEN 0 ELSE Origin(f, m)
  BY Zenon DEF Parent
<1>3. CASE branch = {}
  BY <1>1, <1>2, <1>3
<1>4. CASE branch # {}
  <2> DEFINE below == i - 1
  <2>1. branch \subseteq 1..below /\ below \in Nat
    BY <1>1
  <2> HIDE DEF branch, below
  <2>2. m \in 1..below
    BY <1>4, <2>1, MaxBelow
  <2> HIDE DEF m
  <2>3. m \in 1..i - 1 /\ m \in 1..Len(f)
    BY <1>1, <2>2 DEF below
  <2>4. Origin(f, m) \in 1..m /\ f[Origin(f, m)].kind # "finish"
    <3>1. CASE f[m].kind = "finish"
      <4>1. Origin(f, m) \in 1..m - 1 /\ Answers(f, Origin(f, m), m)
        BY <2>3, <3>1, OriginIs
      <4>2. f[Origin(f, m)].kind = "begin"
        BY <4>1 DEF Answers
      <4> QED
        BY <2>3, <4>1, <4>2
    <3>2. CASE f[m].kind # "finish"
      <4>1. Origin(f, m) = m
        BY <2>3, <3>2, OriginIs
      <4> QED
        BY <2>3, <3>2, <4>1
    <3> QED
      BY <3>1, <3>2
  <2> QED
    BY <1>1, <1>2, <1>4, <2>3, <2>4
<1> QED
  BY <1>3, <1>4


(* A branch of Qwen Code: its records have uuids of their own, up to a number. *)
IsBranch(list, m) ==
  /\ IsList(list)
  /\ \A k \in 1..Len(list) : /\ list[k].uuid \in 1..m
                             /\ QwenUsage(list[k].usage) \in TokenRecords
                             /\ \A j \in 1..k - 1 : list[j].uuid # list[k].uuid

LEMMA BranchGrows ==
  ASSUME NEW m \in Nat, NEW p \in 0..m - 1, NEW list, IsBranch(list, p),
         NEW item, item.uuid = m, QwenUsage(item.usage) \in TokenRecords
  PROVE  IsBranch(Append(list, item), m)
<1> DEFINE more == Append(list, item)
           n == Len(list)
<1>1. IsList(list) /\ n \in Nat
  BY DEF IsBranch, IsList
<1>2. /\ IsList(more) /\ Len(more) = n + 1 /\ more[n + 1] = item
      /\ \A k \in 1..n : more[k] = list[k]
  BY <1>1, SameStarts
<1> HIDE DEF more
<1>3. \A k \in 1..n : list[k].uuid \in 1..p /\ QwenUsage(list[k].usage) \in TokenRecords
                      /\ \A j \in 1..k - 1 : list[j].uuid # list[k].uuid
  BY DEF IsBranch
<1> HIDE DEF n
<1>4. ASSUME NEW k \in 1..n + 1
      PROVE  /\ more[k].uuid \in 1..m /\ QwenUsage(more[k].usage) \in TokenRecords
             /\ \A j \in 1..k - 1 : more[j].uuid # more[k].uuid
  <2>1. CASE k = n + 1
    <3>1. more[k] = item /\ m \in 1..m
      BY <1>1, <1>2, <2>1
    <3>2. \A j \in 1..k - 1 : j \in 1..n /\ more[j].uuid = list[j].uuid
      BY <1>1, <1>2, <2>1
    <3>3. \A j \in 1..n : list[j].uuid # m
      BY <1>3
    <3> QED
      BY <3>1, <3>2, <3>3
  <2>2. CASE k \in 1..n
    <3>1. more[k] = list[k] /\ \A j \in 1..k - 1 : j \in 1..n /\ more[j] = list[j]
      BY <1>1, <1>2, <2>2
    <3>2. list[k].uuid \in 1..m
      BY <1>3, <2>2
    <3> QED
      BY <1>3, <2>2, <3>1, <3>2
  <2> QED
    BY <1>1, <2>1, <2>2
<1> DEFINE size == Len(more)
<1>5. \A k \in 1..size : /\ more[k].uuid \in 1..m /\ QwenUsage(more[k].usage) \in TokenRecords
                          /\ \A j \in 1..k - 1 : more[j].uuid # more[k].uuid
  BY <1>2, <1>4
<1> QED
  BY <1>2, <1>5 DEF IsBranch, more

LEMMA QwenTokens ==
  ASSUME NEW raw, \A field \in DOMAIN raw : raw[field] \in Nat,
         DOMAIN raw = {"promptTokenCount", "cachedContentTokenCount", "candidatesTokenCount",
                       "thoughtsTokenCount", "totalTokenCount"}
  PROVE  QwenUsage(raw) \in TokenRecords
<1> DEFINE use == CountersOf(raw)
           cached == Least(use.promptTokenCount, use.cachedContentTokenCount)
           rest == use.promptTokenCount - cached
<1>1. /\ use.promptTokenCount \in Nat /\ use.cachedContentTokenCount \in Nat
      /\ use.candidatesTokenCount \in Nat /\ use.thoughtsTokenCount \in Nat /\ use.totalTokenCount \in Nat
  BY CountersAre
<1>2. QwenUsage(raw) =
        TokensApart(rest, cached, 0, use.candidatesTokenCount, use.thoughtsTokenCount, use.totalTokenCount)
  BY DEF QwenUsage
<1> HIDE DEF use
<1>3. cached \in Nat /\ rest \in Nat
  BY <1>1, Differences
<1> HIDE DEF cached, rest
<1>4. TokensApart(rest, cached, 0, use.candidatesTokenCount, use.thoughtsTokenCount, use.totalTokenCount)
        \in TokenRecords
  BY <1>1, <1>3, TokensApartAre
<1> QED
  BY <1>2, <1>4

(* What the records of Qwen Code tell. *)
LEMMA QwenRecords ==
  ASSUME NEW f, Uses(f), Sound(f)
  PROVE  LET records == QwenLog(f)
         IN  /\ IsList(records) /\ Len(records) = Len(f) /\ Len(f) \in Nat
             /\ DOMAIN records = 1..Len(f)
             /\ \A i \in 1..Len(f) :
                  /\ records[i].uuid = Origin(f, i)
                  /\ QwenUsage(records[i].usage) \in TokenRecords
                  /\ records[i] = [c \in DOMAIN records[i] |-> records[i][c]]
                  /\ {"uuid", "usage", "tool"} \subseteq DOMAIN records[i]
                  /\ records[i].parent \in 0..i - 1
                  /\ records[i].parent # 0 => f[records[i].parent].kind # "finish"
<1> DEFINE records == QwenLog(f)
<1>1. records = [i \in DOMAIN f |-> records[i]]
  BY DEF QwenLog, Records
<1>2. IsList(f) /\ IsList(records) /\ Len(records) = Len(f) /\ DOMAIN f = 1..Len(f) /\ Len(f) \in Nat
      /\ DOMAIN records = 1..Len(f)
  BY <1>1, RecordsAre
<1>3. ASSUME NEW i \in 1..Len(f)
      PROVE  /\ records[i].uuid = Origin(f, i)
             /\ QwenUsage(records[i].usage) \in TokenRecords
             /\ records[i] = [c \in DOMAIN records[i] |-> records[i][c]]
             /\ {"uuid", "usage", "tool"} \subseteq DOMAIN records[i]
             /\ records[i].parent \in 0..i - 1
             /\ records[i].parent # 0 => f[records[i].parent].kind # "finish"
  <2> DEFINE first == Origin(f, i)
             use == f[i].use
             raw == [promptTokenCount |-> InputOf(use), cachedContentTokenCount |-> use[2],
                     candidatesTokenCount |-> use[4], thoughtsTokenCount |-> use[5],
                     totalTokenCount |-> Total(use)]
             record == records[i]
  <2>1. /\ record.uuid = first /\ record.parent = Parent(f, first) /\ record.usage = raw
        /\ record = [c \in DOMAIN record |-> record[c]]
        /\ {"uuid", "usage", "tool"} \subseteq DOMAIN record
    BY <1>2 DEF QwenLog, Records
  <2> HIDE DEF records, record
  <2>2. use \in TokenRecords
    BY <1>2, RecordsAre
  <2> HIDE DEF use
  <2>3. /\ \A field \in DOMAIN raw : raw[field] \in Nat
        /\ DOMAIN raw = {"promptTokenCount", "cachedContentTokenCount", "candidatesTokenCount",
                         "thoughtsTokenCount", "totalTokenCount"}
    BY <2>2, UseIs
  <2> HIDE DEF raw
  <2>4. QwenUsage(raw) \in TokenRecords
    BY <2>3, QwenTokens
  <2>5. first \in 1..i
    <3>1. f[i].kind = "finish" => first \in 1..i - 1
      BY <1>2, OriginIs
    <3>2. f[i].kind # "finish" => first = i
      BY <1>2, OriginIs
    <3> QED
      BY <1>2, <3>1, <3>2
  <2> HIDE DEF first
  <2>6. first \in 1..Len(f)
    BY <1>2, <2>5
  <2>7. Parent(f, first) \in 0..first - 1 /\ (Parent(f, first) # 0 => f[Parent(f, first)].kind # "finish")
    BY <1>2, <2>6, ParentIs
  <2>8. Parent(f, first) \in 0..i - 1
    BY <1>2, <2>5, <2>7
  <2> QED
    BY <2>1, <2>4, <2>7, <2>8 DEF first, record
<1> QED
  BY <1>2, <1>3

(* The record that its fragments make. *)
QwenItem(records, u) == QwenAggregated(Those(records, {i \in DOMAIN records : records[i].uuid = u}))

LEMMA QwenFragments ==
  ASSUME NEW f, Uses(f), Sound(f), NEW u \in 1..Len(f), f[u].kind # "finish"
  PROVE  QwenItem(QwenLog(f), u).uuid = u /\ QwenUsage(QwenItem(QwenLog(f), u).usage) \in TokenRecords
<1> DEFINE records == QwenLog(f)
           at == {i \in DOMAIN records : records[i].uuid = u}
           those == Those(records, at)
           item == QwenAggregated(those)
           n == Len(those)
<1>1. /\ IsList(records) /\ Len(records) = Len(f) /\ Len(f) \in Nat /\ DOMAIN records = 1..Len(f)
      /\ \A i \in 1..Len(f) :
           /\ records[i].uuid = Origin(f, i)
           /\ QwenUsage(records[i].usage) \in TokenRecords
           /\ records[i] = [c \in DOMAIN records[i] |-> records[i][c]]
           /\ {"uuid", "usage", "tool"} \subseteq DOMAIN records[i]
  BY QwenRecords
<1>2. Origin(f, u) = u
  BY OriginIs DEF Uses
<1> HIDE DEF records
<1>3. u \in at /\ u \in 1..Len(records)
  BY <1>1, <1>2
<1>4. n \in Nat \ {0}
  <2> HIDE DEF at
  <2> QED
    BY <1>1, <1>3, PickedSome
<1>5. IsList(those) /\ \A p \in 1..n : \E k \in at \cap 1..Len(records) : those[p] = records[k]
  <2> HIDE DEF at
  <2> QED
    BY <1>1, Picked DEF PickedFrom
<1>6. \A p \in 1..n : /\ those[p].uuid = u /\ QwenUsage(those[p].usage) \in TokenRecords
                      /\ those[p] = [c \in DOMAIN those[p] |-> those[p][c]]
                      /\ {"uuid", "usage", "tool"} \subseteq DOMAIN those[p]
  <2> HIDE DEF those
  <2> QED
    BY <1>1, <1>5
<1>7. item.uuid = those[1].uuid /\ item.usage = those[n].usage
  <2> HIDE DEF those
  <2>1. 1 \in 1..n /\ those # <<>> /\ Head(those) = those[1]
    BY <1>4, <1>5 DEF IsList
  <2> DEFINE tool == \E i \in DOMAIN those : those[i].tool
             first == those[1]
  <2>2. item = [first EXCEPT !.usage = those[n].usage, !.tool = tool]
    BY <2>1 DEF QwenAggregated, Last
  <2>3. first = [c \in DOMAIN first |-> first[c]] /\ {"uuid", "usage", "tool"} \subseteq DOMAIN first
    BY <1>6, <2>1
  <2> HIDE DEF first, tool, item
  <2> QED
    BY <2>2, <2>3 DEF first
<1> HIDE DEF those, item
<1>8. 1 \in 1..n /\ n \in 1..n
  BY <1>4
<1>9. item.uuid = u /\ QwenUsage(item.usage) \in TokenRecords
  BY <1>6, <1>7, <1>8
<1> QED
  BY <1>9 DEF item, those, records, QwenItem

(* The active branch is one. *)
LEMMA QwenBranches ==
  ASSUME NEW f, Uses(f), Sound(f)
  PROVE  IsBranch(QwenActiveBranch(QwenLog(f)), Len(f))
<1> DEFINE records == QwenLog(f)
           n == Len(records)
           leaves == {i \in DOMAIN records : records[i].type # "artifact"}
           item(u) == QwenItem(records, u)
           Was(g) == g = [u \in 0..n |-> IF u = 0 THEN <<>> ELSE Append(g[records[u].parent], item(u))]
           parent == [u \in 1..n |-> records[u].parent]
           items == [u \in 1..n |-> item(u)]
           chain == CHOOSE g : Was(g)
           last == records[Max(leaves)].uuid
<1>1. /\ IsList(records) /\ n = Len(f) /\ n \in Nat /\ DOMAIN records = 1..n
      /\ \A i \in 1..n :
           /\ records[i].uuid = Origin(f, i)
           /\ records[i].parent \in 0..i - 1
           /\ records[i].parent # 0 => f[records[i].parent].kind # "finish"
  BY QwenRecords
<1>2. QwenActiveBranch(records) = IF leaves = {} THEN <<>> ELSE chain[last]
  BY DEF QwenActiveBranch, QwenItem
<1>3. \A u \in 1..n : f[u].kind # "finish" => item(u).uuid = u /\ QwenUsage(item(u).usage) \in TokenRecords
  <2> SUFFICES ASSUME NEW u \in 1..n, f[u].kind # "finish"
               PROVE  item(u).uuid = u /\ QwenUsage(item(u).usage) \in TokenRecords
    OBVIOUS
  <2>1. u \in 1..Len(f)
    BY <1>1
  <2> HIDE DEF n
  <2> QED
    BY <2>1, QwenFragments
<1> HIDE DEF records, item
<1> HIDE DEF n
<1>4. \A u \in 1..n : parent[u] = records[u].parent /\ items[u] = item(u) /\ parent[u] \in 0..u - 1
  BY <1>1
<1>5. \A g : Was(g) <=> Chains(g, n, parent, items)
  <2> HIDE DEF parent, items
  <2> TAKE g
  <2>1. \A u \in 0..n : u = 0 \/ u \in 1..n
    BY <1>1
  <2>2. [u \in 0..n |-> IF u = 0 THEN <<>> ELSE Append(g[records[u].parent], item(u))]
          = [u \in 0..n |-> IF u = 0 THEN <<>> ELSE Append(g[parent[u]], items[u])]
    BY <1>4, <2>1
  <2> QED
    BY <2>2 DEF Chains
<1>6. \E g : Chains(g, n, parent, items)
  <2> HIDE DEF parent, items
  <2> QED
    BY <1>1, <1>4, Chaining
<1> HIDE DEF Was
<1>7. Chains(chain, n, parent, items)
  BY <1>5, <1>6
<1> HIDE DEF chain, parent, items
<1>8. chain[0] = <<>> /\ \A u \in 1..n : chain[u] = Append(chain[records[u].parent], item(u))
  <2>1. 0 \in 0..n /\ \A u \in 1..n : u \in 0..n /\ u # 0
    BY <1>1
  <2> QED
    BY <1>4, <1>7, <2>1 DEF Chains
<1> DEFINE Fine(u) == u = 0 \/ f[u].kind # "finish"
           S == {m \in 0..n : \A u \in 0..m : Fine(u) => IsBranch(chain[u], u)}
<1>9. IsBranch(<<>>, 0)
  BY WrittenOut DEF IsBranch
<1>10. 0 \in S
  BY <1>1, <1>8, <1>9
<1>11. ASSUME NEW m \in 0..n - 1, m \in S PROVE m + 1 \in S
  <2>1. m + 1 \in 1..n /\ m + 1 \in 0..n
    BY <1>1
  <2>2. ASSUME NEW u \in 0..m + 1, Fine(u) PROVE IsBranch(chain[u], u)
    <3>1. CASE u \in 0..m
      BY <1>11, <2>2, <3>1
    <3>2. CASE u = m + 1
      <4> DEFINE p == records[u].parent
                 one == item(u)
      <4>1. p \in 0..u - 1 /\ u \in 1..n /\ u \in Nat /\ p \in 0..m /\ Fine(p) /\ f[u].kind # "finish"
        BY <1>1, <2>1, <2>2, <3>2
      <4>2. IsBranch(chain[p], p)
        BY <1>11, <4>1
      <4>3. chain[u] = Append(chain[p], one) /\ one.uuid = u /\ QwenUsage(one.usage) \in TokenRecords
        BY <1>3, <1>8, <4>1
      <4> HIDE DEF p, one
      <4> QED
        BY <4>1, <4>2, <4>3, BranchGrows
    <3> QED
      BY <3>1, <3>2
  <2> QED
    BY <2>1, <2>2
<1> HIDE DEF S
<1>12. \A m \in 0..n : m \in S
  BY <1>1, <1>10, <1>11, Induction
<1>13. ASSUME leaves # {} PROVE last \in 1..n /\ f[last].kind # "finish"
  <2> DEFINE m == Max(leaves)
  <2>1. leaves \subseteq 1..n
    BY <1>1
  <2> HIDE DEF leaves
  <2>2. m \in 1..n
    BY <1>1, <1>13, <2>1, MaxBelow
  <2> HIDE DEF m
  <2>3. last = Origin(f, m) /\ m \in 1..Len(f)
    BY <1>1, <2>2 DEF m
  <2> HIDE DEF last
  <2>4. CASE f[m].kind = "finish"
    <3>1. Origin(f, m) \in 1..m - 1 /\ Answers(f, Origin(f, m), m)
      BY <2>3, <2>4, OriginIs DEF Uses
    <3> QED
      BY <1>1, <2>2, <2>3, <3>1 DEF Answers
  <2>5. CASE f[m].kind # "finish"
    BY <2>2, <2>3, <2>5, OriginIs DEF Uses
  <2> QED
    BY <2>4, <2>5
<1>14. ASSUME leaves # {} PROVE IsBranch(chain[last], last)
  <2> HIDE DEF leaves, last
  <2>1. last \in 1..n /\ Fine(last) /\ last \in 0..n
    BY <1>1, <1>13, <1>14
  <2>2. last \in S
    BY <1>12, <2>1
  <2>3. last \in 0..last
    BY <1>1, <2>1
  <2> QED
    BY <2>1, <2>2, <2>3 DEF S
<1>15. \A list : \A m \in 0..n : IsBranch(list, m) => IsBranch(list, n)
  BY <1>1 DEF IsBranch
<1> HIDE DEF leaves, last
<1>16. IsBranch(QwenActiveBranch(records), n)
  <2>1. 0 \in 0..n /\ (last \in 1..n => last \in 0..n)
    BY <1>1
  <2>2. CASE leaves = {}
    BY <1>2, <1>9, <1>15, <2>1, <2>2
  <2>3. CASE leaves # {}
    BY <1>2, <1>13, <1>14, <1>15, <2>1, <2>3
  <2> QED
    BY <2>2, <2>3
<1> QED
  BY <1>1, <1>16 DEF records

(* Qwen Code. *)
LEMMA QwenRows ==
  ASSUME NEW f, Uses(f), Sound(f)
  PROVE  RowsOfGood(QwenConversation(QwenLog(f)))
<1> DEFINE log == QwenActiveBranch(QwenLog(f))
           n == Len(log)
           ids == [k \in 1..n |-> log[k].uuid]
           draft == Drafted(QwenNormalized, NoDraft, log)
<1>1. IsBranch(log, Len(f)) /\ Len(f) \in Nat
  BY QwenBranches DEF Uses, IsList
<1>2. QwenConversation(QwenLog(f)) = Rows(draft)
  BY DEF QwenConversation
<1> HIDE DEF log
<1>3. n \in Nat
  BY <1>1 DEF IsBranch, IsList
<1>4. ASSUME NEW k \in 1..n
      PROVE  Own(ids, k) /\ ids[k] = log[k].uuid /\ QwenUsage(log[k].usage) \in TokenRecords
  <2>1. log[k].uuid \in 1..Len(f) /\ \A j \in 1..k - 1 : log[j].uuid # log[k].uuid
    BY <1>1 DEF IsBranch
  <2>2. \A j \in 1..k - 1 : j \in 1..n
    BY <1>3
  <2> QED
    BY <1>1, <2>1, <2>2 DEF Own, IsBranch
<1>5. ASSUME NEW k \in 1..n PROVE KeepsGood("qwen", log, ids, k) /\ ids[k] \in Nat
  <2>1. k \in Nat \ {0} /\ ids[k] \in Nat
    BY <1>4 DEF Own
  <2>2. \A d : Step("qwen", log, d, k) = QwenNormalized(d, log[k]) /\ Beside("qwen", d)
    BY Zenon DEF Step, Beside
  <2> HIDE DEF ids, n
  <2>3. ASSUME NEW d, GoodDraft(d, Upto(ids, k - 1))
        PROVE  GoodDraft(QwenNormalized(d, log[k]), Upto(ids, k))
    <3> DEFINE record == log[k]
               keys == Upto(ids, k)
               opened == Opened(d, record.uuid)
               counted == [d EXCEPT !.compactions = @ + 1]
               usage == QwenUsage(record.usage)
               turn == d.active
               answered == ToolUsed(Marked(Called(d, turn, usage), turn, "completed"), turn, record.tool)
    <3>1. GoodDraft(d, keys) /\ GoodDraft(opened, keys)
      BY <1>4, <2>1, <2>3, OpensNext, GoodNext
    <3>2. GoodDraft(counted, keys)
      BY <3>1, GoodCompacted
    <3>3. GoodDraft(answered, keys)
      <4>1. usage \in TokenRecords
        BY <1>4
      <4> HIDE DEF usage
      <4> QED
        BY <3>1, <4>1, CalledNext DEF Statuses
    <3>4. QwenNormalized(d, record) \in {opened, counted, answered, d}
      BY Zenon DEF QwenNormalized
    <3> HIDE DEF opened, counted, answered
    <3> QED
      BY <3>1, <3>2, <3>3, <3>4 DEF keys
  <2> QED
    BY <2>1, <2>2, <2>3 DEF KeepsGood
<1>6. ReadTo("qwen", log, NoDraft, n, draft)
  BY <1>3, QwenReads
<1>7. GoodDraft(NoDraft, {}) /\ Beside("qwen", NoDraft)
  BY GoodAtFirst DEF Beside
<1> HIDE DEF draft, ids, n
<1>8. GoodDraft(draft, Nat)
  BY <1>3, <1>5, <1>6, <1>7, ReadWhole
<1> QED
  BY <1>2, <1>8 DEF RowsOfGood


(* The rows in the order of their creation are the rows, each at one place. *)
Rearranges(at, n) ==
  at \in [1..n -> 1..n] /\ \A p, q \in 1..n : at[p] = at[q] => p = q

LEMMA InOrderIs ==
  ASSUME NEW rows, IsList(rows), \A k \in 1..Len(rows) : rows[k].created \in Nat
  PROVE  \E at : /\ Rearranges(at, Len(rows))
                 /\ InOrder(rows) = [p \in 1..Len(rows) |-> rows[at[p]]]
<1> DEFINE n == Len(rows)
           places == 1..n
           Before(k) == {j \in places : \/ rows[j].created < rows[k].created
                                        \/ (rows[j].created = rows[k].created /\ j < k)}
           rank == [k \in places |-> Cardinality(Before(k))]
           at == [p \in places |-> CHOOSE k \in places : rank[k] = p - 1]
<1>1. n \in Nat /\ DOMAIN rows = places
  BY DEF IsList
<1>2. InOrder(rows) = [p \in places |-> rows[CHOOSE k \in places : Cardinality(Before(k)) = p - 1]]
  BY <1>1 DEF InOrder
<1>3. \A p \in places : (CHOOSE k \in places : Cardinality(Before(k)) = p - 1) = CHOOSE k \in places : rank[k] = p - 1
  <2> HIDE DEF places, Before
  <2> QED
    OBVIOUS
<1>4. InOrder(rows) = [p \in places |-> rows[at[p]]]
  <2> HIDE DEF places, Before, rank
  <2> QED
    BY <1>2, <1>3
<1>5. IsFiniteSet(places) /\ Cardinality(places) = n
  <2> HIDE DEF n
  <2> QED
    BY <1>1, FS_Interval
<1>6. ASSUME NEW k \in places, NEW T, T \subseteq places \ {k}
      PROVE  IsFiniteSet(T) /\ Cardinality(T) \in 0..n - 1
  <2> HIDE DEF places, n
  <2>1. IsFiniteSet(places \ {k}) /\ Cardinality(places \ {k}) = n - 1
    BY <1>5, FS_RemoveElement
  <2>2. IsFiniteSet(T) /\ Cardinality(T) <= n - 1
    BY <1>6, <2>1, FS_Subset
  <2> QED
    BY <1>1, <2>2, FS_CardinalityType
<1>7. ASSUME NEW k \in places PROVE IsFiniteSet(Before(k)) /\ rank[k] = Cardinality(Before(k)) /\ rank[k] \in 0..n - 1
  <2>1. Before(k) \subseteq places \ {k}
    OBVIOUS
  <2> HIDE DEF Before, n, places
  <2> QED
    BY <1>6, <2>1
<1>8. ASSUME NEW j \in places, NEW k \in places, j \in Before(k) PROVE rank[j] < rank[k]
  <2>1. Before(j) \subseteq Before(k) \ {j}
    <3> SUFFICES ASSUME NEW i \in Before(j) PROVE i \in Before(k) /\ i # j
      OBVIOUS
    <3> DEFINE a == rows[i].created
               b == rows[j].created
               c == rows[k].created
    <3>1. i \in places /\ i \in Nat /\ j \in Nat /\ k \in Nat /\ a \in Nat /\ b \in Nat /\ c \in Nat
      BY <1>1
    <3>2. (a < b \/ (a = b /\ i < j)) /\ (b < c \/ (b = c /\ j < k))
      BY <1>8
    <3> HIDE DEF a, b, c
    <3>3. (a < c \/ (a = c /\ i < k)) /\ i # j
      BY <3>1, <3>2
    <3> QED
      BY <3>1, <3>3 DEF a, c
  <2> HIDE DEF Before, rank, places, n
  <2>2. IsFiniteSet(Before(k)) /\ Cardinality(Before(k)) = rank[k] /\ Cardinality(Before(j)) = rank[j]
    BY <1>7
  <2>3. IsFiniteSet(Before(k) \ {j}) /\ Cardinality(Before(k) \ {j}) = Cardinality(Before(k)) - 1
    BY <1>8, <2>2, FS_RemoveElement
  <2>4. Cardinality(Before(j)) <= Cardinality(Before(k) \ {j})
    BY <2>1, <2>3, FS_Subset
  <2>5. rank[j] \in Nat /\ rank[k] \in Nat
    <3>1. \A x \in 0..n - 1 : x \in Nat
      BY <1>1
    <3> QED
      BY <1>7, <3>1
  <2> QED
    BY <2>2, <2>3, <2>4, <2>5
<1>9. ASSUME NEW j \in places, NEW k \in places, rank[j] = rank[k] PROVE j = k
  <2> SUFFICES ASSUME j # k PROVE FALSE
    OBVIOUS
  <2>1. j \in Before(k) \/ k \in Before(j)
    <3>1. j \in Nat /\ k \in Nat /\ rows[j].created \in Nat /\ rows[k].created \in Nat
      BY <1>1
    <3> QED
      BY <3>1
  <2>2. rank[j] < rank[k] \/ rank[k] < rank[j]
    <3> HIDE DEF Before, rank, places
    <3> QED
      BY <1>8, <2>1
  <2>3. rank[j] \in 0..n - 1
    BY <1>7
  <2> HIDE DEF Before, rank, places, n
  <2> QED
    BY <1>1, <1>9, <2>2, <2>3
<1> DEFINE ranks == 0..n - 1
<1>10. rank \in Injection(places, ranks)
  <2>1. rank \in [places -> ranks]
    <3>1. rank = [k \in places |-> rank[k]]
      OBVIOUS
    <3> HIDE DEF rank, places, ranks
    <3> QED
      BY <1>7, <3>1 DEF ranks
  <2> HIDE DEF rank, places, ranks
  <2> QED
    BY <1>9, <2>1 DEF Injection, IsInjective
<1>11. IsFiniteSet(ranks) /\ Cardinality(ranks) = n
  <2> HIDE DEF n
  <2> QED
    BY <1>1, FS_Interval
<1>12. rank \in Surjection(places, ranks)
  <2> HIDE DEF rank, places, ranks, n
  <2> QED
    BY <1>5, <1>10, <1>11, FS_Injection
<1>13. ASSUME NEW p \in places PROVE at[p] \in places /\ rank[at[p]] = p - 1
  <2>1. p - 1 \in ranks
    BY <1>1
  <2> HIDE DEF rank, places, ranks
  <2>2. \E k \in places : rank[k] = p - 1
    BY <1>12, <2>1 DEF Surjection
  <2> QED
    BY <2>2
<1>14. Rearranges(at, n)
  <2>1. at = [p \in places |-> at[p]]
    <3> HIDE DEF rank, places
    <3> QED
      OBVIOUS
  <2> HIDE DEF at, rank
  <2>2. ASSUME NEW p \in places, NEW q \in places, at[p] = at[q] PROVE p = q
    <3>1. p - 1 = q - 1
      <4> HIDE DEF places
      <4> QED
        BY <1>13, <2>2
    <3> QED
      BY <1>1, <3>1
  <2>3. at \in [places -> places]
    BY <1>13, <2>1
  <2> QED
    BY <2>2, <2>3 DEF Rearranges
<1> HIDE DEF at, n
<1> QED
  BY <1>4, <1>14 DEF n

(* They keep ids of their own, *)
LEMMA InOrderOwn ==
  ASSUME NEW rows, IsList(rows),
         \A k \in 1..Len(rows) : rows[k].created \in Nat /\ rows[k].id \in Nat,
         \A k, l \in 1..Len(rows) : rows[k].id = rows[l].id => k = l,
         NEW list, list = InOrder(rows)
  PROVE  /\ IsList(list) /\ Len(list) = Len(rows) /\ Len(list) \in Nat
         /\ \A p \in 1..Len(list) : \E k \in 1..Len(rows) : list[p] = rows[k]
         /\ \A p, q \in 1..Len(list) : list[p].id = list[q].id => p = q
<1> DEFINE n == Len(rows)
<1>1. n \in Nat
  BY DEF IsList
<1>2. PICK at : Rearranges(at, n) /\ InOrder(rows) = [p \in 1..n |-> rows[at[p]]]
  BY InOrderIs
<1>3. list = [p \in 1..n |-> list[p]] /\ \A p \in 1..n : list[p] = rows[at[p]]
  BY <1>2
<1> HIDE DEF n
<1>4. IsList(list) /\ Len(list) = n
  BY <1>1, <1>3, Numbered
<1>5. \A p \in 1..n : at[p] \in 1..n
  BY <1>2 DEF Rearranges
<1>6. \A p, q \in 1..n : at[p] = at[q] => p = q
  BY <1>2 DEF Rearranges
<1> QED
  BY <1>1, <1>3, <1>4, <1>5, <1>6 DEF n

(* and so do those that are picked. *)
LEMMA PickedOwn ==
  ASSUME NEW items, IsList(items), NEW at,
         \A k, l \in 1..Len(items) : items[k].id = items[l].id => k = l,
         NEW list, list = Those(items, at)
  PROVE  /\ IsList(list) /\ Len(list) \in Nat
         /\ \A p \in 1..Len(list) : \E k \in 1..Len(items) : list[p] = items[k]
         /\ \A p, q \in 1..Len(list) : list[p].id = list[q].id => p = q
<1> DEFINE n == Len(items)
           Fine(l, k) == /\ IsList(l)
                         /\ \A p \in 1..Len(l) : \E j \in 1..k : l[p] = items[j]
                         /\ \A p, q \in 1..Len(l) : l[p].id = l[q].id => p = q
<1>1. n \in Nat
  BY DEF IsList
<1>2. PICK f : Picks(f, items, at)
  BY Picking
<1>3. /\ list = f[n] /\ f[0] = <<>>
      /\ \A k \in 1..n : f[k] = IF k \in at THEN Append(f[k - 1], items[k]) ELSE f[k - 1]
  BY <1>2 DEF Picks
<1>4. \A k, l \in 1..n : items[k].id = items[l].id => k = l
  OBVIOUS
<1> HIDE DEF n
<1> DEFINE S == {k \in 0..n : Fine(f[k], k)}
<1>5. 0 \in S
  BY <1>1, <1>3, WrittenOut
<1>6. ASSUME NEW k \in 0..n - 1, k \in S PROVE k + 1 \in S
  <2>1. k + 1 \in 1..n /\ k + 1 \in 0..n /\ (k + 1) - 1 = k
    BY <1>1
  <2> DEFINE was == f[k]
             item == items[k + 1]
             m == Len(was)
  <2>2. Fine(was, k) /\ m \in Nat
    BY <1>6 DEF IsList
  <2> HIDE DEF was, item
  <2>3. CASE k + 1 \in at
    <3> DEFINE more == Append(was, item)
    <3>1. f[k + 1] = more
      BY <1>3, <2>1, <2>3 DEF was, item
    <3>2. /\ IsList(more) /\ Len(more) = m + 1 /\ more[m + 1] = item
          /\ \A p \in 1..m : more[p] = was[p]
      BY <2>2, SameStarts
    <3> HIDE DEF more, m
    <3>3. \A p \in 1..m : \E j \in 1..k : was[p] = items[j]
      BY <2>2 DEF m
    <3>4. \A p, q \in 1..m : was[p].id = was[q].id => p = q
      BY <2>2 DEF m
    <3>5. ASSUME NEW p \in 1..m PROVE was[p].id # item.id
      <4>1. PICK j \in 1..k : was[p] = items[j]
        BY <3>3
      <4>2. j \in 1..n /\ j # k + 1
        BY <1>1
      <4> QED
        BY <1>4, <2>1, <4>1, <4>2 DEF item
    <3>6. \A p \in 1..Len(more) : p \in 1..m \/ p = m + 1
      BY <2>2, <3>2
    <3>7. ASSUME NEW p \in 1..Len(more) PROVE \E j \in 1..k + 1 : more[p] = items[j]
      <4>1. CASE p \in 1..m
        <5>1. PICK j \in 1..k : was[p] = items[j]
          BY <3>3, <4>1
        <5>2. j \in 1..k + 1
          OBVIOUS
        <5> QED
          BY <3>2, <4>1, <5>1, <5>2
      <4>2. CASE p = m + 1
        BY <2>1, <3>2, <4>2 DEF item
      <4> QED
        BY <3>6, <4>1, <4>2
    <3>8. ASSUME NEW p \in 1..Len(more), NEW q \in 1..Len(more), more[p].id = more[q].id PROVE p = q
      BY <3>2, <3>4, <3>5, <3>6, <3>8
    <3> QED
      BY <2>1, <3>1, <3>2, <3>7, <3>8
  <2>4. CASE k + 1 \notin at
    <3>1. f[k + 1] = was
      BY <1>3, <2>1, <2>4 DEF was
    <3>2. Fine(was, k + 1)
      <4>1. \A j \in 1..k : j \in 1..k + 1
        OBVIOUS
      <4> QED
        BY <2>2, <4>1
    <3> QED
      BY <2>1, <3>1, <3>2
  <2> QED
    BY <2>3, <2>4
<1> HIDE DEF S
<1>7. \A k \in 0..n : k \in S
  BY <1>1, <1>5, <1>6, Induction
<1>8. n \in S
  BY <1>1, <1>7
<1>9. Fine(list, n)
  BY <1>3, <1>8 DEF S
<1> QED
  BY <1>9 DEF n, IsList


(* The messages of Kilo Code and of Crush, in order, have ids of their own. *)
LEMMA TableInOrder ==
  ASSUME NEW records, IsList(records), NEW written,
         \A k \in 1..Len(records) : records[k].id \in Nat /\ records[k].created \in Nat,
         NEW list, list = InOrder(Table(records, written))
  PROVE  /\ IsList(list) /\ Len(list) \in Nat
         /\ \A p \in 1..Len(list) : \E k \in 1..Len(records) : list[p] = records[k]
         /\ \A p, q \in 1..Len(list) : list[p].id = list[q].id => p = q
<1> DEFINE rows == Table(records, written)
<1>1. /\ IsList(rows)
      /\ \A p \in 1..Len(rows) : \E k \in 1..Len(records) : rows[p] = records[k]
      /\ \A p, q \in 1..Len(rows) : rows[p].id = rows[q].id => p = q
  <2>1. Tabled(rows, records, written, Len(records))
    BY TableIsTabled
  <2> HIDE DEF rows
  <2> QED
    BY <2>1 DEF Tabled, LastWritten
<1> HIDE DEF rows
<1>2. \A p \in 1..Len(rows) : rows[p].id \in Nat /\ rows[p].created \in Nat
  BY <1>1
<1>3. list = InOrder(rows)
  BY DEF rows
<1>4. /\ IsList(list) /\ Len(list) = Len(rows) /\ Len(list) \in Nat
      /\ \A p \in 1..Len(list) : \E k \in 1..Len(rows) : list[p] = rows[k]
      /\ \A p, q \in 1..Len(list) : list[p].id = list[q].id => p = q
  BY <1>1, <1>2, <1>3, InOrderOwn
<1> QED
  BY <1>1, <1>4

(* Kilo Code. *)
LEMMA KiloRows ==
  ASSUME NEW f, Uses(f), Sound(f)
  PROVE  RowsOfGood(KiloConversation(KiloLog(f)))
<1> DEFINE records == Records(f, LAMBDA i : KiloMessage(f, i))
           written == OfKind(f, KiloTraits)
           rows == InOrder(Table(records, written))
           parts == KiloLog(f).parts
           log == KiloMessages(KiloLog(f))
           n == Len(log)
           ids == [k \in 1..n |-> log[k].row.id]
           draft == Drafted(KiloNormalized, NoDraft, log)
<1>1. records = [i \in DOMAIN f |-> records[i]]
  BY DEF Records
<1>2. IsList(f) /\ IsList(records) /\ Len(records) = Len(f) /\ DOMAIN f = 1..Len(f)
  BY <1>1, RecordsAre
<1>3. ASSUME NEW k \in 1..Len(f)
      PROVE  records[k].id \in Nat /\ records[k].created \in Nat /\ KiloUsage(records[k].tokens) \in TokenRecords
  <2>1. records[k] = KiloMessage(f, k)
    BY <1>2 DEF Records
  <2> DEFINE use == f[k].use
             tokens == records[k].tokens
  <2>2. Origin(f, k) \in Nat /\ use \in TokenRecords
    BY <1>2, RecordsAre, OriginsAre
  <2> HIDE DEF records
  <2>3. /\ tokens.input = use[1] /\ tokens.read = use[2] /\ tokens.write = use[3]
        /\ tokens.output = use[4] /\ tokens.reasoning = use[5] /\ tokens.total = Total(use)
        /\ DOMAIN tokens = {"input", "read", "write", "output", "reasoning", "total"}
        /\ records[k].id = Origin(f, k) /\ records[k].created = Origin(f, k)
    BY <2>1 DEF KiloMessage
  <2> HIDE DEF use, tokens
  <2>4. KiloUsage(tokens) \in TokenRecords
    <3> DEFINE now == CountersOf(tokens)
    <3>1. \A field \in DOMAIN tokens : tokens[field] \in Nat
      BY <2>2, <2>3, UseIs
    <3>2. /\ now.input \in Nat /\ now.read \in Nat /\ now.write \in Nat
          /\ now.output \in Nat /\ now.reasoning \in Nat /\ now.total \in Nat
      BY <2>3, <3>1, CountersAre
    <3>3. KiloUsage(tokens) =
            TokensApart(now.input, now.read, now.write, now.output, now.reasoning, now.total)
      BY DEF KiloUsage
    <3> HIDE DEF now
    <3>4. TokensApart(now.input, now.read, now.write, now.output, now.reasoning, now.total) \in TokenRecords
      BY <3>2, TokensApartAre
    <3> QED
      BY <3>3, <3>4
  <2> QED
    BY <2>2, <2>3, <2>4 DEF tokens
<1>4. KiloLog(f).messages = Table(records, written)
  BY DEF KiloLog
<1>5. log = [k \in DOMAIN rows |-> [row |-> rows[k], parts |-> SelectSeq(parts, LAMBDA part : part.message = rows[k].id)]]
  BY <1>4 DEF KiloMessages, Each
<1> HIDE DEF records, written, parts
<1>6. /\ IsList(rows) /\ Len(rows) \in Nat
      /\ \A p \in 1..Len(rows) : \E k \in 1..Len(records) : rows[p] = records[k]
      /\ \A p, q \in 1..Len(rows) : rows[p].id = rows[q].id => p = q
  BY <1>2, <1>3, TableInOrder
<1>7. KiloConversation(KiloLog(f)) = Rows(draft)
  BY DEF KiloConversation
<1> HIDE DEF rows, log
<1>8. log = [k \in DOMAIN rows |-> log[k]] /\ \A k \in DOMAIN rows : log[k].row = rows[k]
  BY <1>5
<1>9. IsList(log) /\ n = Len(rows) /\ n \in Nat /\ DOMAIN rows = 1..n
  BY <1>6, <1>8, ForEachItem DEF IsList
<1>10. ASSUME NEW k \in 1..n
       PROVE  Own(ids, k) /\ ids[k] = log[k].row.id /\ KiloUsage(log[k].row.tokens) \in TokenRecords
  <2>1. \A p \in 1..n : ids[p] = rows[p].id
    BY <1>8, <1>9
  <2>2. PICK j \in 1..Len(records) : rows[k] = records[j]
    BY <1>6, <1>9
  <2>3. \A j1 \in 1..k - 1 : j1 \in 1..n /\ j1 # k
    BY <1>9
  <2>4. \A j1 \in 1..k - 1 : rows[j1].id # rows[k].id
    BY <1>6, <1>9, <2>3
  <2> QED
    BY <1>2, <1>3, <1>8, <1>9, <2>1, <2>2, <2>3, <2>4 DEF Own
<1>11. ASSUME NEW k \in 1..n PROVE KeepsGood("kilo", log, ids, k) /\ ids[k] \in Nat
  <2>1. k \in Nat \ {0} /\ ids[k] \in Nat
    BY <1>10 DEF Own
  <2>2. \A d : Step("kilo", log, d, k) = KiloNormalized(d, log[k]) /\ Beside("kilo", d)
    BY Zenon DEF Step, Beside
  <2> HIDE DEF ids, n
  <2>3. ASSUME NEW d, GoodDraft(d, Upto(ids, k - 1))
        PROVE  GoodDraft(KiloNormalized(d, log[k]), Upto(ids, k))
    <3> DEFINE message == log[k]
               row == message.row
               keys == Upto(ids, k)
               opened == IF row.role = "user" THEN Opened(d, row.id) ELSE d
               turn == KiloAddressed(opened, message)
               used == KiloAnswered(opened, turn, row)
               answered == IF row.role = "assistant" THEN used ELSE opened
               size == Cardinality({j \in DOMAIN message.parts : message.parts[j].type = "tool"})
               more == answered.tools \o [j \in 1..size |-> turn]
    <3>1. GoodDraft(opened, keys)
      <4>1. GoodDraft(d, keys) /\ GoodDraft(Opened(d, row.id), keys)
        BY <1>10, <2>1, <2>3, OpensNext, GoodNext
      <4> HIDE DEF row, keys
      <4> QED
        BY <4>1
    <3>2. GoodDraft(used, keys)
      <4> DEFINE called == Called(opened, turn, KiloUsage(row.tokens))
                 usage == KiloUsage(row.tokens)
      <4>1. usage \in TokenRecords
        BY <1>10
      <4>2. used \in {Marked(called, turn, "aborted"), Marked(called, turn, "completed"), called}
        BY Zenon DEF KiloAnswered
      <4>3. called = Called(opened, turn, usage)
        OBVIOUS
      <4> HIDE DEF opened, turn, usage, called, used, keys
      <4>4. GoodDraft(called, keys)
        BY <3>1, <4>1, <4>3, GoodCalled
      <4> QED
        BY <4>2, <4>4, GoodMarked DEF Statuses
    <3>3. GoodDraft(answered, keys)
      <4> HIDE DEF used, opened, row, keys
      <4> QED
        BY <3>1, <3>2
    <3>4. KiloNormalized(d, message) = [answered EXCEPT !["tools"] = more]
      BY DEF KiloNormalized, ToolsUsed
    <3> HIDE DEF answered, more, message
    <3>5. "tools" \notin {"turns", "calls"}
      OBVIOUS
    <3>6. GoodDraft([answered EXCEPT !["tools"] = more], keys)
      BY <3>3, <3>5, GoodBeside
    <3> QED
      BY <3>4, <3>6 DEF message, keys
  <2> QED
    BY <2>1, <2>2, <2>3 DEF KeepsGood
<1>12. ReadTo("kilo", log, NoDraft, n, draft)
  BY <1>9, KiloReads
<1>13. GoodDraft(NoDraft, {}) /\ Beside("kilo", NoDraft)
  BY GoodAtFirst DEF Beside
<1> HIDE DEF draft, ids, n
<1>14. GoodDraft(draft, Nat)
  BY <1>9, <1>11, <1>12, <1>13, ReadWhole
<1> QED
  BY <1>7, <1>14 DEF RowsOfGood

(* The calls of Crush, one more at a time, and what the last of them is told. *)
LEMMA OneMoreWritten ==
  ASSUME NEW calls, IsList(calls), Written(calls), NEW turn, NEW tokens
  PROVE  Written(Append(calls, [turn |-> turn, tokens |-> tokens]))
<1> DEFINE call == [turn |-> turn, tokens |-> tokens]
           more == Append(calls, call)
           n == Len(calls)
<1>1. n \in Nat /\ Len(more) = n + 1 /\ more[n + 1] = call /\ \A k \in 1..n : more[k] = calls[k]
  BY SameStarts DEF IsList
<1>2. call = [turn |-> call.turn, tokens |-> call.tokens]
  OBVIOUS
<1> HIDE DEF more, call
<1>3. \A k \in 1..Len(more) : k \in 1..n \/ k = n + 1
  BY <1>1
<1>4. Written(more)
  BY <1>1, <1>2, <1>3 DEF Written
<1> QED
  BY <1>4 DEF more, call

LEMMA LastCall ==
  ASSUME NEW calls, AreCalls(calls), Written(calls), NEW usage \in TokenRecords
  PROVE  AreCalls([calls EXCEPT ![Len(calls)].tokens = usage])
<1> DEFINE n == Len(calls)
           new == [calls EXCEPT ![n].tokens = usage]
<1>1. /\ IsList(calls) /\ n \in Nat /\ DOMAIN calls = 1..n
      /\ \A k \in 1..n : calls[k].tokens \in TokenRecords
  BY DEF AreCalls, IsList
<1>2. /\ DOMAIN new = DOMAIN calls /\ new = [k \in DOMAIN calls |-> new[k]]
      /\ \A k \in 1..n : new[k] = IF k = n THEN [calls[n] EXCEPT !.tokens = usage] ELSE calls[k]
  BY <1>1
<1>3. n \in 1..n => [calls[n] EXCEPT !.tokens = usage].tokens = usage
  <2> DEFINE call == calls[n]
  <2>1. n \in 1..n => call = [turn |-> call.turn, tokens |-> call.tokens]
    BY DEF Written
  <2> HIDE DEF call
  <2>2. n \in 1..n => [call EXCEPT !.tokens = usage].tokens = usage
    BY <2>1
  <2> QED
    BY <2>2 DEF call
<1> HIDE DEF new, n
<1>4. IsList(new) /\ Len(new) = n
  BY <1>1, <1>2, ForEachItem DEF n
<1>5. \A k \in 1..n : new[k].tokens \in TokenRecords
  BY <1>1, <1>2, <1>3
<1> QED
  BY <1>4, <1>5 DEF AreCalls, new, n

(* Crush. *)
LEMMA CrushTokens ==
  ASSUME NEW f, Uses(f)
  PROVE  CrushUsage(CrushLog(f).session) \in TokenRecords
<1> DEFINE use == CrushContext(f)
           session == CrushLog(f).session
<1>1. session.prompt_tokens = InputOf(use) /\ session.completion_tokens = OutputOf(use)
      /\ DOMAIN session = {"prompt_tokens", "completion_tokens"}
  BY DEF CrushLog
<1>2. use \in TokenRecords
  <2> DEFINE sizes == CrushSizes(f)
             m == Max(sizes)
             n == Len(f)
  <2>1. n \in Nat /\ DOMAIN f = 1..n /\ \A k \in 1..n : f[k].use \in TokenRecords
    BY DEF Uses, IsList
  <2>2. use = IF sizes = {} THEN NoTokens ELSE f[m].use
    BY DEF CrushContext
  <2>3. sizes \subseteq 1..n
    BY <2>1 DEF CrushSizes
  <2> HIDE DEF sizes, n, use
  <2>4. sizes # {} => m \in 1..n
    BY <2>1, <2>3, MaxBelow
  <2> HIDE DEF m
  <2> QED
    BY <2>1, <2>2, <2>4, NoTokensAre
<1> HIDE DEF use, session
<1> DEFINE now == CountersOf(session)
           input == now.prompt_tokens
           output == now.completion_tokens
<1>3. input \in Nat /\ output \in Nat
  <2>1. \A field \in DOMAIN session : session[field] \in Nat
    BY <1>1, <1>2, UseIs
  <2> QED
    BY <1>1, <2>1, CountersAre
<1>4. CrushUsage(session) = TokensApart(input, 0, 0, output, 0, 0)
  BY DEF CrushUsage
<1> HIDE DEF input, output
<1>5. CrushUsage(session) \in TokenRecords
  BY <1>3, <1>4, TokensApartAre
<1> QED
  BY <1>5 DEF session

LEMMA CrushRows ==
  ASSUME NEW f, Uses(f), Sound(f)
  PROVE  RowsOfGood(CrushConversation(CrushLog(f)))
<1> DEFINE records == Records(f, LAMBDA i : CrushMessage(f, i))
           written == OfKind(f, CrushTraits \ {"extra"})
           rows == InOrder(Table(records, written))
           at == {k \in DOMAIN rows : rows[k].root}
           log == Those(rows, at)
           n == Len(log)
           ids == [k \in 1..n |-> log[k].id]
           draft == Drafted(CrushNormalized, NoDraft, log)
           usage == CrushUsage(CrushLog(f).session)
           known == IF draft.calls = <<>> /\ Total(usage) > 0 THEN Called(draft, 0, NoTokens) ELSE draft
           last == [known.calls EXCEPT ![Len(known.calls)].tokens = usage]
           whole == IF known.calls = <<>> THEN known ELSE [known EXCEPT !.calls = last]
<1>1. records = [i \in DOMAIN f |-> records[i]]
  BY DEF Records
<1>2. IsList(f) /\ IsList(records) /\ Len(records) = Len(f) /\ DOMAIN f = 1..Len(f)
  BY <1>1, RecordsAre
<1>3. ASSUME NEW k \in 1..Len(f)
      PROVE  records[k].id \in Nat /\ records[k].created \in Nat
  <2>1. records[k] = CrushMessage(f, k)
    BY <1>2 DEF Records
  <2>2. Origin(f, k) \in Nat
    BY <1>2, OriginsAre
  <2> HIDE DEF records
  <2> DEFINE message == CrushMessage(f, k)
  <2>4. message.id = Origin(f, k) /\ message.created = Origin(f, k)
    BY DEF CrushMessage
  <2> HIDE DEF message
  <2>3. records[k].id = Origin(f, k) /\ records[k].created = Origin(f, k)
    BY <2>1, <2>4 DEF message
  <2> QED
    BY <2>2, <2>3
<1>4. CrushMessages(CrushLog(f)) = log
  BY DEF CrushMessages, CrushLog
<1>5. CrushConversation(CrushLog(f)) = Rows(whole)
  <2>1. CrushConversation(CrushLog(f))
          = Rows(IF known.calls = <<>> THEN known ELSE [known EXCEPT !.calls[Len(known.calls)].tokens = usage])
    <3> DEFINE whole_log == CrushLog(f)
    <3>1. CrushMessages(whole_log) = log
      BY <1>4
    <3> HIDE DEF whole_log, log
    <3> QED
      BY <3>1 DEF CrushConversation, whole_log
  <2> HIDE DEF draft, usage
  <2> QED
    BY <2>1
<1> HIDE DEF records, written
<1>6. /\ IsList(rows) /\ Len(rows) \in Nat
      /\ \A p \in 1..Len(rows) : \E k \in 1..Len(records) : rows[p] = records[k]
      /\ \A p, q \in 1..Len(rows) : rows[p].id = rows[q].id => p = q
  BY <1>2, <1>3, TableInOrder
<1> HIDE DEF rows, at
<1>7. /\ IsList(log) /\ n \in Nat
      /\ \A p \in 1..n : \E k \in 1..Len(rows) : log[p] = rows[k]
      /\ \A p, q \in 1..n : log[p].id = log[q].id => p = q
  BY <1>6, PickedOwn
<1> HIDE DEF log
<1>8. ASSUME NEW k \in 1..n PROVE Own(ids, k) /\ ids[k] = log[k].id
  <2>1. \A p \in 1..n : ids[p] = log[p].id
    OBVIOUS
  <2>2. log[k].id \in Nat
    BY <1>2, <1>3, <1>6, <1>7
  <2>3. \A j \in 1..k - 1 : j \in 1..n /\ j # k
    BY <1>7
  <2>4. \A j \in 1..k - 1 : log[j].id # log[k].id
    BY <1>7, <2>3
  <2> QED
    BY <2>1, <2>2, <2>3, <2>4 DEF Own
<1>9. ASSUME NEW k \in 1..n
      PROVE  log[k].role \in {"user", "assistant"} /\ log[k].summary \in BOOLEAN
  <2>1. PICK p \in 1..Len(rows) : log[k] = rows[p]
    BY <1>7
  <2>2. PICK j \in 1..Len(records) : rows[p] = records[j]
    BY <1>6
  <2>3. records[j] = CrushMessage(f, j)
    BY <1>2 DEF Records, records
  <2> DEFINE message == CrushMessage(f, j)
  <2>4. message.role \in {"user", "assistant"} /\ message.summary = (f[j].kind = "compact")
    BY DEF CrushMessage
  <2> HIDE DEF message
  <2> QED
    BY <2>1, <2>2, <2>3, <2>4 DEF message
<1>10. ASSUME NEW k \in 1..n PROVE KeepsGood("crush", log, ids, k) /\ ids[k] \in Nat
  <2>1. k \in Nat \ {0} /\ ids[k] \in Nat
    BY <1>8 DEF Own
  <2>2. \A d : Step("crush", log, d, k) = CrushNormalized(d, log[k])
    BY ZenonT(60) DEF Step
  <2> HIDE DEF ids, n
  <2>3. ASSUME NEW d, GoodDraft(d, Upto(ids, k - 1)), Written(d.calls)
        PROVE  /\ GoodDraft(CrushNormalized(d, log[k]), Upto(ids, k))
               /\ Written(CrushNormalized(d, log[k]).calls)
    <3> DEFINE message == log[k]
               keys == Upto(ids, k)
               opened == Opened(d, message.id)
               counted == [d EXCEPT !.compactions = @ + 1]
               turn == d.active
               called == Called(d, turn, NoTokens)
               answered == CrushAnswered(d, message)
               used == ToolUsed(answered, turn, message.tools > 0)
    <3>1. GoodDraft(d, keys) /\ GoodDraft(opened, keys)
      BY <1>8, <2>1, <2>3, OpensNext, GoodNext
    <3>2. GoodDraft(counted, keys)
      BY <3>1, GoodCompacted
    <3>3. GoodDraft(answered, keys)
      <4>1. answered \in {Marked(called, turn, "aborted"), Marked(called, turn, "completed"), called}
        BY Zenon DEF CrushAnswered
      <4>2. GoodDraft(called, keys)
        BY <3>1, GoodCalled, NoTokensAre
      <4> HIDE DEF called, answered, turn, keys
      <4> QED
        BY <4>1, <4>2, GoodMarked DEF Statuses
    <3>4. GoodDraft(used, keys)
      <4> HIDE DEF answered
      <4> QED
        BY <3>3, GoodToolUsed
    <3>5. CrushNormalized(d, message) \in {opened, counted, used}
      <4>1. message.role \in {"user", "assistant"} /\ message.summary \in BOOLEAN
        BY <1>9
      <4>2. message.role = "user" \/ message.role = "assistant"
        BY <4>1
      <4>3. message.summary \/ ~message.summary
        BY <4>1
      <4> HIDE DEF message
      <4> QED
        BY <4>2, <4>3, Zenon DEF CrushNormalized
    <3>6. Written(called.calls) /\ "calls" \in DOMAIN called
      <4> DEFINE calls == d.calls
      <4>1. IsList(calls) /\ "calls" \in DOMAIN d
        BY <2>3 DEF GoodDraft, AreCalls
      <4>2. Written(Append(calls, [turn |-> turn, tokens |-> NoTokens]))
        <5> HIDE DEF calls, turn
        <5> QED
          BY <2>3, <4>1, OneMoreWritten DEF calls
      <4> QED
        BY <4>1, <4>2 DEF Called
    <3>7. opened.calls = d.calls /\ counted.calls = d.calls
      <4>1. "calls" \in DOMAIN d
        BY <2>3 DEF GoodDraft
      <4> QED
        BY <4>1 DEF Opened
    <3>8. used.calls = called.calls
      <4> HIDE DEF called, turn
      <4>1. answered.calls = called.calls /\ "calls" \in DOMAIN answered
        BY <3>6 DEF CrushAnswered, Marked, called, turn
      <4> HIDE DEF answered
      <4> QED
        BY <4>1 DEF ToolUsed
    <3> HIDE DEF opened, counted, used, called
    <3> QED
      BY <2>3, <3>1, <3>2, <3>4, <3>5, <3>6, <3>7, <3>8 DEF keys
  <2>4. \A d : Beside("crush", d) <=> Written(d.calls)
    BY Zenon DEF Beside
  <2> QED
    BY <2>1, <2>2, <2>3, <2>4 DEF KeepsGood
<1>11. ReadTo("crush", log, NoDraft, n, draft)
  BY <1>7, CrushReads
<1>12. GoodDraft(NoDraft, {}) /\ Beside("crush", NoDraft)
  <2>1. Written(NoDraft.calls)
    BY DEF Written, NoDraft
  <2>2. Beside("crush", NoDraft) <=> Written(NoDraft.calls)
    BY Zenon DEF Beside
  <2> QED
    BY <2>1, <2>2, GoodAtFirst
<1> HIDE DEF draft, ids, n
<1>13. GoodDraft(draft, Nat) /\ Written(draft.calls)
  <2>1. GoodDraft(draft, Nat) /\ Beside("crush", draft)
    BY <1>7, <1>10, <1>11, <1>12, ReadWhole
  <2>2. Beside("crush", draft) <=> Written(draft.calls)
    BY Zenon DEF Beside
  <2> QED
    BY <2>1, <2>2
<1>14. usage \in TokenRecords
  BY CrushTokens
<1> HIDE DEF usage
<1>15. GoodDraft(known, Nat) /\ Written(known.calls)
  <2> DEFINE called == Called(draft, 0, NoTokens)
             calls == draft.calls
  <2>1. IsList(calls) /\ "calls" \in DOMAIN draft
    BY <1>13 DEF GoodDraft, AreCalls
  <2>2. called.calls = Append(calls, [turn |-> 0, tokens |-> NoTokens])
    BY <2>1 DEF Called
  <2>3. GoodDraft(called, Nat)
    BY <1>13, GoodCalled, NoTokensAre
  <2>4. Written(calls)
    BY <1>13
  <2> HIDE DEF called, calls
  <2>5. Written(called.calls)
    BY <2>1, <2>2, <2>4, OneMoreWritten
  <2> QED
    BY <1>13, <2>3, <2>5 DEF called
<1> HIDE DEF known
<1>16. AreCalls(last)
  <2> DEFINE calls == known.calls
  <2>1. AreCalls(calls) /\ Written(calls)
    BY <1>15 DEF GoodDraft
  <2> HIDE DEF calls
  <2>2. AreCalls([calls EXCEPT ![Len(calls)].tokens = usage])
    BY <1>14, <2>1, LastCall
  <2> QED
    BY <2>2 DEF calls
<1> HIDE DEF last
<1>17. GoodDraft(whole, Nat)
  <2>1. GoodDraft([known EXCEPT !.calls = last], Nat)
    BY <1>15, <1>16, GoodOfCalls
  <2> QED
    BY <1>15, <2>1
<1> QED
  BY <1>5, <1>17 DEF RowsOfGood


(* The tokens of one more call count once. *)
LEMMA OneMoreCall ==
  ASSUME NEW calls, AreCalls(calls), NEW more, AreCalls(more), Len(more) = Len(calls) + 1,
         \A k \in 1..Len(calls) : more[k].tokens = calls[k].tokens
  PROVE  /\ TokensOf(more) = TokensOf(calls) + Total(more[Len(calls) + 1].tokens)
         /\ TokensOf(calls) \in Nat /\ TokensOf(more) \in Nat
<1> DEFINE n == Len(calls)
<1>1. n \in Nat /\ \A k \in 1..n + 1 : more[k].tokens \in TokenRecords
  BY DEF AreCalls, IsList
<1>2. PICK a : Counted(a, calls)
  BY Counting
<1>3. PICK b : Counted(b, more)
  BY Counting
<1>4. /\ TokensOf(calls) = a[n] /\ a[0] = 0 /\ \A k \in 1..n : a[k] = a[k - 1] + Total(calls[k].tokens)
      /\ TokensOf(more) = b[n + 1] /\ b[0] = 0
      /\ \A k \in 1..n + 1 : b[k] = b[k - 1] + Total(more[k].tokens)
  BY <1>2, <1>3 DEF Counted
<1>5. \A k \in 1..n : more[k].tokens = calls[k].tokens
  OBVIOUS
<1> HIDE DEF n
<1> DEFINE S == {k \in 0..n : a[k] = b[k] /\ a[k] \in Nat}
<1>6. 0 \in S
  BY <1>1, <1>4
<1>7. ASSUME NEW k \in 0..n - 1, k \in S PROVE k + 1 \in S
  <2>1. k + 1 \in 1..n /\ k + 1 \in 1..n + 1 /\ k + 1 \in 0..n /\ (k + 1) - 1 = k
    BY <1>1
  <2>2. a[k + 1] = a[k] + Total(calls[k + 1].tokens) /\ b[k + 1] = b[k] + Total(more[k + 1].tokens)
    BY <1>4, <2>1
  <2>3. Total(more[k + 1].tokens) \in Nat /\ more[k + 1].tokens = calls[k + 1].tokens
    BY <1>1, <1>5, <2>1, TotalIs
  <2>4. a[k] = b[k] /\ a[k] \in Nat
    BY <1>7
  <2> QED
    BY <2>1, <2>2, <2>3, <2>4
<1> HIDE DEF S
<1>8. n \in S
  <2>1. \A k \in 0..n : k \in S
    BY <1>1, <1>6, <1>7, Induction
  <2> QED
    BY <1>1, <2>1
<1>9. a[n] = b[n] /\ a[n] \in Nat
  BY <1>8 DEF S
<1>10. n + 1 \in 1..n + 1 /\ (n + 1) - 1 = n
  BY <1>1
<1>11. b[n + 1] = b[n] + Total(more[n + 1].tokens) /\ Total(more[n + 1].tokens) \in Nat
  BY <1>1, <1>4, <1>10, TotalIs
<1> QED
  BY <1>4, <1>9, <1>11 DEF n

LEMMA TokensAreNumbers ==
  ASSUME NEW calls, AreCalls(calls)
  PROVE  TokensOf(calls) \in Nat /\ (calls = <<>> => TokensOf(calls) = 0)
<1> DEFINE n == Len(calls)
<1>1. n \in Nat /\ \A k \in 1..n : calls[k].tokens \in TokenRecords
  BY DEF AreCalls, IsList
<1>2. PICK a : Counted(a, calls)
  BY Counting
<1>3. TokensOf(calls) = a[n] /\ a[0] = 0 /\ \A k \in 1..n : a[k] = a[k - 1] + Total(calls[k].tokens)
  BY <1>2 DEF Counted
<1>4. calls = <<>> => n = 0
  BY WrittenOut
<1> HIDE DEF n
<1> DEFINE S == {k \in 0..n : a[k] \in Nat}
<1>5. 0 \in S
  BY <1>1, <1>3
<1>6. ASSUME NEW k \in 0..n - 1, k \in S PROVE k + 1 \in S
  <2>1. k + 1 \in 1..n /\ k + 1 \in 0..n /\ (k + 1) - 1 = k /\ a[k] \in Nat
    BY <1>1, <1>6
  <2>2. a[k + 1] = a[k] + Total(calls[k + 1].tokens) /\ Total(calls[k + 1].tokens) \in Nat
    BY <1>1, <1>3, <2>1, TotalIs
  <2> QED
    BY <2>1, <2>2
<1> HIDE DEF S
<1>7. n \in S
  <2>1. \A k \in 0..n : k \in S
    BY <1>1, <1>5, <1>6, Induction
  <2> QED
    BY <1>1, <2>1
<1> QED
  BY <1>3, <1>4, <1>7 DEF S

(* Some of the calls used no more than all of them. *)
LEMMA PickedSpend ==
  ASSUME NEW calls, AreCalls(calls), NEW at
  PROVE  TokensOf(Those(calls, at)) <= TokensOf(calls)
<1> DEFINE n == Len(calls)
<1>1. n \in Nat /\ IsList(calls) /\ \A k \in 1..n : calls[k].tokens \in TokenRecords
  BY DEF AreCalls, IsList
<1>2. PICK f : Picks(f, calls, at)
  BY <1>1, Picking
<1>3. PICK g : Counted(g, calls)
  BY Counting
<1>4. /\ Those(calls, at) = f[n] /\ f[0] = <<>> /\ TokensOf(calls) = g[n] /\ g[0] = 0
      /\ \A k \in 1..n : /\ f[k] = IF k \in at THEN Append(f[k - 1], calls[k]) ELSE f[k - 1]
                         /\ g[k] = g[k - 1] + Total(calls[k].tokens)
  BY <1>2, <1>3 DEF Picks, Counted
<1> HIDE DEF n
<1> DEFINE S == {k \in 0..n : AreCalls(f[k]) /\ g[k] \in Nat /\ TokensOf(f[k]) <= g[k]}
<1>5. 0 \in S
  <2>1. AreCalls(<<>>)
    BY WrittenOut DEF AreCalls
  <2>2. TokensOf(<<>>) = 0
    BY <2>1, TokensAreNumbers
  <2> QED
    BY <1>1, <1>4, <2>1, <2>2
<1>6. ASSUME NEW k \in 0..n - 1, k \in S PROVE k + 1 \in S
  <2> DEFINE now == f[k]
             call == calls[k + 1]
             next == Append(now, call)
  <2>1. k + 1 \in 1..n /\ k + 1 \in 0..n /\ (k + 1) - 1 = k
    BY <1>1
  <2>2. AreCalls(now) /\ g[k] \in Nat /\ TokensOf(now) <= g[k] /\ TokensOf(now) \in Nat
    BY <1>6, TokensAreNumbers
  <2>3. call.tokens \in TokenRecords /\ Total(call.tokens) \in Nat
    BY <1>1, <2>1, UseIs
  <2>4. /\ f[k + 1] = IF k + 1 \in at THEN next ELSE now
        /\ g[k + 1] = g[k] + Total(call.tokens)
    BY <1>4, <2>1
  <2> HIDE DEF now, call
  <2>5. /\ IsList(next) /\ Len(next) = Len(now) + 1 /\ next[Len(now) + 1] = call
        /\ \A i \in 1..Len(now) : next[i] = now[i]
    BY <2>2, SameStarts DEF AreCalls
  <2> HIDE DEF next
  <2>6. AreCalls(next)
    <3>1. \A i \in 1..Len(next) : i \in 1..Len(now) \/ i = Len(now) + 1
      BY <2>2, <2>5 DEF AreCalls, IsList
    <3> QED
      BY <2>2, <2>3, <2>5, <3>1 DEF AreCalls
  <2>7. TokensOf(next) = TokensOf(now) + Total(call.tokens)
    BY <2>2, <2>5, <2>6, OneMoreCall
  <2> QED
    BY <2>1, <2>2, <2>3, <2>4, <2>6, <2>7
<1> HIDE DEF S
<1>7. \A k \in 0..n : k \in S
  BY <1>1, <1>5, <1>6, Induction
<1> QED
  BY <1>1, <1>4, <1>7 DEF S

(* What the facts at some places used, as it is without a limit. *)
UsesAt(f, places) == [k \in DOMAIN f |-> [tokens |-> IF k \in places THEN f[k].use ELSE NoTokens]]
SpentAt(f, places) == TokensOf(UsesAt(f, places))

LEMMA UsesAtAre ==
  ASSUME NEW f, Uses(f), NEW places
  PROVE  /\ AreCalls(UsesAt(f, places)) /\ Len(UsesAt(f, places)) = Len(f) /\ SpentAt(f, places) \in Nat
         /\ \A k \in 1..Len(f) : UsesAt(f, places)[k].tokens = IF k \in places THEN f[k].use ELSE NoTokens
         /\ Total(UsedAt(f, places)) = SpentAt(f, places)
<1> DEFINE calls == UsesAt(f, places)
<1>1. IsList(f) /\ Len(f) \in Nat /\ DOMAIN f = 1..Len(f) /\ \A k \in 1..Len(f) : f[k].use \in TokenRecords
  BY RecordsAre
<1>2. calls = [k \in DOMAIN f |-> calls[k]]
  BY DEF UsesAt
<1>3. \A k \in 1..Len(f) : calls[k].tokens = IF k \in places THEN f[k].use ELSE NoTokens
  BY <1>1 DEF UsesAt
<1>5. SpentAt(f, places) = TokensOf(calls)
  BY DEF SpentAt
<1> HIDE DEF calls
<1>6. IsList(calls) /\ Len(calls) = Len(f)
  BY <1>2, RecordsAre
<1>7. AreCalls(calls)
  BY <1>1, <1>3, <1>6, NoTokensAre DEF AreCalls
<1>8. Total(UsedAt(f, places)) = TokensOf(calls) /\ TokensOf(calls) \in Nat
  <2> DEFINE n == Len(f)
             More(k) == IF k \in places THEN f[k].use ELSE NoTokens
  <2>1. n \in Nat /\ \A k \in 1..n : More(k) \in TokenRecords
    BY <1>1, NoTokensAre
  <2>2. PICK u : Accrues(u, f, places)
    BY Accruing
  <2>3. PICK g : Counted(g, calls)
    BY <1>7, Counting
  <2>4. /\ UsedAt(f, places) = u[n] /\ u[0] = NoTokens /\ TokensOf(calls) = g[n] /\ g[0] = 0
        /\ \A k \in 1..n : u[k] = Plus(u[k - 1], More(k)) /\ g[k] = g[k - 1] + Total(More(k))
        /\ \A k \in 0..n : u[k] \in TokenRecords
    BY <1>3, <1>6, <2>2, <2>3 DEF Accrues, Counted
  <2>5. Total(NoTokens) = 0
    BY DEF NoTokens, Total, InputOf, OutputOf
  <2> HIDE DEF n, More
  <2> DEFINE S == {k \in 0..n : Total(u[k]) = g[k]}
  <2>6. 0 \in S
    BY <2>1, <2>4, <2>5
  <2>7. ASSUME NEW k \in 0..n - 1, k \in S PROVE k + 1 \in S
    <3>1. k + 1 \in 1..n /\ k + 1 \in 0..n /\ (k + 1) - 1 = k /\ k \in 0..n
      BY <2>1
    <3>2. u[k + 1] = Plus(u[k], More(k + 1)) /\ g[k + 1] = g[k] + Total(More(k + 1)) /\ Total(u[k]) = g[k]
      BY <2>4, <2>7, <3>1
    <3>3. Total(u[k + 1]) = Total(u[k]) + Total(More(k + 1))
      BY <2>1, <2>4, <3>1, <3>2, PlusIs
    <3> QED
      BY <3>1, <3>2, <3>3
  <2> HIDE DEF S
  <2>8. \A k \in 0..n : k \in S
    BY <2>1, <2>6, <2>7, Induction
  <2> QED
    BY <1>7, <2>1, <2>4, <2>8, TokensAreNumbers DEF S
<1> QED
  BY <1>3, <1>5, <1>6, <1>7, <1>8 DEF calls

(* Facts at different places used the sum of what each used, *)
LEMMA SpentApart ==
  ASSUME NEW f, Uses(f), NEW A, NEW B, A \cap B = {}
  PROVE  SpentAt(f, A \cup B) = SpentAt(f, A) + SpentAt(f, B)
<1> DEFINE n == Len(f)
           ua == UsesAt(f, A)
           ub == UsesAt(f, B)
           uc == UsesAt(f, A \cup B)
<1>1. n \in Nat /\ \A k \in 1..n : f[k].use \in TokenRecords
  BY RecordsAre
<1>2. /\ AreCalls(ua) /\ Len(ua) = n /\ \A k \in 1..n : ua[k].tokens = IF k \in A THEN f[k].use ELSE NoTokens
      /\ AreCalls(ub) /\ Len(ub) = n /\ \A k \in 1..n : ub[k].tokens = IF k \in B THEN f[k].use ELSE NoTokens
      /\ AreCalls(uc) /\ Len(uc) = n
      /\ \A k \in 1..n : uc[k].tokens = IF k \in A \cup B THEN f[k].use ELSE NoTokens
  BY UsesAtAre
<1>3. /\ SpentAt(f, A) = TokensOf(ua) /\ SpentAt(f, B) = TokensOf(ub)
      /\ SpentAt(f, A \cup B) = TokensOf(uc)
  BY DEF SpentAt
<1> HIDE DEF ua, ub, uc, n
<1>4. (\E a : Counted(a, ua)) /\ (\E b : Counted(b, ub)) /\ (\E c : Counted(c, uc))
  BY <1>2, Counting
<1>5. PICK a : Counted(a, ua)
  BY <1>4
<1>6. PICK b : Counted(b, ub)
  BY <1>4
<1>7. PICK c : Counted(c, uc)
  BY <1>4
<1>8. /\ TokensOf(ua) = a[n] /\ a[0] = 0 /\ \A k \in 1..n : a[k] = a[k - 1] + Total(ua[k].tokens)
      /\ TokensOf(ub) = b[n] /\ b[0] = 0 /\ \A k \in 1..n : b[k] = b[k - 1] + Total(ub[k].tokens)
      /\ TokensOf(uc) = c[n] /\ c[0] = 0 /\ \A k \in 1..n : c[k] = c[k - 1] + Total(uc[k].tokens)
  BY <1>2, <1>5, <1>6, <1>7 DEF Counted
<1> DEFINE S == {k \in 0..n : a[k] \in Nat /\ b[k] \in Nat /\ c[k] = a[k] + b[k]}
<1>9. 0 \in S
  BY <1>1, <1>8
<1>10. ASSUME NEW k \in 0..n - 1, k \in S PROVE k + 1 \in S
  <2>1. k + 1 \in 1..n /\ k + 1 \in 0..n /\ (k + 1) - 1 = k
    BY <1>1
  <2>2. a[k] \in Nat /\ b[k] \in Nat /\ c[k] = a[k] + b[k]
    BY <1>10
  <2> DEFINE w == Total(f[k + 1].use)
             at == Total(ua[k + 1].tokens)
             bt == Total(ub[k + 1].tokens)
             ct == Total(uc[k + 1].tokens)
  <2>3. a[k + 1] = a[k] + at /\ b[k + 1] = b[k] + bt /\ c[k + 1] = c[k] + ct
    BY <1>8, <2>1
  <2>4. w \in Nat /\ Total(NoTokens) = 0
    BY <1>1, <2>1, TotalIs DEF NoTokens, Total, InputOf, OutputOf
  <2>5. /\ at = IF k + 1 \in A THEN w ELSE 0
        /\ bt = IF k + 1 \in B THEN w ELSE 0
        /\ ct = IF k + 1 \in A \cup B THEN w ELSE 0
    BY <1>2, <2>1, <2>4
  <2> HIDE DEF w, at, bt, ct
  <2>6. at \in Nat /\ bt \in Nat /\ ct = at + bt
    BY <2>4, <2>5
  <2> QED
    BY <2>1, <2>2, <2>3, <2>6
<1> HIDE DEF S
<1>11. n \in S
  <2>1. \A k \in 0..n : k \in S
    BY <1>1, <1>9, <1>10, Induction
  <2> QED
    BY <1>1, <2>1
<1> QED
  BY <1>3, <1>8, <1>11 DEF S

(* and some of them no more than all. *)
LEMMA SpentBelow ==
  ASSUME NEW f, Uses(f), NEW A, NEW B, A \subseteq B
  PROVE  SpentAt(f, A) <= SpentAt(f, B) /\ SpentAt(f, A) \in Nat /\ SpentAt(f, B) \in Nat
<1> DEFINE C == B \ A
<1>1. A \cap C = {} /\ A \cup C = B
  OBVIOUS
<1> HIDE DEF C
<1>2. SpentAt(f, A \cup C) = SpentAt(f, A) + SpentAt(f, C)
  BY <1>1, SpentApart
<1>3. SpentAt(f, A) \in Nat /\ SpentAt(f, C) \in Nat /\ SpentAt(f, B) \in Nat
  BY UsesAtAre
<1> QED
  BY <1>1, <1>2, <1>3


(* Grok Build reads its two files so, *)
LEMMA GrokUpdatesReads ==
  ASSUME NEW start, NEW log, Len(log) \in Nat
  PROVE  ReadTo("grok", log, start, Len(log), Drafted(GrokUpdated, start, log))
<1> DEFINE n == Len(log)
           Is(f) == f = [k \in 0..n |-> IF k = 0 THEN start ELSE GrokUpdated(f[k - 1], log[k])]
<1>1. Drafted(GrokUpdated, start, log) = (CHOOSE f : Is(f))[n]
  BY DEF Drafted
<1>2. \A f, k : Step("grok", log, f[k - 1], k) = GrokUpdated(f[k - 1], log[k])
  BY ZenonT(60) DEF Step
<1> HIDE DEF n
<1>3. \A f : Is(f) <=> ReadsOn(f, "grok", log, start, n)
  BY <1>2 DEF ReadsOn
<1>4. \E f : ReadsOn(f, "grok", log, start, n)
  BY ReadOn DEF n
<1> HIDE DEF Is
<1> QED
  BY <1>1, <1>3, <1>4 DEF ReadTo, n

LEMMA GrokEventsReads ==
  ASSUME NEW start, NEW log, Len(log) \in Nat
  PROVE  ReadTo("grok events", log, start, Len(log), Drafted(GrokStarted, start, log))
<1> DEFINE n == Len(log)
           Is(f) == f = [k \in 0..n |-> IF k = 0 THEN start ELSE GrokStarted(f[k - 1], log[k])]
<1>1. Drafted(GrokStarted, start, log) = (CHOOSE f : Is(f))[n]
  BY DEF Drafted
<1>2. \A f, k : Step("grok events", log, f[k - 1], k) = GrokStarted(f[k - 1], log[k])
  BY ZenonT(60) DEF Step
<1> HIDE DEF n
<1>3. \A f : Is(f) <=> ReadsOn(f, "grok events", log, start, n)
  BY <1>2 DEF ReadsOn
<1>4. \E f : ReadsOn(f, "grok events", log, start, n)
  BY ReadOn DEF n
<1> HIDE DEF Is
<1> QED
  BY <1>1, <1>3, <1>4 DEF ReadTo, n

LEMMA GrokTerminalsReads ==
  ASSUME NEW start, NEW log, Len(log) \in Nat
  PROVE  ReadTo("grok terminals", log, start, Len(log), Drafted(GrokTold, start, log))
<1> DEFINE n == Len(log)
           Is(f) == f = [k \in 0..n |-> IF k = 0 THEN start ELSE GrokTold(f[k - 1], log[k])]
<1>1. Drafted(GrokTold, start, log) = (CHOOSE f : Is(f))[n]
  BY DEF Drafted
<1>2. \A f, k : Step("grok terminals", log, f[k - 1], k) = GrokTold(f[k - 1], log[k])
  BY ZenonT(60) DEF Step
<1> HIDE DEF n
<1>3. \A f : Is(f) <=> ReadsOn(f, "grok terminals", log, start, n)
  BY <1>2 DEF ReadsOn
<1>4. \E f : ReadsOn(f, "grok terminals", log, start, n)
  BY ReadOn DEF n
<1> HIDE DEF Is
<1> QED
  BY <1>1, <1>3, <1>4 DEF ReadTo, n

LEMMA GrokMetadataReads ==
  ASSUME NEW start, NEW log, Len(log) \in Nat
  PROVE  ReadTo("grok metadata", log, start, Len(log), Drafted(GrokMetadata, start, log))
<1> DEFINE n == Len(log)
           Is(f) == f = [k \in 0..n |-> IF k = 0 THEN start ELSE GrokMetadata(f[k - 1], log[k])]
<1>1. Drafted(GrokMetadata, start, log) = (CHOOSE f : Is(f))[n]
  BY DEF Drafted
<1>2. \A f, k : Step("grok metadata", log, f[k - 1], k) = GrokMetadata(f[k - 1], log[k])
  BY ZenonT(60) DEF Step
<1> HIDE DEF n
<1>3. \A f : Is(f) <=> ReadsOn(f, "grok metadata", log, start, n)
  BY <1>2 DEF ReadsOn
<1>4. \E f : ReadsOn(f, "grok metadata", log, start, n)
  BY ReadOn DEF n
<1> HIDE DEF Is
<1> QED
  BY <1>1, <1>3, <1>4 DEF ReadTo, n

(* takes the turns one by one, *)
AppliedTo(terminals, start, turns) ==
  Drafted(LAMBDA sofar, turn : GrokApplied(terminals, sofar, turn), start, turns)

ChargedTo(terminals, start, turns) ==
  Drafted(LAMBDA draft, turn : GrokCharged(terminals, draft, turn), start, turns)

LEMMA GrokEndsReads ==
  ASSUME NEW terminals, NEW start, NEW turns, IsList(turns)
  PROVE  ReadTo("grok ends", terminals, start, Len(turns),
                AppliedTo(terminals, start, [t \in DOMAIN turns |-> t]))
<1> DEFINE n == Len(turns)
           places == [t \in DOMAIN turns |-> t]
           Was(f) == f = [k \in 0..Len(places) |-> IF k = 0 THEN start ELSE GrokApplied(terminals, f[k - 1], places[k])]
           Is(f) == f = [k \in 0..n |-> IF k = 0 THEN start ELSE GrokApplied(terminals, f[k - 1], k)]
<1>1. AppliedTo(terminals, start, [t \in DOMAIN turns |-> t]) = (CHOOSE f : Was(f))[Len(places)]
  BY DEF AppliedTo, Drafted
<1>2. n \in Nat /\ DOMAIN turns = 1..n
  BY DEF IsList
<1>3. Len(places) = n /\ \A k \in 1..n : places[k] = k
  BY <1>2
<1>4. \A f : Is(f) <=> f = [k \in 0..n |-> IF k = 0 THEN start ELSE Step("grok ends", terminals, f[k - 1], k)]
  <2>1. \A f, k : Step("grok ends", terminals, f[k - 1], k) = GrokApplied(terminals, f[k - 1], k)
    BY ZenonT(60) DEF Step
  <2> HIDE DEF n
  <2> QED
    BY <2>1
<1>5. \A f : Was(f) <=> Is(f)
  <2> HIDE DEF n, places
  <2> TAKE f
  <2>1. \A k \in 0..n : k = 0 \/ k \in 1..n
    BY <1>2
  <2>2. [k \in 0..n |-> IF k = 0 THEN start ELSE GrokApplied(terminals, f[k - 1], places[k])]
          = [k \in 0..n |-> IF k = 0 THEN start ELSE GrokApplied(terminals, f[k - 1], k)]
    BY <1>3, <2>1
  <2> QED
    BY <1>3, <2>2
<1> HIDE DEF n, places
<1>6. \A f : Is(f) <=> ReadsOn(f, "grok ends", terminals, start, n)
  BY <1>4 DEF ReadsOn
<1>7. \E f : ReadsOn(f, "grok ends", terminals, start, n)
  BY <1>2, ReadOn
<1> HIDE DEF Is, Was
<1>8. (CHOOSE f : Was(f)) = (CHOOSE f : Is(f))
  BY <1>5
<1> QED
  BY <1>1, <1>3, <1>6, <1>7, <1>8 DEF ReadTo, n

LEMMA GrokCallsReads ==
  ASSUME NEW terminals, NEW start, NEW turns, IsList(turns)
  PROVE  ReadTo("grok calls", terminals, start, Len(turns),
                ChargedTo(terminals, start, [t \in DOMAIN turns |-> t]))
<1> DEFINE n == Len(turns)
           places == [t \in DOMAIN turns |-> t]
           Was(f) == f = [k \in 0..Len(places) |-> IF k = 0 THEN start ELSE GrokCharged(terminals, f[k - 1], places[k])]
           Is(f) == f = [k \in 0..n |-> IF k = 0 THEN start ELSE GrokCharged(terminals, f[k - 1], k)]
<1>1. ChargedTo(terminals, start, [t \in DOMAIN turns |-> t]) = (CHOOSE f : Was(f))[Len(places)]
  BY DEF ChargedTo, Drafted
<1>2. n \in Nat /\ DOMAIN turns = 1..n
  BY DEF IsList
<1>3. Len(places) = n /\ \A k \in 1..n : places[k] = k
  BY <1>2
<1>4. \A f : Is(f) <=> f = [k \in 0..n |-> IF k = 0 THEN start ELSE Step("grok calls", terminals, f[k - 1], k)]
  <2>1. \A f, k : Step("grok calls", terminals, f[k - 1], k) = GrokCharged(terminals, f[k - 1], k)
    BY ZenonT(60) DEF Step
  <2> HIDE DEF n
  <2> QED
    BY <2>1
<1>5. \A f : Was(f) <=> Is(f)
  <2> HIDE DEF n, places
  <2> TAKE f
  <2>1. \A k \in 0..n : k = 0 \/ k \in 1..n
    BY <1>2
  <2>2. [k \in 0..n |-> IF k = 0 THEN start ELSE GrokCharged(terminals, f[k - 1], places[k])]
          = [k \in 0..n |-> IF k = 0 THEN start ELSE GrokCharged(terminals, f[k - 1], k)]
    BY <1>3, <2>1
  <2> QED
    BY <1>3, <2>2
<1> HIDE DEF n, places
<1>6. \A f : Is(f) <=> ReadsOn(f, "grok calls", terminals, start, n)
  BY <1>4 DEF ReadsOn
<1>7. \E f : ReadsOn(f, "grok calls", terminals, start, n)
  BY <1>2, ReadOn
<1> HIDE DEF Is, Was
<1>8. (CHOOSE f : Was(f)) = (CHOOSE f : Is(f))
  BY <1>5
<1> QED
  BY <1>1, <1>3, <1>6, <1>7, <1>8 DEF ReadTo, n

(* and adds up the calls. *)
LEMMA GrokTotalReads ==
  ASSUME NEW calls, Len(calls) \in Nat
  PROVE  ReadTo("grok total", calls, NoTokens, Len(calls), GrokTotal(calls))
<1> DEFINE n == Len(calls)
           Is(f) == f = [k \in 0..n |-> IF k = 0 THEN NoTokens ELSE GrokAddEach(f[k - 1], calls[k].tokens)]
<1>1. GrokTotal(calls) = (CHOOSE f : Is(f))[n]
  BY DEF GrokTotal, Drafted
<1>2. \A f, k : Step("grok total", calls, f[k - 1], k) = GrokAddEach(f[k - 1], calls[k].tokens)
  BY ZenonT(60) DEF Step
<1> HIDE DEF n
<1>3. \A f : Is(f) <=> ReadsOn(f, "grok total", calls, NoTokens, n)
  BY <1>2 DEF ReadsOn
<1>4. \E f : ReadsOn(f, "grok total", calls, NoTokens, n)
  BY ReadOn DEF n
<1> HIDE DEF Is
<1> QED
  BY <1>1, <1>3, <1>4 DEF ReadTo, n


(* Counters that have room do not reach their limit, *)
LEMMA GrokAdds ==
  ASSUME NEW target \in TokenRecords, NEW tokens \in TokenRecords, Total(target) + Total(tokens) <= MaxBigint
  PROVE  /\ GrokAddEach(target, tokens) \in TokenRecords
         /\ Total(GrokAddEach(target, tokens)) = Total(target) + Total(tokens)
<1> DEFINE sum == GrokAddEach(target, tokens)
<1>1. /\ target[1] \in Nat /\ target[2] \in Nat /\ target[3] \in Nat
      /\ target[4] \in Nat /\ target[5] \in Nat /\ target[6] \in Nat
      /\ tokens[1] \in Nat /\ tokens[2] \in Nat /\ tokens[3] \in Nat
      /\ tokens[4] \in Nat /\ tokens[5] \in Nat /\ tokens[6] \in Nat
  BY DEF TokenRecords
<1>2. Sum6(target) + Sum6(tokens) <= MaxBigint
  BY TotalIs
<1>3. MaxBigint \in Nat
  BY MaxBigintAssumption
<1>4. DOMAIN target = 1..6
  BY DEF TokenRecords
<1>5. sum = <<target[1] + tokens[1], target[2] + tokens[2], target[3] + tokens[3],
              target[4] + tokens[4], target[5] + tokens[5], target[6] + tokens[6]>>
  <2>1. \A k \in 1..6 : Bounded(target[k] + tokens[k]) = target[k] + tokens[k]
    <3>1. \A k \in 1..6 : k \in {1, 2, 3, 4, 5, 6}
      OBVIOUS
    <3>2. /\ target[1] + tokens[1] <= MaxBigint /\ target[2] + tokens[2] <= MaxBigint
          /\ target[3] + tokens[3] <= MaxBigint /\ target[4] + tokens[4] <= MaxBigint
          /\ target[5] + tokens[5] <= MaxBigint /\ target[6] + tokens[6] <= MaxBigint
      BY <1>1, <1>2, <1>3 DEF Sum6
    <3>3. \A k \in 1..6 : target[k] + tokens[k] <= MaxBigint /\ target[k] + tokens[k] \in Nat
      BY <1>1, <3>1, <3>2
    <3> QED
      BY <1>3, <3>3 DEF Bounded
  <2>2. sum = [k \in 1..6 |-> target[k] + tokens[k]]
    BY <1>4, <2>1 DEF GrokAddEach
  <2> HIDE DEF sum
  <2> QED
    BY <1>1, <2>2
<1> HIDE DEF sum
<1>6. sum \in TokenRecords
  BY <1>1, <1>5 DEF TokenRecords
<1>7. Sum6(sum) = Sum6(target) + Sum6(tokens)
  BY <1>1, <1>5 DEF Sum6
<1>8. sum \in TokenRecords /\ Total(sum) = Total(target) + Total(tokens)
  BY <1>6, <1>7, TotalIs
<1> QED
  BY <1>8 DEF sum

(* and add up to what the calls used. *)
LEMMA GrokTotalIs ==
  ASSUME NEW calls, AreCalls(calls), TokensOf(calls) <= MaxBigint
  PROVE  Total(GrokTotal(calls)) = AllTokens(calls)
<1> DEFINE n == Len(calls)
<1>1. n \in Nat /\ \A k \in 1..n : calls[k].tokens \in TokenRecords
  BY DEF AreCalls, IsList
<1>2. PICK c : Counted(c, calls)
  BY Counting
<1>3. /\ TokensOf(calls) = c[n] /\ AllTokens(calls) = Bounded(c[n])
      /\ c[0] = 0 /\ \A k \in 1..n : c[k] = c[k - 1] + Total(calls[k].tokens)
  BY <1>2 DEF Counted
<1>4. PICK f : ReadsOn(f, "grok total", calls, NoTokens, n) /\ GrokTotal(calls) = f[n]
  BY <1>1, GrokTotalReads DEF ReadTo
<1>5. f[0] = NoTokens /\ \A k \in 1..n : f[k] = GrokAddEach(f[k - 1], calls[k].tokens)
  <2>1. \A k \in 0..n : f[k] = IF k = 0 THEN NoTokens ELSE Step("grok total", calls, f[k - 1], k)
    BY <1>4 DEF ReadsOn
  <2>2. \A k : Step("grok total", calls, f[k - 1], k) = GrokAddEach(f[k - 1], calls[k].tokens)
    BY ZenonT(60) DEF Step
  <2>3. 0 \in 0..n /\ \A k \in 1..n : k \in 0..n /\ k # 0
    BY <1>1
  <2> HIDE DEF n
  <2> QED
    BY <2>1, <2>2, <2>3
<1>6. c[n] <= MaxBigint /\ MaxBigint \in Nat
  BY <1>3, MaxBigintAssumption
<1> HIDE DEF n
<1> DEFINE S == {k \in 0..n : /\ c[k] \in Nat
                              /\ c[k] <= MaxBigint => f[k] \in TokenRecords /\ Total(f[k]) = c[k]}
<1>7. 0 \in S
  <2>1. NoTokens \in TokenRecords /\ Total(NoTokens) = 0
    BY NoTokensAre DEF NoTokens, Total, InputOf, OutputOf
  <2> QED
    BY <1>1, <1>3, <1>5, <2>1
<1>8. ASSUME NEW k \in 0..n - 1, k \in S PROVE k + 1 \in S
  <2>1. k + 1 \in 1..n /\ k + 1 \in 0..n /\ (k + 1) - 1 = k
    BY <1>1
  <2> DEFINE more == calls[k + 1].tokens
  <2>2. c[k + 1] = c[k] + Total(more) /\ more \in TokenRecords /\ f[k + 1] = GrokAddEach(f[k], more)
    BY <1>1, <1>3, <1>5, <2>1
  <2>3. c[k] \in Nat /\ (c[k] <= MaxBigint => f[k] \in TokenRecords /\ Total(f[k]) = c[k])
    BY <1>8
  <2> HIDE DEF more
  <2>4. Total(more) \in Nat
    BY <2>2, TotalIs
  <2>5. ASSUME c[k + 1] <= MaxBigint PROVE f[k + 1] \in TokenRecords /\ Total(f[k + 1]) = c[k + 1]
    <3>1. c[k] <= MaxBigint
      BY <1>6, <2>2, <2>3, <2>4, <2>5
    <3>2. f[k] \in TokenRecords /\ Total(f[k]) + Total(more) <= MaxBigint
      BY <2>2, <2>3, <2>5, <3>1
    <3> QED
      BY <2>2, <2>3, <3>1, <3>2, GrokAdds
  <2> QED
    BY <2>1, <2>2, <2>3, <2>4, <2>5
<1> HIDE DEF S
<1>9. n \in S
  <2>1. \A k \in 0..n : k \in S
    BY <1>1, <1>7, <1>8, Induction
  <2> QED
    BY <1>1, <2>1
<1>10. Total(f[n]) = c[n] /\ c[n] \in Nat
  BY <1>6, <1>9 DEF S
<1>11. Bounded(c[n]) = c[n]
  BY <1>6, <1>10 DEF Bounded
<1> QED
  BY <1>3, <1>4, <1>10, <1>11


(* The turn of a key, *)
LEMMA TurnIs ==
  ASSUME NEW draft, GoodDraft(draft, Nat), NEW key
  PROVE  /\ TurnOf(draft, key) \in Nat
         /\ TurnOf(draft, key) = 0 => \A i \in 1..Len(draft.turns) : draft.turns[i].key # key
<1> DEFINE found == {i \in DOMAIN draft.turns : draft.turns[i].key = key}
<1>1. DOMAIN draft.turns = 1..Len(draft.turns) /\ Len(draft.turns) \in Nat
  <2> DEFINE T == [key : Nat, status : Statuses]
  <2>1. draft.turns \in Seq(T)
    BY DEF GoodDraft
  <2> HIDE DEF T
  <2> QED
    BY <2>1
<1>2. TurnOf(draft, key) = IF found = {} THEN 0 ELSE Min(found)
  BY DEF TurnOf
<1>3. CASE found = {}
  BY <1>1, <1>2, <1>3
<1>4. CASE found # {}
  <2>1. found \subseteq Nat /\ 0 \notin found
    BY <1>1
  <2> HIDE DEF found
  <2>2. Min(found) \in found
    BY <1>4, <2>1, MinIs
  <2> QED
    BY <1>2, <1>4, <2>1, <2>2
<1> QED
  BY <1>3, <1>4

(* A draft that has no call yet, *)
Uncalled(draft) == GoodDraft(draft, Nat) /\ draft.calls = <<>>

(* still has none when a turn is opened or marked, or a tool is used. *)
LEMMA UncalledStill ==
  ASSUME NEW draft, Uncalled(draft)
  PROVE  /\ \A key : key \in Nat /\ TurnOf(draft, key) = 0 => Uncalled(Opened(draft, key))
         /\ \A turn : \A status \in Statuses : Uncalled(Marked(draft, turn, status))
         /\ \A turn : Uncalled(ToolUsed(draft, turn, TRUE))
         /\ \A field : field \notin {"turns", "calls"} => \A v : Uncalled([draft EXCEPT ![field] = v])
<1>1. GoodDraft(draft, Nat) /\ draft.calls = <<>> /\ "calls" \in DOMAIN draft
  BY DEF Uncalled, GoodDraft
<1>2. ASSUME NEW key, key \in Nat, TurnOf(draft, key) = 0 PROVE Uncalled(Opened(draft, key))
  <2>1. \A i \in 1..Len(draft.turns) : draft.turns[i].key # key
    BY <1>1, <1>2, TurnIs
  <2>2. Nat \cup {key} \subseteq Nat
    BY <1>2
  <2>3. GoodDraft(Opened(draft, key), Nat)
    BY <1>1, <1>2, <2>1, <2>2, GoodOpened
  <2>4. Opened(draft, key).calls = <<>>
    BY <1>1 DEF Opened
  <2> QED
    BY <2>3, <2>4 DEF Uncalled
<1>3. ASSUME NEW turn, NEW status \in Statuses PROVE Uncalled(Marked(draft, turn, status))
  <2>1. GoodDraft(Marked(draft, turn, status), Nat)
    BY <1>1, GoodMarked
  <2>2. Marked(draft, turn, status).calls = <<>>
    BY <1>1 DEF Marked
  <2> QED
    BY <2>1, <2>2 DEF Uncalled
<1>4. ASSUME NEW turn PROVE Uncalled(ToolUsed(draft, turn, TRUE))
  <2>1. GoodDraft(ToolUsed(draft, turn, TRUE), Nat)
    BY <1>1, GoodToolUsed
  <2>2. ToolUsed(draft, turn, TRUE).calls = <<>>
    BY <1>1 DEF ToolUsed
  <2> QED
    BY <2>1, <2>2 DEF Uncalled
<1>5. ASSUME NEW field, field \notin {"turns", "calls"}, NEW v PROVE Uncalled([draft EXCEPT ![field] = v])
  <2>1. GoodDraft([draft EXCEPT ![field] = v], Nat)
    BY <1>1, <1>5, GoodBeside
  <2>2. [draft EXCEPT ![field] = v].calls = <<>>
    BY <1>1, <1>5
  <2> QED
    BY <2>1, <2>2 DEF Uncalled
<1> QED
  BY <1>2, <1>3, <1>4, <1>5

(* An end that was told of a turn says what the turn had used by then. *)
GrokTells(f, end) == \E i \in 1..Len(f) : end.prompt = f[i].turn /\ end.usage \in {{}, {GrokUsed(f, i)}}

(* The facts of the first turns. *)
OfTurns(f, turns, k) == {j \in 1..Len(f) : \E t \in 1..k : f[j].turn = turns[t].key}

(* What holds while Grok Build is read: of the turns, of the ends and of the calls. *)
Holding(tool, f, start, k, draft) ==
  CASE tool \in {"grok", "grok events", "grok metadata"} -> Uncalled(draft)
    [] tool = "grok ends" -> Uncalled(draft.draft)
    [] tool = "grok terminals" -> IsList(draft) /\ \A p \in 1..Len(draft) : GrokTells(f, draft[p])
    [] tool = "grok calls" -> /\ GoodDraft(draft, Nat) /\ draft.turns = start.turns
                              /\ TokensOf(draft.calls) <= SpentAt(f, OfTurns(f, start.turns, k))

LEMMA ReadHolding ==
  ASSUME NEW tool, NEW log, NEW start, NEW n \in Nat, NEW draft, ReadTo(tool, log, start, n, draft),
         NEW f, Holding(tool, f, start, 0, start),
         \A k \in 1..n : \A d : Holding(tool, f, start, k - 1, d)
                                  => Holding(tool, f, start, k, Step(tool, log, d, k))
  PROVE  Holding(tool, f, start, n, draft)
<1>1. PICK g : ReadsOn(g, tool, log, start, n) /\ draft = g[n]
  BY DEF ReadTo
<1>2. \A k \in 0..n : g[k] = IF k = 0 THEN start ELSE Step(tool, log, g[k - 1], k)
  BY <1>1 DEF ReadsOn
<1> DEFINE S == {k \in 0..n : Holding(tool, f, start, k, g[k])}
<1>3. 0 \in S
  BY <1>2
<1>4. ASSUME NEW k \in 0..n - 1, k \in S PROVE k + 1 \in S
  <2>1. k + 1 \in 1..n /\ k + 1 \in 0..n /\ (k + 1) - 1 = k /\ k + 1 # 0
    OBVIOUS
  <2>2. g[k + 1] = Step(tool, log, g[k], k + 1)
    BY <1>2, <2>1
  <2>3. Holding(tool, f, start, (k + 1) - 1, g[k])
    BY <1>4, <2>1
  <2>4. Holding(tool, f, start, k + 1, Step(tool, log, g[k], k + 1))
    BY <2>1, <2>3
  <2> QED
    BY <2>1, <2>2, <2>4
<1> HIDE DEF S
<1>5. \A k \in 0..n : k \in S
  BY <1>3, <1>4, Induction
<1> QED
  BY <1>1, <1>5 DEF S

(* An update that Grok Build writes. *)
GrokWrites(f, update) ==
  /\ update.type = "user_message_chunk" => update.prompt \in Nat
  /\ update.type = "turn_completed" => GrokTells(f, update)

(* The turns that the updates open, *)
LEMMA GrokUpdatesOpen ==
  ASSUME NEW f, NEW updates, Len(updates) \in Nat, \A k \in 1..Len(updates) : GrokWrites(f, updates[k])
  PROVE  Uncalled(Drafted(GrokUpdated, NoDraft, updates))
<1> DEFINE n == Len(updates)
           told == Drafted(GrokUpdated, NoDraft, updates)
<1>1. ReadTo("grok", updates, NoDraft, n, told)
  BY GrokUpdatesReads
<1>2. \A k, d : Holding("grok", f, NoDraft, k, d) <=> Uncalled(d)
  BY Zenon DEF Holding
<1>3. Uncalled(NoDraft)
  BY GoodAtFirst DEF Uncalled, NoDraft
<1>4. ASSUME NEW k \in 1..n, NEW d, Uncalled(d) PROVE Uncalled(Step("grok", updates, d, k))
  <2> DEFINE update == updates[k]
             prompt == update.prompt
             turn == TurnOf(d, prompt)
             v == d.compactions + 1
  <2>1. Step("grok", updates, d, k) = GrokUpdated(d, update)
    BY ZenonT(60) DEF Step
  <2>2. update.type = "user_message_chunk" => prompt \in Nat
    BY DEF GrokWrites
  <2>3. turn \in Nat
    BY <1>4, TurnIs DEF Uncalled
  <2>4. "active" \notin {"turns", "calls"} /\ "compactions" \notin {"turns", "calls"}
    OBVIOUS
  <2>5. Uncalled([d EXCEPT !["active"] = turn]) /\ Uncalled([d EXCEPT !["compactions"] = v])
    BY <1>4, <2>4, UncalledStill
  <2>6. prompt \in Nat /\ turn = 0 => Uncalled(Opened(d, prompt))
    BY <1>4, UncalledStill
  <2>7. \/ update.type = "auto_compact_completed" /\ GrokUpdated(d, update) = [d EXCEPT !["compactions"] = v]
        \/ update.type = "user_message_chunk" /\ turn > 0 /\ GrokUpdated(d, update) = [d EXCEPT !["active"] = turn]
        \/ update.type = "user_message_chunk" /\ turn = 0 /\ GrokUpdated(d, update) = Opened(d, prompt)
        \/ GrokUpdated(d, update) = d
    <3>1. CASE update.type = "auto_compact_completed"
      BY <3>1, Zenon DEF GrokUpdated
    <3>2. CASE update.type = "user_message_chunk" /\ turn > 0
      <4>1. update.type # "auto_compact_completed" /\ turn # 0
        BY <2>3, <3>2
      <4> QED
        BY <3>2, <4>1, Zenon DEF GrokUpdated
    <3>3. CASE update.type = "user_message_chunk" /\ turn = 0
      <4>1. update.type # "auto_compact_completed" /\ ~(turn > 0)
        BY <3>3
      <4> QED
        BY <3>3, <4>1, Zenon DEF GrokUpdated
    <3>4. CASE update.type \notin {"user_message_chunk", "auto_compact_completed"}
      BY <3>4, Zenon DEF GrokUpdated
    <3> HIDE DEF update, turn, prompt, v
    <3> QED
      BY <2>3, <3>1, <3>2, <3>3, <3>4
  <2> HIDE DEF update, turn, prompt, v
  <2> QED
    BY <1>4, <2>1, <2>2, <2>5, <2>6, <2>7
<1> HIDE DEF told, n
<1>5. Holding("grok", f, NoDraft, n, told)
  <2>1. n \in Nat
    BY DEF n
  <2>2. Holding("grok", f, NoDraft, 0, NoDraft)
    BY <1>2, <1>3
  <2>3. \A k \in 1..n : \A d : Holding("grok", f, NoDraft, k - 1, d)
                                 => Holding("grok", f, NoDraft, k, Step("grok", updates, d, k))
    BY <1>2, <1>4
  <2> QED
    BY <1>1, <2>1, <2>2, <2>3, ReadHolding
<1> QED
  BY <1>2, <1>5 DEF told

(* the turns that the events open when no update did, *)
LEMMA GrokEventsOpen ==
  ASSUME NEW events, Len(events) \in Nat,
         \A k \in 1..Len(events) : events[k].type = "turn_started" => events[k].turn_number \in Nat,
         NEW start, Uncalled(start)
  PROVE  Uncalled(Drafted(GrokStarted, start, events))
<1> DEFINE n == Len(events)
           opened == Drafted(GrokStarted, start, events)
<1>1. ReadTo("grok events", events, start, n, opened)
  BY GrokEventsReads
<1>2. \A k, d : Holding("grok events", <<>>, start, k, d) <=> Uncalled(d)
  BY Zenon DEF Holding
<1>4. ASSUME NEW k \in 1..n, NEW d, Uncalled(d) PROVE Uncalled(Step("grok events", events, d, k))
  <2> DEFINE event == events[k]
             number == event.turn_number
             turn == TurnOf(d, number)
  <2>1. Step("grok events", events, d, k) = GrokStarted(d, event)
    BY ZenonT(60) DEF Step
  <2>2. event.type = "turn_started" => number \in Nat
    OBVIOUS
  <2>3. turn \in Nat
    BY <1>4, TurnIs DEF Uncalled
  <2>4. number \in Nat /\ turn = 0 => Uncalled(Opened(d, number))
    BY <1>4, UncalledStill
  <2>5. GrokStarted(d, event) = IF event.type # "turn_started" \/ turn > 0 THEN d ELSE Opened(d, number)
    BY DEF GrokStarted
  <2> HIDE DEF event, number, turn
  <2>6. CASE event.type # "turn_started" \/ turn > 0
    BY <1>4, <2>1, <2>5, <2>6
  <2>7. CASE event.type = "turn_started" /\ ~(turn > 0)
    <3>1. turn = 0 /\ number \in Nat
      BY <2>2, <2>3, <2>7
    <3>2. GrokStarted(d, event) = Opened(d, number)
      BY <2>5, <2>7
    <3> QED
      BY <2>1, <2>4, <3>1, <3>2
  <2> QED
    BY <2>6, <2>7
<1> HIDE DEF opened, n
<1>5. Holding("grok events", <<>>, start, n, opened)
  <2>1. n \in Nat
    BY DEF n
  <2>2. Holding("grok events", <<>>, start, 0, start)
    BY <1>2
  <2>3. \A k \in 1..n : \A d : Holding("grok events", <<>>, start, k - 1, d)
                                 => Holding("grok events", <<>>, start, k, Step("grok events", events, d, k))
    BY <1>2, <1>4
  <2> QED
    BY <1>1, <2>1, <2>2, <2>3, ReadHolding
<1> QED
  BY <1>2, <1>5 DEF opened


(* the ends that the updates told, *)
LEMMA GrokTerminalsTell ==
  ASSUME NEW f, NEW updates, Len(updates) \in Nat, \A k \in 1..Len(updates) : GrokWrites(f, updates[k])
  PROVE  LET terminals == Drafted(GrokTold, <<>>, updates)
         IN  IsList(terminals) /\ \A p \in 1..Len(terminals) : GrokTells(f, terminals[p])
<1> DEFINE n == Len(updates)
           terminals == Drafted(GrokTold, <<>>, updates)
           AllTell(d) == IsList(d) /\ \A p \in 1..Len(d) : GrokTells(f, d[p])
<1>1. ReadTo("grok terminals", updates, <<>>, n, terminals)
  BY GrokTerminalsReads
<1>2. \A k, d : Holding("grok terminals", f, <<>>, k, d) <=> AllTell(d)
  BY Zenon DEF Holding
<1>3. AllTell(<<>>)
  BY WrittenOut
<1>4. ASSUME NEW k \in 1..n, NEW d, AllTell(d) PROVE AllTell(Step("grok terminals", updates, d, k))
  <2> DEFINE update == updates[k]
             at == {p \in DOMAIN d : d[p].prompt = update.prompt}
             q == Min(at)
             longer == Append(d, update)
             changed == [d EXCEPT ![q] = update]
  <2>1. Step("grok terminals", updates, d, k) = GrokTold(d, update)
    BY ZenonT(60) DEF Step
  <2>2. GrokTold(d, update) = IF update.type # "turn_completed" THEN d ELSE IF at = {} THEN longer ELSE changed
    BY DEF GrokTold
  <2>3. update.type = "turn_completed" => GrokTells(f, update)
    BY DEF GrokWrites
  <2>4. IsList(d) /\ (\A p \in 1..Len(d) : GrokTells(f, d[p])) /\ Len(d) \in Nat /\ DOMAIN d = 1..Len(d)
    BY <1>4 DEF IsList
  <2> HIDE DEF update, at, q
  <2>5. ASSUME GrokTells(f, update) PROVE AllTell(longer)
    <3>1. /\ IsList(longer) /\ Len(longer) = Len(d) + 1 /\ longer[Len(d) + 1] = update
          /\ \A i \in 1..Len(d) : longer[i] = d[i]
      BY <2>4, SameStarts
    <3> HIDE DEF longer
    <3>2. \A p \in 1..Len(longer) : p \in 1..Len(d) \/ p = Len(d) + 1
      BY <2>4, <3>1
    <3> QED
      BY <2>4, <2>5, <3>1, <3>2
  <2>6. ASSUME GrokTells(f, update) PROVE AllTell(changed)
    <3>1. changed = [p \in DOMAIN d |-> changed[p]]
          /\ \A p \in 1..Len(d) : changed[p] = d[p] \/ changed[p] = update
      BY <2>4
    <3> HIDE DEF changed
    <3>2. IsList(changed) /\ Len(changed) = Len(d)
      BY <2>4, <3>1, OneForEach
    <3> QED
      BY <2>4, <2>6, <3>1, <3>2
  <2> HIDE DEF longer, changed, AllTell
  <2> QED
    BY <1>4, <2>1, <2>2, <2>3, <2>5, <2>6
<1> HIDE DEF terminals, n, AllTell
<1>5. Holding("grok terminals", f, <<>>, n, terminals)
  <2>1. n \in Nat
    BY DEF n
  <2>2. Holding("grok terminals", f, <<>>, 0, <<>>)
    BY <1>2, <1>3
  <2>3. \A k \in 1..n : \A d : Holding("grok terminals", f, <<>>, k - 1, d)
                                 => Holding("grok terminals", f, <<>>, k, Step("grok terminals", updates, d, k))
    BY <1>2, <1>4
  <2> QED
    BY <1>1, <2>1, <2>2, <2>3, ReadHolding
<1>6. AllTell(terminals)
  BY <1>2, <1>5
<1> QED
  BY <1>6 DEF AllTell, terminals

(* the turns when these ends are applied to them, *)
LEMMA GrokEndsApply ==
  ASSUME NEW draft, Uncalled(draft), NEW terminals
  PROVE  Uncalled(GrokApplyTerminals(draft, terminals))
<1> DEFINE turns == draft.turns
           n == Len(turns)
           unmatched == Those(terminals, {k \in DOMAIN terminals : TurnOf(draft, terminals[k].prompt) = 0})
           start == [draft |-> draft, unmatched |-> unmatched]
           applied == AppliedTo(terminals, start, [t \in DOMAIN turns |-> t])
<1>1. GrokApplyTerminals(draft, terminals) = applied.draft
  BY DEF GrokApplyTerminals, AppliedTo
<1>2. IsList(turns) /\ n \in Nat
  <2> DEFINE T == [key : Nat, status : Statuses]
  <2>1. turns \in Seq(T)
    BY DEF Uncalled, GoodDraft
  <2> HIDE DEF T, turns
  <2>2. DOMAIN turns = 1..Len(turns) /\ Len(turns) \in Nat
    BY <2>1
  <2>3. \A k \in 1..Len(turns) : turns[k] \in Range(turns)
    BY <2>2 DEF Range
  <2> QED
    BY <2>1, <2>2, <2>3 DEF IsList
<1>3. ReadTo("grok ends", terminals, start, n, applied)
  <2> HIDE DEF turns, start
  <2> QED
    BY <1>2, GrokEndsReads
<1>4. \A k, d : Holding("grok ends", <<>>, start, k, d) <=> Uncalled(d.draft)
  BY Zenon DEF Holding
<1>5. ASSUME NEW k \in 1..n, NEW d, Uncalled(d.draft) PROVE Uncalled(Step("grok ends", terminals, d, k).draft)
  <2> DEFINE own == {p \in DOMAIN terminals : terminals[p].prompt = d.draft.turns[k].key}
             Ended(end) == Marked(d.draft, k, IF end.reason = "error" THEN "aborted" ELSE "completed")
             one == [d EXCEPT !.draft = Ended(terminals[Min(own)])]
             other == [draft |-> Ended(Head(d.unmatched)), unmatched |-> Tail(d.unmatched)]
  <2>1. Step("grok ends", terminals, d, k) = GrokApplied(terminals, d, k)
    BY ZenonT(60) DEF Step
  <2>2. GrokApplied(terminals, d, k) \in {one, d, other}
    BY DEF GrokApplied
  <2>3. \A end : Uncalled(Ended(end))
    <3> TAKE end
    <3> DEFINE status == IF end.reason = "error" THEN "aborted" ELSE "completed"
    <3>1. status \in Statuses
      BY DEF Statuses
    <3> HIDE DEF status
    <3>2. Uncalled(Marked(d.draft, k, status))
      BY <1>5, <3>1, UncalledStill
    <3> QED
      BY <3>2 DEF status
  <2>4. other.draft = Ended(Head(d.unmatched))
    OBVIOUS
  <2>5. one.draft = d.draft \/ one.draft = Ended(terminals[Min(own)])
    <3> DEFINE e == Ended(terminals[Min(own)])
    <3> HIDE DEF e
    <3> SUFFICES [d EXCEPT !.draft = e].draft \in {d.draft, e}
      BY DEF e
    <3> QED
      OBVIOUS
  <2> HIDE DEF one, other, Ended, own
  <2> QED
    BY <1>5, <2>1, <2>2, <2>3, <2>4, <2>5
<1>6. Uncalled(start.draft)
  OBVIOUS
<1> HIDE DEF start, applied, n
<1>7. Holding("grok ends", <<>>, start, n, applied)
  <2>2. Holding("grok ends", <<>>, start, 0, start)
    BY <1>4, <1>6
  <2>3. \A k \in 1..n : \A d : Holding("grok ends", <<>>, start, k - 1, d)
                                 => Holding("grok ends", <<>>, start, k, Step("grok ends", terminals, d, k))
    BY <1>4, <1>5
  <2> QED
    BY <1>2, <1>3, <2>2, <2>3, ReadHolding
<1> QED
  BY <1>1, <1>4, <1>7

(* and the events. *)
LEMMA GrokEventsApply ==
  ASSUME NEW draft, Uncalled(draft), NEW events, Len(events) \in Nat
  PROVE  Uncalled(GrokApplyEventMetadata(draft, events))
<1> DEFINE n == Len(events)
           start == [turns |-> draft.turns, active |-> 0, index |-> 0, calls |-> draft.calls,
                     tools |-> draft.tools, compactions |-> draft.compactions]
           applied == Drafted(GrokMetadata, start, events)
<1>1. GrokApplyEventMetadata(draft, events) = applied
  BY DEF GrokApplyEventMetadata
<1>2. Uncalled(start)
  <2>1. /\ start.turns = draft.turns /\ start.calls = draft.calls
        /\ start = [field \in DOMAIN start |-> start[field]]
        /\ DOMAIN start = {"turns", "active", "index", "calls", "tools", "compactions"}
    OBVIOUS
  <2> HIDE DEF start
  <2> QED
    BY <2>1 DEF Uncalled, GoodDraft
<1>3. ReadTo("grok metadata", events, start, n, applied)
  <2> HIDE DEF start
  <2> QED
    BY GrokMetadataReads
<1> HIDE DEF start, applied
<1>4. \A k, d : Holding("grok metadata", <<>>, start, k, d) <=> Uncalled(d)
  BY Zenon DEF Holding
<1>5. ASSUME NEW k \in 1..n, NEW d, Uncalled(d) PROVE Uncalled(Step("grok metadata", events, d, k))
  <2> DEFINE event == events[k]
             turn == d.active
             index == d.index + 1
             numbered == [d EXCEPT !["index"] = index]
             active == IF index <= Len(d.turns) THEN index ELSE 0
             moved == [numbered EXCEPT !["active"] = active]
             status == IF event.outcome = "completed" THEN "completed" ELSE "aborted"
  <2>1. Step("grok metadata", events, d, k) = GrokMetadata(d, event)
    BY ZenonT(60) DEF Step
  <2>2. \/ GrokMetadata(d, event) = moved
        \/ GrokMetadata(d, event) = ToolUsed(d, turn, TRUE)
        \/ GrokMetadata(d, event) = Marked(d, turn, status)
        \/ GrokMetadata(d, event) = d
    <3> DEFINE ends == turn > 0 /\ d.turns[turn].status = "in-progress"
    <3>1. CASE event.type = "turn_started"
      BY <3>1, Zenon DEF GrokMetadata
    <3>2. CASE event.type = "tool_started"
      BY <3>2, Zenon DEF GrokMetadata
    <3>3. CASE event.type = "turn_ended" /\ ends
      BY <3>3, Zenon DEF GrokMetadata
    <3>4. CASE event.type = "turn_ended" /\ ~ends
      BY <3>4, Zenon DEF GrokMetadata
    <3>5. CASE event.type \notin {"turn_started", "tool_started", "turn_ended"}
      BY <3>5, Zenon DEF GrokMetadata
    <3> HIDE DEF event, ends, moved, status, turn
    <3> QED
      BY <3>1, <3>2, <3>3, <3>4, <3>5
  <2>3. "index" \notin {"turns", "calls"} /\ "active" \notin {"turns", "calls"} /\ status \in Statuses
    BY DEF Statuses
  <2> HIDE DEF event, turn, index, active, status
  <2>4. Uncalled(numbered) /\ Uncalled(Marked(d, turn, status)) /\ Uncalled(ToolUsed(d, turn, TRUE))
    BY <1>5, <2>3, UncalledStill
  <2> HIDE DEF numbered
  <2>5. Uncalled(moved)
    BY <2>3, <2>4, UncalledStill
  <2> HIDE DEF moved
  <2> QED
    BY <1>5, <2>1, <2>2, <2>4, <2>5
<1>6. n \in Nat
  OBVIOUS
<1> HIDE DEF n
<1>7. Holding("grok metadata", <<>>, start, n, applied)
  <2>2. Holding("grok metadata", <<>>, start, 0, start)
    BY <1>2, <1>4
  <2>3. \A k \in 1..n : \A d : Holding("grok metadata", <<>>, start, k - 1, d)
                                 => Holding("grok metadata", <<>>, start, k, Step("grok metadata", events, d, k))
    BY <1>4, <1>5
  <2> QED
    BY <1>3, <1>6, <2>2, <2>3, ReadHolding
<1> QED
  BY <1>1, <1>4, <1>7


(* The parts of what was used, taken from its sums. *)
SumsUp(raw, a, b, c, d, e, g) ==
  /\ a \in Nat /\ b \in Nat /\ c \in Nat /\ d \in Nat /\ e \in Nat /\ g \in Nat
  /\ a + b + c + d + e + g <= MaxBigint
  /\ raw.inputTokens = a + b + c /\ raw.cachedReadTokens = b /\ raw.cacheCreationTokens = c
  /\ raw.outputTokens = d + e /\ raw.reasoningTokens = e /\ raw.totalTokens = a + b + c + d + e + g
  /\ {"inputTokens", "cachedReadTokens", "cacheCreationTokens", "outputTokens", "reasoningTokens",
      "totalTokens"} \subseteq DOMAIN raw
  /\ \A field \in DOMAIN raw : raw[field] \in Nat

LEMMA GrokParts ==
  ASSUME NEW raw, NEW a, NEW b, NEW c, NEW d, NEW e, NEW g, SumsUp(raw, a, b, c, d, e, g)
  PROVE  GrokUsage(raw) = <<a, b, c, d, e, g>>
<1> DEFINE input == a + b + c
           rest == input - b
           output == d + e
           known == input + output
           whole == a + b + c + d + e + g
<1>1. /\ input \in Nat /\ output \in Nat /\ rest \in Nat /\ rest = a + c /\ known \in Nat
      /\ known <= MaxBigint /\ whole = known + g /\ MaxBigint \in Nat
      /\ rest - c = a /\ output - e = d /\ input >= b /\ rest >= c /\ output >= e
      /\ b \in Nat /\ c \in Nat /\ e \in Nat /\ g \in Nat
  BY MaxBigintAssumption DEF SumsUp
<1> DEFINE use == CountersOf(raw)
<1>6. /\ use.inputTokens = input /\ use.cachedReadTokens = b /\ use.cacheCreationTokens = c
      /\ use.outputTokens = output /\ use.reasoningTokens = e /\ use.totalTokens = whole
  <2>1. /\ use.inputTokens = Bounded(input) /\ use.cachedReadTokens = Bounded(b)
        /\ use.cacheCreationTokens = Bounded(c) /\ use.outputTokens = Bounded(output)
        /\ use.reasoningTokens = Bounded(e) /\ use.totalTokens = Bounded(whole)
    BY CountersAre DEF SumsUp
  <2>2. input <= MaxBigint /\ b <= MaxBigint /\ c <= MaxBigint /\ output <= MaxBigint /\ e <= MaxBigint
        /\ whole <= MaxBigint
    BY MaxBigintAssumption DEF SumsUp
  <2> HIDE DEF use, input, output, whole
  <2>3. \A x : ~(x > MaxBigint) => Bounded(x) = x
    BY DEF Bounded
  <2>4. /\ ~(input > MaxBigint) /\ ~(b > MaxBigint) /\ ~(c > MaxBigint) /\ ~(output > MaxBigint)
        /\ ~(e > MaxBigint) /\ ~(whole > MaxBigint)
    <3>1. whole \in Nat
      BY <1>1
    <3> QED
      BY <1>1, <2>2, <3>1
  <2> QED
    BY <2>1, <2>3, <2>4
<1>2. GrokUsage(raw) =
        LET cached == Least(input, b)
            creation == Least(input - cached, c)
            reasoning == Least(output, e)
        IN  TokensApart(input - cached - creation, cached, creation, output - reasoning,
                        reasoning, whole)
  <2> HIDE DEF use
  <2>1. GrokUsage(raw) =
          LET cached == Least(use.inputTokens, use.cachedReadTokens)
              creation == Least(use.inputTokens - cached, use.cacheCreationTokens)
              reasoning == Least(use.outputTokens, use.reasoningTokens)
          IN  TokensApart(use.inputTokens - cached - creation, cached, creation,
                          use.outputTokens - reasoning, reasoning, use.totalTokens)
    BY DEF GrokUsage, use
  <2> HIDE DEF input, output, whole
  <2> QED
    BY <1>6, <2>1
<1> HIDE DEF use
<1>3. rest = input - b
  OBVIOUS
<1> HIDE DEF input, rest, output, known, whole
<1>4. Least(input, b) = b /\ Least(rest, c) = c /\ Least(output, e) = e /\ Bounded(known) = known
  BY <1>1 DEF Least, Bounded
<1>5. Over(whole, known) = g
  BY <1>1 DEF Over
<1>7. GrokUsage(raw) = TokensApart(a, b, c, d, e, whole)
  BY <1>1, <1>2, <1>3, <1>4
<1>8. a + b + c + d + e = known
  BY <1>1 DEF SumsUp, known, input, output
<1> QED
  BY <1>4, <1>5, <1>7, <1>8 DEF TokensApart

(* What Grok Build tells of a turn is what its answers used. *)
LEMMA GrokUsageIs ==
  ASSUME NEW f, Uses(f), SpentAt(f, 1..Len(f)) <= MaxBigint, NEW i \in 1..Len(f)
  PROVE  /\ GrokUsage(GrokUsed(f, i)) \in TokenRecords
         /\ Total(GrokUsage(GrokUsed(f, i))) = SpentAt(f, GrokAnswers(f, i))
<1> DEFINE use == UsedAt(f, GrokAnswers(f, i))
           raw == GrokUsed(f, i)
<1>1. use \in TokenRecords
  BY UsedAtAre
<1>2. Len(f) \in Nat /\ GrokAnswers(f, i) \subseteq 1..Len(f)
  BY RecordsAre DEF GrokAnswers
<1>3. Total(use) = SpentAt(f, GrokAnswers(f, i)) /\ Total(use) <= MaxBigint /\ MaxBigint \in Nat
  <2>1. Total(use) = SpentAt(f, GrokAnswers(f, i))
    BY UsesAtAre
  <2>2. SpentAt(f, GrokAnswers(f, i)) <= SpentAt(f, 1..Len(f)) /\ SpentAt(f, GrokAnswers(f, i)) \in Nat
        /\ SpentAt(f, 1..Len(f)) \in Nat
    BY <1>2, SpentBelow
  <2> QED
    BY <2>1, <2>2, MaxBigintAssumption
<1>4. /\ raw.inputTokens = InputOf(use) /\ raw.cachedReadTokens = use[2] /\ raw.cacheCreationTokens = use[3]
      /\ raw.outputTokens = OutputOf(use) /\ raw.reasoningTokens = use[5] /\ raw.totalTokens = Total(use)
      /\ raw.modelCalls = Cardinality(GrokAnswers(f, i))
      /\ DOMAIN raw = {"inputTokens", "cachedReadTokens", "cacheCreationTokens", "outputTokens",
                       "reasoningTokens", "totalTokens", "modelCalls"}
  BY DEF GrokUsed
<1> HIDE DEF use, raw
<1>5. /\ use[1] \in Nat /\ use[2] \in Nat /\ use[3] \in Nat /\ use[4] \in Nat /\ use[5] \in Nat /\ use[6] \in Nat
      /\ Total(use) = use[1] + use[2] + use[3] + use[4] + use[5] + use[6]
  BY <1>1, UseIs, TotalIs DEF Sum6
<1>6. raw.inputTokens = use[1] + use[2] + use[3] /\ raw.outputTokens = use[4] + use[5]
  BY <1>4 DEF InputOf, OutputOf
<1>10. \A field \in DOMAIN raw : raw[field] \in Nat
  <2>1. Cardinality(GrokAnswers(f, i)) \in Nat
    <3>1. IsFiniteSet(1..Len(f))
      BY <1>2, FS_Interval
    <3> QED
      BY <1>2, <3>1, FS_Subset, FS_CardinalityType
  <2> QED
    <3>1. InputOf(use) \in Nat /\ OutputOf(use) \in Nat /\ Total(use) \in Nat
      BY <1>1, UseIs
    <3> QED
      BY <1>4, <1>5, <2>1, <3>1
<1>7. GrokUsage(raw) = <<use[1], use[2], use[3], use[4], use[5], use[6]>>
  <2> DEFINE a == use[1]
             b == use[2]
             c == use[3]
             d == use[4]
             e == use[5]
             g == use[6]
  <2>1. SumsUp(raw, a, b, c, d, e, g)
    BY <1>3, <1>4, <1>5, <1>6, <1>10 DEF SumsUp
  <2> HIDE DEF a, b, c, d, e, g
  <2>2. GrokUsage(raw) = <<a, b, c, d, e, g>>
    BY <2>1, GrokParts
  <2> QED
    BY <2>2 DEF a, b, c, d, e, g
<1>8. GrokUsage(raw) \in TokenRecords
  BY <1>5, <1>7 DEF TokenRecords
<1>9. Total(GrokUsage(raw)) = Sum6(GrokUsage(raw)) /\ Sum6(GrokUsage(raw)) = Total(use)
  BY <1>5, <1>7, <1>8, TotalIs DEF Sum6
<1> QED
  BY <1>3, <1>8, <1>9 DEF raw, use

(* What is told of a turn, *)
LEMMA GrokUsageOfIs ==
  ASSUME NEW f, NEW terminals, IsList(terminals), \A p \in 1..Len(terminals) : GrokTells(f, terminals[p]),
         NEW key
  PROVE  \/ GrokUsageOf(terminals, key) = {}
         \/ \E i \in 1..Len(f) : f[i].turn = key /\ GrokUsageOf(terminals, key) = {GrokUsed(f, i)}
<1> DEFINE own == {k \in DOMAIN terminals : terminals[k].prompt = key}
           p == Min(own)
<1>1. GrokUsageOf(terminals, key) = IF own = {} THEN {} ELSE terminals[p].usage
  BY DEF GrokUsageOf
<1>2. CASE own = {}
  BY <1>1, <1>2
<1>3. CASE own # {}
  <2>1. own \subseteq Nat /\ own \subseteq 1..Len(terminals)
    BY DEF IsList
  <2>2. p \in own
    <3> HIDE DEF own
    <3> QED
      BY <1>3, <2>1, MinIs
  <2>3. terminals[p].prompt = key /\ p \in 1..Len(terminals)
    BY <2>1, <2>2
  <2> HIDE DEF own, p
  <2>4. PICK i \in 1..Len(f) : terminals[p].prompt = f[i].turn /\ terminals[p].usage \in {{}, {GrokUsed(f, i)}}
    BY <2>3 DEF GrokTells
  <2> QED
    BY <1>1, <1>3, <2>3, <2>4
<1> QED
  BY <1>2, <1>3

(* and the calls of the turns, used no more than the session did. *)
LEMMA GrokCharges ==
  ASSUME NEW f, Uses(f), SpentAt(f, 1..Len(f)) <= MaxBigint,
         NEW terminals, IsList(terminals), \A p \in 1..Len(terminals) : GrokTells(f, terminals[p]),
         NEW start, Uncalled(start)
  PROVE  LET charged == ChargedTo(terminals, start, [t \in DOMAIN start.turns |-> t])
         IN  GoodDraft(charged, Nat) /\ TokensOf(charged.calls) <= MaxBigint
<1> DEFINE turns == start.turns
           n == Len(turns)
           charged == ChargedTo(terminals, start, [t \in DOMAIN turns |-> t])
           Charging(k, d) == /\ GoodDraft(d, Nat) /\ d.turns = turns
                             /\ TokensOf(d.calls) <= SpentAt(f, OfTurns(f, turns, k))
<1>1. GoodDraft(start, Nat) /\ start.calls = <<>>
  BY DEF Uncalled
<1>2. /\ IsList(turns) /\ n \in Nat
      /\ \A i \in 1..n : turns[i].key \in Nat
      /\ \A i, j \in 1..n : turns[i].key = turns[j].key => i = j
  <2> DEFINE T == [key : Nat, status : Statuses]
  <2>1. /\ turns \in Seq(T) /\ \A i \in 1..n : turns[i].key \in Nat
        /\ \A i, j \in 1..n : turns[i].key = turns[j].key => i = j
    BY <1>1 DEF GoodDraft
  <2> HIDE DEF T, turns
  <2>2. DOMAIN turns = 1..Len(turns) /\ Len(turns) \in Nat
    BY <2>1
  <2>3. \A k \in 1..Len(turns) : turns[k] \in Range(turns)
    BY <2>2 DEF Range
  <2> QED
    BY <2>1, <2>2, <2>3 DEF IsList
<1>3. ReadTo("grok calls", terminals, start, n, charged)
  <2> HIDE DEF turns
  <2> QED
    BY <1>2, GrokCallsReads
<1>4. \A k, d : Holding("grok calls", f, start, k, d) <=> Charging(k, d)
  BY Zenon DEF Holding
<1>5. Charging(0, start)
  <2>1. AreCalls(start.calls)
    BY <1>1 DEF GoodDraft
  <2>2. TokensOf(start.calls) = 0
    BY <1>1, <2>1, TokensAreNumbers
  <2>3. SpentAt(f, OfTurns(f, turns, 0)) \in Nat
    BY UsesAtAre
  <2> QED
    BY <1>1, <2>2, <2>3
<1>6. ASSUME NEW k \in 1..n, NEW d, Charging(k - 1, d) PROVE Charging(k, Step("grok calls", terminals, d, k))
  <2> DEFINE key == turns[k].key
             usage == GrokUsageOf(terminals, key)
             tokens == GrokUsage(CHOOSE raw \in usage : TRUE)
             called == Called(d, k, tokens)
             A == OfTurns(f, turns, k - 1)
             C == OfTurns(f, turns, k)
  <2>1. Step("grok calls", terminals, d, k) = GrokCharged(terminals, d, k)
    BY ZenonT(60) DEF Step
  <2>2. GoodDraft(d, Nat) /\ d.turns = turns /\ TokensOf(d.calls) <= SpentAt(f, A)
    BY <1>6
  <2>3. GrokCharged(terminals, d, k) = IF usage = {} THEN d ELSE called
    BY <2>2 DEF GrokCharged
  <2>4. A \subseteq C
    <3>1. \A t \in 1..k - 1 : t \in 1..k
      BY <1>2
    <3> QED
      BY <3>1 DEF OfTurns
  <2>5. SpentAt(f, A) <= SpentAt(f, C) /\ SpentAt(f, A) \in Nat /\ SpentAt(f, C) \in Nat
    <3> HIDE DEF A, C
    <3> QED
      BY <2>4, SpentBelow
  <2>6. AreCalls(d.calls) /\ TokensOf(d.calls) \in Nat /\ "calls" \in DOMAIN d
    BY <2>2, TokensAreNumbers DEF GoodDraft
  <2>7. CASE usage = {}
    <3>1. TokensOf(d.calls) <= SpentAt(f, C)
      <4> HIDE DEF A, C
      <4> QED
        BY <2>2, <2>5, <2>6
    <3>2. Charging(k, d)
      BY <2>2, <3>1
    <3> HIDE DEF Charging, usage
    <3> QED
      BY <2>1, <2>3, <2>7, <3>2
  <2>8. CASE usage # {}
    <3>1. PICK i \in 1..Len(f) : f[i].turn = key /\ usage = {GrokUsed(f, i)}
      BY <2>8, GrokUsageOfIs
    <3> DEFINE B == GrokAnswers(f, i)
    <3>2. tokens = GrokUsage(GrokUsed(f, i))
      BY <3>1
    <3>3. tokens \in TokenRecords /\ Total(tokens) = SpentAt(f, B)
      BY <3>2, GrokUsageIs
    <3>4. B \subseteq C
      <4>1. Len(f) \in Nat /\ k \in 1..k
        BY <1>2, RecordsAre
      <4>2. ASSUME NEW j \in B PROVE j \in C
        <5>1. j \in 1..Len(f) /\ f[j].turn = turns[k].key
          BY <3>1, <4>1 DEF GrokAnswers
        <5> HIDE DEF turns
        <5> QED
          BY <4>1, <5>1 DEF OfTurns
      <4> QED
        BY <4>2
    <3>5. A \cap B = {}
      <4>1. ASSUME NEW j \in A, j \in B PROVE FALSE
        <5>1. PICK t \in 1..k - 1 : f[j].turn = turns[t].key
          BY DEF OfTurns
        <5>2. f[j].turn = turns[k].key
          BY <3>1, <4>1 DEF GrokAnswers
        <5>3. t \in 1..n /\ t # k
          BY <1>2
        <5> QED
          BY <1>2, <5>1, <5>2, <5>3
      <4> QED
        BY <4>1
    <3> HIDE DEF A, B, C, tokens
    <3>6. SpentAt(f, A \cup B) = SpentAt(f, A) + SpentAt(f, B)
      BY <3>5, SpentApart
    <3>7. SpentAt(f, A \cup B) <= SpentAt(f, C) /\ SpentAt(f, A \cup B) \in Nat /\ SpentAt(f, B) \in Nat
      <4>1. A \cup B \subseteq C
        BY <2>4, <3>4
      <4> QED
        BY <4>1, SpentBelow, UsesAtAre
    <3>8. GoodDraft(called, Nat)
      BY <2>2, <3>3, GoodCalled
    <3> DEFINE call == [turn |-> k, tokens |-> tokens]
               more == Append(d.calls, call)
    <3>9. called.calls = more /\ called.turns = d.turns
      BY <2>6 DEF Called
    <3>10. AreCalls(called.calls)
      BY <3>8 DEF GoodDraft
    <3> HIDE DEF called
    <3>11. TokensOf(more) = TokensOf(d.calls) + Total(tokens)
      <4>1. call.tokens = tokens
        OBVIOUS
      <4> HIDE DEF call
      <4>2. /\ Len(more) = Len(d.calls) + 1 /\ more[Len(d.calls) + 1] = call
            /\ \A m \in 1..Len(d.calls) : more[m] = d.calls[m]
        BY <2>6, SameStarts DEF AreCalls
      <4>3. AreCalls(more)
        BY <3>9, <3>10
      <4> HIDE DEF more
      <4>4. TokensOf(more) = TokensOf(d.calls) + Total(more[Len(d.calls) + 1].tokens)
        BY <2>6, <4>2, <4>3, OneMoreCall
      <4> QED
        BY <4>1, <4>2, <4>4
    <3> HIDE DEF more, call
    <3>12. TokensOf(called.calls) <= SpentAt(f, C)
      BY <2>2, <2>5, <2>6, <3>3, <3>6, <3>7, <3>9, <3>11
    <3> HIDE DEF turns
    <3>13. Charging(k, called)
      BY <2>2, <3>8, <3>9, <3>12 DEF C
    <3> HIDE DEF Charging, usage
    <3> QED
      BY <2>1, <2>3, <2>8, <3>13
  <2> QED
    BY <2>7, <2>8
<1> HIDE DEF charged, Charging
<1>7. Holding("grok calls", f, start, n, charged)
  <2>1. Holding("grok calls", f, start, 0, start)
    BY <1>4, <1>5
  <2>2. \A k \in 1..n : \A d : Holding("grok calls", f, start, k - 1, d)
                                 => Holding("grok calls", f, start, k, Step("grok calls", terminals, d, k))
    BY <1>4, <1>6
  <2> HIDE DEF n
  <2> QED
    BY <1>2, <1>3, <2>1, <2>2, ReadHolding
<1>8. Charging(n, charged)
  BY <1>4, <1>7
<1>9. GoodDraft(charged, Nat) /\ TokensOf(charged.calls) <= SpentAt(f, OfTurns(f, turns, n))
  BY <1>8 DEF Charging
<1>10. TokensOf(charged.calls) <= MaxBigint
  <2>1. OfTurns(f, turns, n) \subseteq 1..Len(f)
    BY DEF OfTurns
  <2>2. SpentAt(f, OfTurns(f, turns, n)) <= SpentAt(f, 1..Len(f)) /\ SpentAt(f, OfTurns(f, turns, n)) \in Nat
        /\ SpentAt(f, 1..Len(f)) \in Nat
    BY <2>1, SpentBelow
  <2>3. TokensOf(charged.calls) \in Nat
    BY <1>9, TokensAreNumbers DEF GoodDraft
  <2> QED
    BY <1>9, <2>2, <2>3, MaxBigintAssumption
<1> QED
  BY <1>9, <1>10 DEF charged


(* Each update and each event that Grok Build writes is one, *)
LEMMA GrokWritesUpdates ==
  ASSUME NEW f, Uses(f), NEW i \in 1..Len(f)
  PROVE  /\ \E update : GrokUpdates(f, i) = <<update>> /\ GrokWrites(f, update)
         /\ \/ GrokEvents(f, i) = <<>>
            \/ \E event : /\ GrokEvents(f, i) = <<event>>
                          /\ event.type = "turn_started" => event.turn_number \in Nat
<1> DEFINE fact == f[i]
           Update(type, usage) == [type |-> type, prompt |-> fact.turn, usage |-> usage,
                                   reason |-> IF fact.kind = "fail" THEN "error" ELSE "end_turn"]
           ask == [type |-> "user_message_chunk", prompt |-> Within(f, i), usage |-> {}]
           used == IF GrokAnswers(f, i) = {} THEN {} ELSE {GrokUsed(f, i)}
<1>1. IsList(f)
  BY DEF Uses
<1>2. fact.kind = "ask" => Within(f, i) \in Nat
  BY <1>1, LaterTurn
<1>3. /\ GrokWrites(f, Update("auto_compact_completed", {})) /\ GrokWrites(f, Update("agent_message_chunk", {}))
      /\ GrokWrites(f, Update("turn_completed", used))
  <2>1. \A type, usage : /\ Update(type, usage).type = type /\ Update(type, usage).prompt = f[i].turn
                         /\ Update(type, usage).usage = usage
    OBVIOUS
  <2>2. used \in {{}, {GrokUsed(f, i)}}
    OBVIOUS
  <2> HIDE DEF Update, used
  <2> QED
    BY <2>1, <2>2 DEF GrokWrites, GrokTells
<1>4. fact.kind = "ask" => GrokWrites(f, ask)
  BY <1>2 DEF GrokWrites
<1>5. \E update : GrokUpdates(f, i) = <<update>> /\ GrokWrites(f, update)
  <2>1. CASE fact.kind = "ask"
    <3>1. GrokUpdates(f, i) = <<ask>>
      BY <2>1, Zenon DEF GrokUpdates, GrokEnds
    <3> HIDE DEF ask
    <3> QED
      BY <1>4, <2>1, <3>1
  <2>2. CASE fact.kind = "compact"
    <3>1. GrokUpdates(f, i) = <<Update("auto_compact_completed", {})>>
      BY <2>2, Zenon DEF GrokUpdates, GrokEnds
    <3> HIDE DEF Update
    <3> QED
      BY <1>3, <3>1
  <2>3. CASE GrokEnds(fact)
    <3>1. GrokUpdates(f, i) = <<Update("turn_completed", used)>>
      BY <2>3, Zenon DEF GrokUpdates, GrokEnds
    <3> HIDE DEF Update, used
    <3> QED
      BY <1>3, <3>1
  <2>4. CASE fact.kind \notin {"ask", "compact"} /\ ~GrokEnds(fact)
    <3>1. GrokUpdates(f, i) = <<Update("agent_message_chunk", {})>>
      BY <2>4, Zenon DEF GrokUpdates, GrokEnds
    <3> HIDE DEF Update
    <3> QED
      BY <1>3, <3>1
  <2> HIDE DEF fact
  <2> QED
    BY <2>1, <2>2, <2>3, <2>4
<1> HIDE DEF Update, ask, used
<1>6. \/ GrokEvents(f, i) = <<>>
      \/ \E event : /\ GrokEvents(f, i) = <<event>>
                    /\ event.type = "turn_started" => event.turn_number \in Nat
  <2>1. CASE fact.kind = "ask"
    <3>1. GrokEvents(f, i) = <<[type |-> "turn_started", turn_number |-> Within(f, i)]>>
      BY <2>1, Zenon DEF GrokEvents, GrokEnds
    <3> QED
      BY <1>2, <2>1, <3>1
  <2>2. CASE GrokEnds(fact)
    <3> DEFINE end == [type |-> "turn_ended", outcome |-> IF fact.kind = "fail" THEN "cancelled" ELSE "completed"]
    <3>1. GrokEvents(f, i) = <<end>>
      BY <2>2, Zenon DEF GrokEvents, GrokEnds
    <3>2. end.type # "turn_started"
      OBVIOUS
    <3> HIDE DEF end
    <3> QED
      BY <3>1, <3>2
  <2>3. CASE fact.kind = "answer" /\ fact.tool /\ ~GrokEnds(fact)
    <3> DEFINE started == [type |-> "tool_started"]
    <3>1. GrokEvents(f, i) = <<started>>
      BY <2>3, Zenon DEF GrokEvents, GrokEnds
    <3>2. started.type # "turn_started"
      OBVIOUS
    <3> HIDE DEF started
    <3> QED
      BY <3>1, <3>2
  <2>4. CASE fact.kind # "ask" /\ ~GrokEnds(fact) /\ ~(fact.kind = "answer" /\ fact.tool)
    BY <2>4, Zenon DEF GrokEvents, GrokEnds
  <2> HIDE DEF fact
  <2> QED
    BY <2>1, <2>2, <2>3, <2>4
<1> QED
  BY <1>5, <1>6

(* also in its files. *)
LEMMA GrokFiles ==
  ASSUME NEW f, Uses(f), NEW log, log \in {GrokLog(f), GrokEventsOnly(f)}
  PROVE  /\ Len(log.updates) \in Nat /\ \A k \in 1..Len(log.updates) : GrokWrites(f, log.updates[k])
         /\ Len(log.events) \in Nat
         /\ \A k \in 1..Len(log.events) : log.events[k].type = "turn_started" => log.events[k].turn_number \in Nat
<1> DEFINE updates == Records(f, LAMBDA i : GrokUpdates(f, i))
           events == Records(f, LAMBDA i : GrokEvents(f, i))
<1>1. updates = [i \in DOMAIN f |-> updates[i]] /\ events = [i \in DOMAIN f |-> events[i]]
  BY DEF Records
<1>2. IsList(updates) /\ Len(updates) = Len(f) /\ IsList(events) /\ Len(events) = Len(f) /\ DOMAIN f = 1..Len(f)
  BY <1>1, RecordsAre
<1>3. \A i \in 1..Len(f) : updates[i] = GrokUpdates(f, i) /\ events[i] = GrokEvents(f, i)
  BY <1>2 DEF Records
<1>4. (log.updates = FlattenSeq(updates) \/ log.updates = <<>>) /\ log.events = FlattenSeq(events)
  <2> DEFINE both == GrokLog(f)
             late == GrokEventsOnly(f)
  <2>1. both.updates = FlattenSeq(updates) /\ both.events = FlattenSeq(events)
    <3> DEFINE all == FlattenSeq(updates)
               told == FlattenSeq(events)
    <3>1. both = [updates |-> all, events |-> told, updated_at |-> Len(f)]
      BY Zenon DEF GrokLog
    <3> HIDE DEF all, told, both
    <3>2. both.updates = all /\ both.events = told
      BY <3>1
    <3> QED
      BY <3>2 DEF all, told
  <2>2. late.updates = <<>> /\ late.events = both.events
    <3> DEFINE all == FlattenSeq(updates)
               told == FlattenSeq(events)
    <3>1. both = [updates |-> all, events |-> told, updated_at |-> Len(f)]
      BY Zenon DEF GrokLog
    <3>2. late = [both EXCEPT !.updates = <<>>]
      BY Zenon DEF GrokEventsOnly
    <3> HIDE DEF all, told, both, late
    <3> QED
      BY <3>1, <3>2
  <2>3. log = both \/ log = late
    OBVIOUS
  <2> HIDE DEF both, late, updates, events
  <2> QED
    BY <2>1, <2>2, <2>3
<1> HIDE DEF updates, events
<1>5. ASSUME NEW i \in 1..Len(f)
      PROVE  /\ IsList(updates[i]) /\ \A r \in 1..Len(updates[i]) : GrokWrites(f, updates[i][r])
             /\ IsList(events[i])
             /\ \A r \in 1..Len(events[i]) : events[i][r].type = "turn_started" => events[i][r].turn_number \in Nat
  <2>1. PICK update : GrokUpdates(f, i) = <<update>> /\ GrokWrites(f, update)
    BY GrokWritesUpdates
  <2>2. IsList(<<update>>) /\ Len(<<update>>) = 1 /\ <<update>>[1] = update /\ \A r \in 1..1 : r = 1
    BY WrittenOut
  <2>3. IsList(updates[i]) /\ \A r \in 1..Len(updates[i]) : GrokWrites(f, updates[i][r])
    BY <1>3, <2>1, <2>2
  <2>4. CASE GrokEvents(f, i) = <<>>
    BY <1>3, <2>3, <2>4, WrittenOut
  <2>5. CASE GrokEvents(f, i) # <<>>
    <3>1. PICK event : GrokEvents(f, i) = <<event>> /\ (event.type = "turn_started" => event.turn_number \in Nat)
      BY <2>5, GrokWritesUpdates
    <3>2. IsList(<<event>>) /\ Len(<<event>>) = 1 /\ <<event>>[1] = event
      BY WrittenOut
    <3> QED
      BY <1>3, <2>2, <2>3, <3>1, <3>2
  <2> QED
    BY <2>4, <2>5
<1>6. Len(log.events) \in Nat
      /\ \A k \in 1..Len(log.events) : log.events[k].type = "turn_started" => log.events[k].turn_number \in Nat
  <2> DEFINE all == log.events
  <2>1. all = FlattenSeq(events) /\ \A i \in 1..Len(events) : IsList(events[i])
    BY <1>2, <1>4, <1>5
  <2> HIDE DEF all
  <2>2. Len(all) \in Nat /\ \A p \in 1..Len(all) : \E i, r : EventAt(all, events, p, i, r)
    BY <1>2, <2>1, EventsAre
  <2>3. ASSUME NEW k \in 1..Len(all) PROVE all[k].type = "turn_started" => all[k].turn_number \in Nat
    <3>1. PICK i, r : EventAt(all, events, k, i, r)
      BY <2>2
    <3>2. i \in 1..Len(f) /\ r \in 1..Len(events[i]) /\ all[k] = events[i][r]
      BY <1>2, <3>1 DEF EventAt
    <3> QED
      BY <1>5, <3>2
  <2> QED
    BY <2>2, <2>3 DEF all
<1>7. Len(log.updates) \in Nat /\ \A k \in 1..Len(log.updates) : GrokWrites(f, log.updates[k])
  <2> DEFINE all == log.updates
  <2>1. (all = FlattenSeq(updates) \/ all = <<>>) /\ \A i \in 1..Len(updates) : IsList(updates[i])
    BY <1>2, <1>4, <1>5
  <2> HIDE DEF all
  <2>2. CASE all = <<>>
    BY <2>2, WrittenOut DEF all
  <2>3. CASE all = FlattenSeq(updates)
    <3>1. Len(all) \in Nat /\ \A p \in 1..Len(all) : \E i, r : EventAt(all, updates, p, i, r)
      BY <1>2, <2>1, <2>3, EventsAre
    <3>2. ASSUME NEW k \in 1..Len(all) PROVE GrokWrites(f, all[k])
      <4>1. PICK i, r : EventAt(all, updates, k, i, r)
        BY <3>1
      <4>2. i \in 1..Len(f) /\ r \in 1..Len(updates[i]) /\ all[k] = updates[i][r]
        BY <1>2, <4>1 DEF EventAt
      <4> QED
        BY <1>5, <4>2
    <3> QED
      BY <3>1, <3>2 DEF all
  <2> QED
    BY <2>1, <2>2, <2>3
<1> QED
  BY <1>6, <1>7

(* Grok Build, whose counters keep within the limit: what they add up to is      *)
(* what the calls used, and the turns report how many calls each row stands for. *)
LEMMA GrokAddsUp ==
  ASSUME NEW f, Uses(f), SpentAt(f, 1..Len(f)) <= MaxBigint,
         "reported" \in Traits, "aggregate" \notin Traits,
         NEW log, log \in {GrokLog(f), GrokEventsOnly(f)}
  PROVE  AddsUp(GrokConversation(log))
<1> DEFINE told == Drafted(GrokUpdated, NoDraft, log.updates)
           opened == IF told.turns = <<>> THEN Drafted(GrokStarted, told, log.events) ELSE told
           terminals == Drafted(GrokTold, <<>>, log.updates)
           ended == GrokApplyEventMetadata(GrokApplyTerminals(opened, terminals), log.events)
           charged == ChargedTo(terminals, ended, [t \in DOMAIN ended.turns |-> t])
           Reports(turn) == {raw.modelCalls : raw \in GrokUsageOf(terminals, ended.turns[turn].key)}
           rows == Rows(charged)
           total == GrokTotal(charged.calls)
           apart(t) == GrokTotal(InTurn(charged.calls, t))
           turns == [t \in DOMAIN rows.turns |->
                       [rows.turns[t] EXCEPT !.calls = SumSet(Reports(t)), !.tokens = apart(t)]]
           new == [rows EXCEPT !.totals.tokens = total, !.turns = turns]
<1>1. GrokConversation(log) = new
  BY DEF GrokConversation, ChargedTo
<1>2. /\ Len(log.updates) \in Nat /\ \A k \in 1..Len(log.updates) : GrokWrites(f, log.updates[k])
      /\ Len(log.events) \in Nat
      /\ \A k \in 1..Len(log.events) : log.events[k].type = "turn_started" => log.events[k].turn_number \in Nat
  BY GrokFiles
<1>3. Uncalled(told)
  BY <1>2, GrokUpdatesOpen
<1> HIDE DEF told
<1>4. Uncalled(opened)
  <2>1. Uncalled(Drafted(GrokStarted, told, log.events))
    BY <1>2, <1>3, GrokEventsOpen
  <2> QED
    BY <1>3, <2>1
<1>5. IsList(terminals) /\ \A p \in 1..Len(terminals) : GrokTells(f, terminals[p])
  BY <1>2, GrokTerminalsTell
<1> HIDE DEF opened, terminals
<1>6. Uncalled(ended)
  <2>1. Uncalled(GrokApplyTerminals(opened, terminals))
    BY <1>4, GrokEndsApply
  <2> QED
    BY <1>2, <2>1, GrokEventsApply
<1> HIDE DEF ended
<1>7. GoodDraft(charged, Nat) /\ TokensOf(charged.calls) <= MaxBigint
  BY <1>5, <1>6, GrokCharges
<1> HIDE DEF charged
<1>8. AreCalls(charged.calls)
  BY <1>7 DEF GoodDraft
<1>9. AddsUp(rows)
  BY <1>7, GoodAddsUp DEF RowsOfGood
<1>10. Total(total) = AllTokens(charged.calls)
  BY <1>7, <1>8, GrokTotalIs
<1>15. ASSUME NEW t PROVE Total(apart(t)) = AllTokens(InTurn(charged.calls, t))
  <2> DEFINE those == InTurn(charged.calls, t)
  <2>1. AreCalls(those) /\ TokensOf(those) <= TokensOf(charged.calls)
    BY <1>8, PickedAreCalls, PickedSpend DEF InTurn
  <2>2. TokensOf(those) \in Nat /\ TokensOf(charged.calls) \in Nat
    BY <1>8, <2>1, TokensAreNumbers
  <2> HIDE DEF those
  <2>3. TokensOf(those) <= MaxBigint
    BY <1>7, <2>1, <2>2, MaxBigintAssumption
  <2> QED
    BY <2>1, <2>3, GrokTotalIs DEF those
<1>11. /\ rows.calls = charged.calls /\ DOMAIN rows = {"turns", "calls", "tools", "totals", "compactions"}
       /\ DOMAIN rows.totals = {"calls", "tools", "tokens"}
       /\ \A t \in DOMAIN rows.turns : DOMAIN rows.turns[t] = {"key", "status", "calls", "tools", "tokens"}
  BY DEF Rows
<1> HIDE DEF rows, total, Reports, apart
<1>12. /\ new.calls = rows.calls /\ new.tools = rows.tools /\ new.turns = turns
       /\ new.totals.calls = rows.totals.calls /\ new.totals.tools = rows.totals.tools
       /\ new.totals.tokens = total
  <2> HIDE DEF turns
  <2> QED
    BY <1>11
<1>13. DOMAIN turns = DOMAIN rows.turns
       /\ \A t \in DOMAIN rows.turns : turns[t].key = rows.turns[t].key /\ turns[t].tokens = apart(t)
  BY <1>11
<1> HIDE DEF new, turns
<1>14. AddsUp(new)
  BY <1>9, <1>10, <1>11, <1>12, <1>13, <1>15 DEF AddsUp
<1> QED
  BY <1>1, <1>14


-----------------------------------------------------------------------------
(* What a tool reports of a use is a record of tokens, *)
LEMMA ReportedIs ==
  ASSUME NEW use \in TokenRecords
  PROVE  Reported(use) \in TokenRecords
<1> DEFINE written == IF "writes" \in Traits THEN use[3] ELSE 0
           reasoned == IF "reasons" \in Traits THEN use[5] ELSE 0
           other == IF "totals" \in Traits THEN use[6] ELSE 0
           shown == OutputOf(use) - reasoned
           uncached == use[1] + use[3] - written
<1>1. /\ use[1] \in Nat /\ use[2] \in Nat /\ use[3] \in Nat
      /\ use[4] \in Nat /\ use[5] \in Nat /\ use[6] \in Nat
  BY UseIs
<1>2. written \in Nat /\ reasoned \in Nat /\ other \in Nat /\ uncached \in Nat /\ shown \in Nat
  BY <1>1 DEF OutputOf
<1>3. Reported(use) = <<uncached, use[2], written, shown, reasoned, other>>
  BY DEF Reported
<1> HIDE DEF written, reasoned, other, uncached, shown
<1> QED
  BY <1>1, <1>2, <1>3 DEF TokenRecords

(* and what a session goes on with uses is one: nothing, unless a model was called. *)
Using(fact) ==
  /\ fact.use \in TokenRecords
  /\ fact.kind \in {"ask", "again", "fail", "compact", "note", "close", "rewind"} => fact.use = NoTokens
  /\ fact.kind = "again" => Repeatable(fact.turn)

LEMMA HappeningUses ==
  ASSUME NEW fact \in Happenings
  PROVE  Using(fact)
<1> DEFINE plain == Plain("ask", IF "branches" \in Traits THEN Places \cup {0} ELSE Places)
                     \cup Plain("fail", {turn \in Places : Open(turn)})
                     \cup Plain("compact", Places) \cup Plain("note", Places)
                     \cup Plain("rewind", Turns(GeminiStanding(facts)))
           again == Plain("again", {turn \in Places : Repeatable(turn)})
           ended == Ending("answer", {turn \in Places : Open(turn)})
                     \cup Ending("finish", {turn \in Places : Unfinished(turn)})
           billed == Billing("begin", Places) \cup Billing("advised", Places)
                     \cup Billing("extra", Places) \cup Billing("side", Places)
<1>1. \A kind, turns : \A one \in Plain(kind, turns) : one.kind = kind /\ one.use = NoTokens /\ one.turn \in turns
  BY DEF Plain, Fact
<1>2. \A end \in Outcomes : Reported(end.use) \in TokenRecords
  BY OutcomesAssumption, ReportedIs DEF TokenRecords
<1>3. \A kind, turns : \A one \in Ending(kind, turns) : one.kind = kind /\ one.use \in TokenRecords
  BY <1>2 DEF Ending, Fact
<1>4. \A kind, turns : \A one \in Billing(kind, turns) : one.kind = kind /\ one.use \in TokenRecords
  BY <1>2 DEF Billing, Fact
<1>5. \A kind, turns : \A one \in Closing(kind, turns) : one.kind = kind /\ one.use = NoTokens
  BY DEF Closing, Fact
<1>6. fact \in plain \cup again \cup ended \cup billed \cup Closing("close", Places)
  BY Zenon DEF Happenings
<1>7. CASE fact \in plain
  <2>1. fact.kind # "again" /\ fact.use = NoTokens
    BY <1>1, <1>7
  <2> QED
    BY <2>1, NoTokensAre DEF Using
<1>8. CASE fact \in again
  <2>1. fact.turn \in {turn \in Places : Repeatable(turn)} /\ fact.use = NoTokens
    BY <1>1, <1>8
  <2> QED
    BY <2>1, NoTokensAre DEF Using
<1>9. CASE fact \in ended
  <2>1. fact.kind \in {"answer", "finish"} /\ fact.use \in TokenRecords
    BY <1>3, <1>9
  <2> QED
    BY <2>1 DEF Using
<1>10. CASE fact \in billed
  <2>1. fact.kind \in {"begin", "advised", "extra", "side"} /\ fact.use \in TokenRecords
    BY <1>4, <1>10
  <2> QED
    BY <2>1 DEF Using
<1>11. CASE fact \in Closing("close", Places)
  <2>1. fact.kind = "close" /\ fact.use = NoTokens
    BY <1>5, <1>11
  <2> QED
    BY <2>1, NoTokensAre DEF Using
<1> HIDE DEF plain, again, ended, billed
<1> QED
  BY <1>6, <1>7, <1>8, <1>9, <1>10, <1>11, Zenon

(* What is known of a session stays so while it goes on. *)
CInv == LInv /\ Uses(facts) /\ Idle(facts) /\ Repeats(facts)

LEMMA UsesGoOn ==
  ASSUME Uses(facts), Idle(facts), Repeats(facts), NEW fact \in Happenings
  PROVE  Uses(Append(facts, fact)) /\ Idle(Append(facts, fact)) /\ Repeats(Append(facts, fact))
<1> DEFINE n == Len(facts)
           longer == Append(facts, fact)
<1>1. n \in Nat /\ IsList(facts) /\ DOMAIN facts = 1..n /\ \A k \in 1..n : facts[k].use \in TokenRecords
  BY RecordsAre
<1>2. /\ IsList(longer) /\ Len(longer) = n + 1 /\ longer[n + 1] = fact
      /\ \A i \in 1..n : longer[i] = facts[i]
  BY <1>1, SameStarts
<1>3. Using(fact)
  BY HappeningUses
<1> HIDE DEF longer
<1>6. \A i \in 1..n + 1 : i \in 1..n \/ i = n + 1
  BY <1>1
<1>7. Uses(longer)
  BY <1>1, <1>2, <1>3, <1>6 DEF Uses, Using
<1>8. Idle(longer)
  <2>1. \A i \in 1..n : facts[i].kind \in {"ask", "again", "fail", "compact", "note", "close", "rewind"} =>
                          facts[i].use = NoTokens
    BY DEF Idle
  <2>2. ASSUME NEW i \in 1..n + 1,
               longer[i].kind \in {"ask", "again", "fail", "compact", "note", "close", "rewind"}
        PROVE  longer[i].use = NoTokens
    BY <1>2, <1>3, <1>6, <2>1, <2>2 DEF Using
  <2> QED
    BY <1>2, <2>2 DEF Idle
<1>9. Repeats(longer)
  <2>1. \A i \in 1..n : facts[i].kind = "again" =>
          \E j \in 1..i - 1 : facts[j].turn = facts[i].turn /\ facts[j].kind \in Whole
    BY DEF Repeats
  <2>2. ASSUME NEW i \in 1..n + 1, longer[i].kind = "again"
        PROVE  \E j \in 1..i - 1 : longer[j].turn = longer[i].turn /\ longer[j].kind \in Whole
    <3>1. CASE i \in 1..n
      <4>1. PICK j \in 1..i - 1 : facts[j].turn = facts[i].turn /\ facts[j].kind \in Whole
        BY <1>2, <2>1, <2>2, <3>1
      <4>2. j \in 1..n
        BY <1>1, <3>1
      <4> QED
        BY <1>2, <3>1, <4>1, <4>2
    <3>2. CASE i = n + 1
      <4>1. Repeatable(fact.turn)
        BY <1>2, <1>3, <2>2, <3>2 DEF Using
      <4>2. PICK j \in 1..n : facts[j].kind \in Whole /\ facts[j].turn = fact.turn
        BY <1>1, <4>1 DEF Repeatable
      <4>3. j \in 1..i - 1
        BY <1>1, <3>2
      <4> QED
        BY <1>2, <3>2, <4>2, <4>3
    <3> QED
      BY <1>6, <3>1, <3>2
  <2> QED
    BY <1>2, <2>2 DEF Repeats
<1> QED
  BY <1>7, <1>8, <1>9 DEF longer

(* It holds at first, *)
LEMMA CInit == Init => CInv
<1> SUFFICES ASSUME Init PROVE CInv
  OBVIOUS
<1>1. facts = <<>> /\ LInv
  BY LInit DEF Init
<1>2. IsList(facts) /\ Len(facts) = 0
  BY <1>1, WrittenOut
<1>3. Uses(facts) /\ Idle(facts) /\ Repeats(facts)
  BY <1>2 DEF Uses, Idle, Repeats
<1> QED
  BY <1>1, <1>3 DEF CInv

(* and with every step. *)
LEMMA CStep == CInv /\ [Next]_vars => CInv'
<1> SUFFICES ASSUME CInv, [Next]_vars PROVE CInv'
  OBVIOUS
<1>1. LInv' /\ Uses(facts) /\ Idle(facts) /\ Repeats(facts)
  BY LStep DEF CInv
<1>2. CASE Write
  <2>1. PICK fact \in Happenings : facts' = Append(facts, fact)
    BY <1>2 DEF Write
  <2>2. Uses(Append(facts, fact)) /\ Idle(Append(facts, fact)) /\ Repeats(Append(facts, fact))
    BY <1>1, UsesGoOn
  <2> QED
    BY <1>1, <2>1, <2>2 DEF CInv
<1>3. CASE ~Write
  <2>1. facts' = facts
    BY <1>3 DEF Next, KeepCopy, Select, ReadAgain, Ingest, vars
  <2> QED
    BY <1>1, <2>1 DEF CInv
<1> QED
  BY <1>2, <1>3


(* Of whichever tool a session is, its counters add up. *)
LEMMA TheyAddUp ==
  ASSUME CInv
  PROVE  CountersAddUp
<1> DEFINE rows == Conversation(LogOf(provider, facts))
<1>1. /\ provider \in Tools /\ Uses(facts) /\ Idle(facts) /\ Repeats(facts)
      /\ Sound(facts) /\ OfTool(facts, TraitsOf(provider))
  BY DEF CInv, LInv, SessionOf
<1>2. SUFFICES ASSUME Sparing PROVE AddsUp(rows)
  BY DEF CountersAddUp
<1> HIDE DEF rows
<1>3. CASE provider = "pi"
  <2>1. rows = PiConversation(PiLog(facts)) /\ Traits = PiTraits
    BY <1>3, Zenon DEF rows, Conversation, LogOf, Traits, TraitsOf
  <2>2. "aggregate" \notin Traits
    BY <2>1 DEF PiTraits
  <2> QED
    BY <1>1, <2>1, <2>2, PiRows, GoodAddsUp
<1>4. CASE provider = "qwen"
  <2>1. rows = QwenConversation(QwenLog(facts)) /\ Traits = QwenTraits
    BY <1>4, Zenon DEF rows, Conversation, LogOf, Traits, TraitsOf
  <2>2. "aggregate" \notin Traits
    BY <2>1 DEF QwenTraits
  <2> QED
    BY <1>1, <2>1, <2>2, QwenRows, GoodAddsUp
<1>5. CASE provider = "codex"
  <2>1. rows = CodexConversation(CodexLog(facts)) /\ Traits = CodexTraits
    BY <1>5, Zenon DEF rows, Conversation, LogOf, Traits, TraitsOf
  <2>2. "aggregate" \notin Traits
    BY <2>1 DEF CodexTraits
  <2> QED
    BY <1>1, <2>1, <2>2, CodexRows, GoodAddsUp
<1>6. CASE provider = "claude"
  <2>1. rows = ClaudeConversation(ClaudeLog(facts)) /\ Traits = ClaudeTraits
    BY <1>6, Zenon DEF rows, Conversation, LogOf, Traits, TraitsOf
  <2>2. "aggregate" \notin Traits
    BY <2>1 DEF ClaudeTraits
  <2> QED
    BY <1>1, <2>1, <2>2, ClaudeRows, GoodAddsUp
<1>7. CASE provider = "copilot"
  <2>1. rows = CopilotConversation(CopilotLog(facts)) /\ Traits = CopilotTraits
    BY <1>7, Zenon DEF rows, Conversation, LogOf, Traits, TraitsOf
  <2>2. "aggregate" \notin Traits
    BY <2>1 DEF CopilotTraits
  <2>3. OfTool(facts, CopilotTraits)
    BY <1>1, <2>1 DEF Traits
  <2> QED
    BY <1>1, <2>1, <2>2, <2>3, CopilotRows, GoodAddsUp
<1>8. CASE provider = "opencode"
  <2>1. rows = OpenCodeConversation(OpenCodeLog(facts)) /\ Traits = OpenCodeTraits
    BY <1>8, Zenon DEF rows, Conversation, LogOf, Traits, TraitsOf
  <2>2. "aggregate" \notin Traits
    BY <2>1 DEF OpenCodeTraits
  <2> QED
    BY <1>1, <2>1, <2>2, OpenCodeRows, GoodAddsUp
<1>9. CASE provider = "aider"
  <2>1. rows = AiderConversation(AiderLog(facts)) /\ Traits = AiderTraits
    BY <1>9, Zenon DEF rows, Conversation, LogOf, Traits, TraitsOf
  <2>2. "aggregate" \notin Traits
    BY <2>1 DEF AiderTraits
  <2> QED
    BY <1>1, <2>1, <2>2, AiderRows, GoodAddsUp
<1>10. CASE provider = "cursor"
  <2>1. rows = CursorConversation(CursorLog(facts)) /\ Traits = CursorTraits
    BY <1>10, Zenon DEF rows, Conversation, LogOf, Traits, TraitsOf
  <2>2. "aggregate" \notin Traits
    BY <2>1 DEF CursorTraits
  <2> QED
    BY <1>1, <2>1, <2>2, CursorRows, GoodAddsUp
<1>11. CASE provider = "cline"
  <2>1. rows = ClineConversation(ClineLog(facts)) /\ Traits = ClineTraits
    BY <1>11, Zenon DEF rows, Conversation, LogOf, Traits, TraitsOf
  <2>2. "aggregate" \notin Traits
    BY <2>1 DEF ClineTraits
  <2> QED
    BY <1>1, <2>1, <2>2, ClineRows, GoodAddsUp
<1>12. CASE provider = "amazon-q"
  <2>1. rows = AmazonQConversation(AmazonQLog(facts)) /\ Traits = AmazonQTraits
    BY <1>12, Zenon DEF rows, Conversation, LogOf, Traits, TraitsOf
  <2>2. "aggregate" \notin Traits
    BY <2>1 DEF AmazonQTraits
  <2> QED
    BY <1>1, <2>1, <2>2, AmazonQRows, GoodAddsUp
<1>13. CASE provider = "plandex"
  <2>1. rows = PlandexConversation(PlandexLog(facts)) /\ Traits = PlandexTraits
    BY <1>13, Zenon DEF rows, Conversation, LogOf, Traits, TraitsOf
  <2>2. "aggregate" \notin Traits
    BY <2>1 DEF PlandexTraits
  <2> QED
    BY <1>1, <2>1, <2>2, PlandexRows, GoodAddsUp
<1>14. CASE provider = "kimi"
  <2>1. rows = KimiConversation(KimiLog(facts)) /\ Traits = KimiTraits
    BY <1>14, Zenon DEF rows, Conversation, LogOf, Traits, TraitsOf
  <2>2. "aggregate" \notin Traits
    BY <2>1 DEF KimiTraits
  <2>3. OfTool(facts, KimiTraits)
    BY <1>1, <2>1 DEF Traits
  <2> QED
    BY <1>1, <2>1, <2>2, <2>3, KimiRows, GoodAddsUp
<1>15. CASE provider = "openhands"
  <2>1. rows = OpenHandsConversation(OpenHandsLog(facts)) /\ Traits = OpenHandsTraits
    BY <1>15, Zenon DEF rows, Conversation, LogOf, Traits, TraitsOf
  <2>2. "aggregate" \notin Traits /\ "nets" \in Traits
    BY <2>1 DEF OpenHandsTraits
  <2>3. Moderate(facts)
    BY <1>1, <1>2, <2>2 DEF Sparing, Moderate, Uses, IsList
  <2> QED
    BY <1>1, <2>1, <2>2, <2>3, OpenHandsRows, GoodAddsUp
<1>16. CASE provider = "continue"
  <2>1. rows = ContinueConversation(ContinueLog(facts)) /\ Traits = ContinueTraits
    BY <1>16, Zenon DEF rows, Conversation, LogOf, Traits, TraitsOf
  <2>2. "aggregate" \notin Traits
    BY <2>1 DEF ContinueTraits
  <2> QED
    BY <1>1, <2>1, <2>2, ContinueRows, GoodAddsUp
<1>17. CASE provider = "amp"
  <2>1. rows = AmpConversation(AmpLog(facts)) /\ Traits = AmpTraits
    BY <1>17, Zenon DEF rows, Conversation, LogOf, Traits, TraitsOf
  <2>2. "aggregate" \notin Traits
    BY <2>1 DEF AmpTraits
  <2> QED
    BY <1>1, <2>1, <2>2, AmpRows, GoodAddsUp DEF AmpLog
<1>18. CASE provider = "amp-ledger"
  <2>1. rows = AmpConversation(AmpLedger(facts)) /\ Traits = AmpTraits \cup {"extra"}
    BY <1>18, Zenon DEF rows, Conversation, LogOf, Traits, TraitsOf
  <2>2. "aggregate" \notin Traits
    BY <2>1 DEF AmpTraits
  <2> QED
    BY <1>1, <2>1, <2>2, AmpRows, GoodAddsUp DEF AmpLedger
<1>19. CASE provider = "crush"
  <2>1. rows = CrushConversation(CrushLog(facts)) /\ Traits = CrushTraits
    BY <1>19, Zenon DEF rows, Conversation, LogOf, Traits, TraitsOf
  <2>2. "aggregate" \notin Traits
    BY <2>1 DEF CrushTraits
  <2> QED
    BY <1>1, <2>1, <2>2, CrushRows, GoodAddsUp
<1>20. CASE provider = "goose"
  <2>1. rows = GooseConversation(GooseLog(facts)) /\ Traits = GooseTraits
    BY <1>20, Zenon DEF rows, Conversation, LogOf, Traits, TraitsOf
  <2>2. "aggregate" \notin Traits
    BY <2>1 DEF GooseTraits
  <2> QED
    BY <1>1, <2>1, <2>2, GooseRows, GoodAddsUp
<1>21. CASE provider = "kilo"
  <2>1. rows = KiloConversation(KiloLog(facts)) /\ Traits = KiloTraits
    BY <1>21, Zenon DEF rows, Conversation, LogOf, Traits, TraitsOf
  <2>2. "aggregate" \notin Traits
    BY <2>1 DEF KiloTraits
  <2> QED
    BY <1>1, <2>1, <2>2, KiloRows, GoodAddsUp
<1>22. CASE provider = "gemini"
  <2>1. rows = GeminiConversation(GeminiLog(facts)) /\ Traits = GeminiTraits
    BY <1>22, Zenon DEF rows, Conversation, LogOf, Traits, TraitsOf
  <2>2. "aggregate" \notin Traits
    BY <2>1 DEF GeminiTraits
  <2> QED
    BY <1>1, <2>1, <2>2, GeminiRows, GoodAddsUp
<1>23. CASE provider = "gemini-json"
  <2>1. rows = GeminiConversation(GeminiDocument(facts)) /\ Traits = GeminiTraits
    BY <1>23, Zenon DEF rows, Conversation, LogOf, Traits, TraitsOf
  <2>2. "aggregate" \notin Traits
    BY <2>1 DEF GeminiTraits
  <2> QED
    BY <1>1, <2>1, <2>2, GeminiRows, GoodAddsUp
<1>24. CASE provider = "mistral-vibe"
  <2>1. rows = VibeConversation(VibeLog(facts)) /\ Traits = VibeTraits
    BY <1>24, Zenon DEF rows, Conversation, LogOf, Traits, TraitsOf
  <2>2. "aggregate" \in Traits /\ OfTool(facts, VibeTraits)
    BY <1>1, <2>1 DEF VibeTraits, Traits
  <2> QED
    BY <1>1, <2>1, <2>2, VibeAddsUp
<1>25. CASE provider \in {"grok", "grok-events"}
  <2> DEFINE log == LogOf(provider, facts)
  <2>1. rows = GrokConversation(log) /\ Traits = GrokTraits
    BY <1>25, Zenon DEF rows, Conversation, Traits, TraitsOf
  <2>2. log \in {GrokLog(facts), GrokEventsOnly(facts)}
    <3>1. CASE provider = "grok"
      BY <3>1, Zenon DEF LogOf
    <3>2. CASE provider = "grok-events"
      BY <3>2, Zenon DEF LogOf
    <3> QED
      BY <1>25, <3>1, <3>2
  <2> HIDE DEF log
  <2>3. "reported" \in Traits /\ "aggregate" \notin Traits /\ "apart" \in Traits
    BY <2>1 DEF GrokTraits
  <2>4. SpentAt(facts, 1..Len(facts)) <= MaxBigint
    <3>1. DOMAIN facts = 1..Len(facts)
      BY <1>1, RecordsAre
    <3>2. UsesAt(facts, 1..Len(facts)) = [k \in DOMAIN facts |-> [tokens |-> facts[k].use]]
      BY <3>1 DEF UsesAt
    <3>3. SpentAt(facts, 1..Len(facts)) = Spent
      BY <3>2, Zenon DEF SpentAt, Spent
    <3> QED
      BY <1>2, <2>3, <3>3 DEF Sparing
  <2> QED
    BY <1>1, <2>1, <2>2, <2>3, <2>4, GrokAddsUp
<1> QED
  BY <1>1, <1>3, <1>4, <1>5, <1>6, <1>7, <1>8, <1>9, <1>10, <1>11, <1>12, <1>13,
     <1>14, <1>15, <1>16, <1>17, <1>18, <1>19, <1>20, <1>21, <1>22, <1>23, <1>24, <1>25, Zenon DEF Tools

(* CountersAddUp: whatever a coding tool of any of the twenty-four forms has      *)
(* written, of sessions of any length and calls of any size, below the limit of  *)
(* a counter and above it, the counters that its adapter puts on the             *)
(* conversation and on its turns (adapters/_shared.py add_tokens, bounded_sum)   *)
(* are those of the rows under them, and no two turns share an id.  Not so Grok  *)
(* Build when its session exceeds the limit (grok.py _add_tokens), nor OpenHands *)
(* when one call does (openhands.py): Sparing leaves these out.                  *)
THEOREM CountersAddUpAlways == Spec => []CountersAddUp
<1>1. CInv => CountersAddUp
  BY TheyAddUp
<1> QED
  BY <1>1, CInit, CStep, PTL DEF Spec
===============================================================================
