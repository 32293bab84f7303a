-------------------------- MODULE MqttQueueProofs ---------------------------
(***************************************************************************)
(* What QueueUspConnectRecord_MQTT keeps of a queue: ResponsesIn of the    *)
(* queue after each change to it, for every queue.  An enumeration of a    *)
(* set of positions in increasing order is unique, and there is one for    *)
(* every queue: one without would be longer than the shortest one without. *)
(***************************************************************************)
EXTENDS MqttClient, FiniteSetTheorems, WellFoundedInduction, TLAPS

Entries == Records \cup {NoRecord}

Onto(f, n, S) == \A x \in S : \E i \in 1..n : f[i] = x

(* t is what a queue q has of responses, in the order of q. *)
Selects(t, q) ==
    \E f \in [1..Len(t) -> Kept(q)] :
        /\ Increasing(f, Len(t)) /\ Onto(f, Len(t), Kept(q))
        /\ \A i \in 1..Len(t) : t[i] = q[f[i]]

-----------------------------------------------------------------------------
(* Enumerations. *)

LEMMA LeastNat ==
  ASSUME NEW S \in SUBSET Nat, S # {}
  PROVE  \E x \in S : \A y \in S : x <= y
<1>1. PICK x \in S : \A y \in S : <<y, x>> \notin OpToRel(<, Nat)
  BY NatLessThanWellFounded, WFMin
<1>2. \A y \in Nat : y < x => <<y, x>> \in OpToRel(<, Nat)
  BY Zenon DEF OpToRel
<1>3. \A y \in S : ~(y < x)
  BY <1>1, <1>2, Zenon
<1>4. \A y \in S : x <= y
  BY <1>3
<1> QED
  BY <1>4

LEMMA KeptPositions ==
  ASSUME NEW q \in Seq(Entries)
  PROVE  /\ Kept(q) \in SUBSET Nat /\ IsFiniteSet(Kept(q))
         /\ Cardinality(Kept(q)) \in Nat
<1>1. Len(q) \in Nat
  OBVIOUS
<1>2. IsFiniteSet(1..Len(q))
  BY <1>1, FS_Interval
<1>3. Kept(q) \in SUBSET (1..Len(q))
  BY DEF Kept
<1>4. IsFiniteSet(Kept(q))
  BY <1>2, <1>3, FS_Subset
<1> QED
  BY <1>1, <1>3, <1>4, FS_CardinalityType

LEMMA EnumerationInjective ==
  ASSUME NEW S \in SUBSET Nat, NEW n \in Nat, NEW f \in [1..n -> S], Increasing(f, n)
  PROVE  f \in Injection(1..n, S)
<1>1. \A i, j \in 1..n : f[i] = f[j] => i = j
  <2> SUFFICES ASSUME NEW i \in 1..n, NEW j \in 1..n, f[i] = f[j], i # j PROVE FALSE
    OBVIOUS
  <2>1. f[i] \in Nat /\ f[j] \in Nat
    OBVIOUS
  <2>2. i < j \/ j < i
    OBVIOUS
  <2> QED
    BY <2>1, <2>2 DEF Increasing
<1> QED
  BY <1>1 DEF Injection, IsInjective

LEMMA EnumerationSize ==
  ASSUME NEW S \in SUBSET Nat, NEW n \in Nat, NEW f \in [1..n -> S],
         Increasing(f, n), Onto(f, n, S)
  PROVE  Cardinality(S) = n
<1>1. f \in Injection(1..n, S)
  BY EnumerationInjective
<1>2. f \in Surjection(1..n, S)
  BY DEF Surjection, Onto
<1>3. ExistsBijection(1..n, S)
  BY <1>1, <1>2 DEF ExistsBijection, Bijection
<1> QED
  BY <1>3, FS_CountingElements

LEMMA EnumerationOnto ==
  ASSUME NEW S \in SUBSET Nat, IsFiniteSet(S), NEW n \in Nat, n = Cardinality(S),
         NEW f \in [1..n -> S], Increasing(f, n)
  PROVE  Onto(f, n, S)
<1>1. f \in Injection(1..n, S)
  BY EnumerationInjective
<1>2. Cardinality(1..n) = n
  BY FS_Interval
<1>3. f \in Surjection(1..n, S)
  BY <1>1, <1>2, FS_Injection
<1> QED
  BY <1>3 DEF Surjection, Onto

(* Two enumerations of a set agree: at the first place where they did not, *)
(* the smaller element would have to come later in the other.              *)
LEMMA EnumerationUnique ==
  ASSUME NEW S \in SUBSET Nat, NEW n \in Nat,
         NEW f \in [1..n -> S], Increasing(f, n), Onto(f, n, S),
         NEW g \in [1..n -> S], Increasing(g, n), Onto(g, n, S)
  PROVE  f = g
<1> DEFINE D == {i \in 1..n : f[i] # g[i]}
<1>1. ASSUME NEW u \in [1..n -> S], Increasing(u, n), Onto(u, n, S),
             NEW v \in [1..n -> S], Increasing(v, n), Onto(v, n, S),
             NEW i \in 1..n, \A j \in 1..n : j < i => u[j] = v[j], u[i] < v[i]
      PROVE  FALSE
  <2>1. PICK j \in 1..n : v[j] = u[i]
    BY <1>1 DEF Onto
  <2>2. u[i] \in Nat /\ v[i] \in Nat /\ v[j] \in Nat
    OBVIOUS
  <2>3. CASE j < i
    BY <1>1, <2>1, <2>2, <2>3 DEF Increasing
  <2>4. CASE j = i
    BY <1>1, <2>1, <2>2, <2>4
  <2>5. CASE i < j
    <3>1. v[i] < v[j]
      BY <1>1, <2>5 DEF Increasing
    <3> QED
      BY <1>1, <2>1, <2>2, <3>1
  <2> QED
    BY <2>3, <2>4, <2>5
<1>2. ASSUME D # {} PROVE FALSE
  <2>1. PICK i \in D : \A j \in D : i <= j
    <3>1. D \in SUBSET Nat
      OBVIOUS
    <3> HIDE DEF D
    <3> QED BY <1>2, <3>1, LeastNat
  <2>2. i \in 1..n /\ \A j \in 1..n : j < i => f[j] = g[j]
    BY <2>1
  <2>3. f[i] \in Nat /\ g[i] \in Nat /\ f[i] # g[i]
    BY <2>1
  <2>4. f[i] < g[i] \/ g[i] < f[i]
    BY <2>3
  <2>5. \A j \in 1..n : j < i => g[j] = f[j]
    BY <2>2
  <2>6. CASE f[i] < g[i]
    BY <1>1, <2>2, <2>6
  <2>7. CASE g[i] < f[i]
    BY <1>1, <2>2, <2>5, <2>7
  <2> QED
    BY <2>4, <2>6, <2>7
<1>3. \A i \in 1..n : f[i] = g[i]
  BY <1>2
<1> QED
  BY <1>3

-----------------------------------------------------------------------------
(* ResponsesIn is what a queue selects. *)

LEMMA SelectedIs ==
  ASSUME NEW q \in Seq(Entries), NEW t \in Seq(Entries), Selects(t, q)
  PROVE  ResponsesIn(q) = t
<1> DEFINE n == Cardinality(Kept(q))
<1> DEFINE m == Len(t)
<1> DEFINE g == CHOOSE g \in [1..n -> Kept(q)] : Increasing(g, n)
<1>1. PICK f \in [1..m -> Kept(q)] :
         /\ Increasing(f, m) /\ Onto(f, m, Kept(q))
         /\ \A i \in 1..m : t[i] = q[f[i]]
  BY DEF Selects
<1>2. m \in Nat /\ n \in Nat /\ IsFiniteSet(Kept(q)) /\ Kept(q) \in SUBSET Nat
  BY KeptPositions
<1>3. n = m
  <2> HIDE DEF m
  <2> QED BY <1>1, <1>2, EnumerationSize
<1>4. g \in [1..n -> Kept(q)] /\ Increasing(g, n)
  <2> HIDE DEF m, n
  <2> QED BY <1>1, <1>3
<1>5. Onto(g, n, Kept(q))
  <2>1. n = Cardinality(Kept(q))
    OBVIOUS
  <2> HIDE DEF g, n
  <2> QED BY <1>2, <1>4, <2>1, EnumerationOnto
<1>6. g = f
  <2> HIDE DEF g, m, n
  <2> QED BY <1>1, <1>2, <1>3, <1>4, <1>5, EnumerationUnique
<1>7. ResponsesIn(q) = [i \in 1..n |-> q[g[i]]]
  BY DEF ResponsesIn
<1>8. t = [i \in 1..m |-> t[i]]
  OBVIOUS
<1> HIDE DEF g, m, n
<1> QED
  BY <1>1, <1>3, <1>6, <1>7, <1>8

LEMMA SelectEmpty == Selects(<<>>, <<>>)
<1>1. Kept(<<>>) = {}
  BY DEF Kept
<1>2. [i \in 1..0 |-> 0] \in [1..Len(<<>>) -> Kept(<<>>)]
  BY <1>1
<1> QED
  BY <1>1, <1>2 DEF Selects, Increasing, Onto

LEMMA SelectAppend ==
  ASSUME NEW q \in Seq(Entries), NEW t \in Seq(Entries), Selects(t, q), NEW r \in Entries
  PROVE  /\ r \in Responses => Selects(Append(t, r), Append(q, r))
         /\ r \notin Responses => Selects(t, Append(q, r))
<1> DEFINE n == Len(t)
<1> DEFINE p == Append(q, r)
<1>1. PICK f \in [1..n -> Kept(q)] :
         /\ Increasing(f, n) /\ Onto(f, n, Kept(q))
         /\ \A i \in 1..n : t[i] = q[f[i]]
  BY DEF Selects
<1>2. /\ n \in Nat /\ Len(q) \in Nat /\ Len(p) = Len(q) + 1
      /\ \A i \in 1..Len(q) : p[i] = q[i]
      /\ p[Len(q) + 1] = r
  OBVIOUS
<1>3. Kept(q) \subseteq 1..Len(q)
  BY DEF Kept
<1>4. Kept(p) = IF r \in Responses THEN Kept(q) \cup {Len(q) + 1} ELSE Kept(q)
  <2> HIDE DEF p
  <2> QED BY <1>2 DEF Kept
<1>5. ASSUME r \notin Responses PROVE Selects(t, p)
  <2>1. Kept(p) = Kept(q)
    BY <1>4, <1>5
  <2>2. \A i \in 1..n : t[i] = p[f[i]]
    <3> HIDE DEF p
    <3> QED BY <1>1, <1>2, <1>3
  <2> HIDE DEF p
  <2> QED
    BY <1>1, <2>1, <2>2 DEF Selects
<1>6. ASSUME r \in Responses PROVE Selects(Append(t, r), p)
  <2> DEFINE u == Append(t, r)
  <2> DEFINE g == [i \in 1..(n + 1) |-> IF i = n + 1 THEN Len(q) + 1 ELSE f[i]]
  <2>1. Len(u) = n + 1 /\ u[n + 1] = r /\ \A i \in 1..n : u[i] = t[i]
    OBVIOUS
  <2>2. Kept(p) = Kept(q) \cup {Len(q) + 1}
    BY <1>4, <1>6
  <2> HIDE DEF n, p, u
  <2>3. g \in [1..Len(u) -> Kept(p)]
    BY <1>2, <2>1, <2>2
  <2>4. Increasing(g, n + 1)
    <3> SUFFICES ASSUME NEW i \in 1..(n + 1), NEW j \in 1..(n + 1), i < j
                 PROVE  g[i] < g[j]
      BY DEF Increasing
    <3>1. i \in 1..n /\ f[i] \in 1..Len(q) /\ g[i] = f[i]
      BY <1>2, <1>3
    <3>2. CASE j = n + 1
      BY <1>2, <3>1, <3>2
    <3>3. CASE j # n + 1
      <4>0. j \in 1..n
        BY <1>2, <3>3
      <4>1. j \in 1..n /\ g[j] = f[j]
        BY <1>2, <3>3, <4>0
      <4>2. f[i] < f[j]
        BY <1>1, <3>1, <4>1 DEF Increasing
      <4> QED BY <3>1, <4>1, <4>2
    <3> QED
      BY <3>2, <3>3
  <2>5. Onto(g, n + 1, Kept(p))
    <3> SUFFICES ASSUME NEW x \in Kept(p) PROVE \E i \in 1..(n + 1) : g[i] = x
      BY DEF Onto
    <3>1. CASE x = Len(q) + 1
      <4>1. n + 1 \in 1..(n + 1) /\ g[n + 1] = x
        BY <1>2, <3>1
      <4> QED BY <4>1
    <3>2. CASE x \in Kept(q)
      <4>1. PICK i \in 1..n : f[i] = x
        BY <1>1, <3>2 DEF Onto
      <4>2. i \in 1..(n + 1) /\ g[i] = x
        BY <1>2, <4>1
      <4> QED BY <4>2
    <3> QED
      BY <2>2, <3>1, <3>2
  <2>6. \A i \in 1..(n + 1) : u[i] = p[g[i]]
    <3> SUFFICES ASSUME NEW i \in 1..(n + 1) PROVE u[i] = p[g[i]]
      OBVIOUS
    <3>1. CASE i = n + 1
      BY <1>2, <2>1, <3>1
    <3>2. CASE i # n + 1
      <4>1. i \in 1..n /\ g[i] = f[i] /\ f[i] \in 1..Len(q)
        BY <1>2, <1>3, <3>2
      <4> QED BY <1>1, <1>2, <2>1, <4>1
    <3> QED BY <3>1, <3>2
  <2> HIDE DEF g
  <2>7. Selects(u, p)
    BY <2>1, <2>3, <2>4, <2>5, <2>6 DEF Selects
  <2> QED
    BY <2>7 DEF u
<1> QED
  BY <1>5, <1>6 DEF p

LEMMA SelectPrepend ==
  ASSUME NEW q \in Seq(Entries), NEW t \in Seq(Entries), Selects(t, q), NEW r \in Entries
  PROVE  /\ r \in Responses => Selects(<<r>> \o t, <<r>> \o q)
         /\ r \notin Responses => Selects(t, <<r>> \o q)
<1> DEFINE n == Len(t)
<1> DEFINE p == <<r>> \o q
<1>1. PICK f \in [1..n -> Kept(q)] :
         /\ Increasing(f, n) /\ Onto(f, n, Kept(q))
         /\ \A i \in 1..n : t[i] = q[f[i]]
  BY DEF Selects
<1>2. /\ n \in Nat /\ Len(q) \in Nat /\ Len(p) = Len(q) + 1
      /\ \A i \in 1..Len(q) : p[i + 1] = q[i]
      /\ p[1] = r
  OBVIOUS
<1>3. Kept(q) \subseteq 1..Len(q)
  BY DEF Kept
<1> DEFINE up == [i \in 1..n |-> f[i] + 1]
<1>4. \A x \in Kept(p) : (x = 1 /\ r \in Responses) \/ (x # 1 /\ x - 1 \in Kept(q))
  <2> HIDE DEF p
  <2> SUFFICES ASSUME NEW x \in Kept(p), x # 1 \/ r \notin Responses
               PROVE  x # 1 /\ x - 1 \in Kept(q)
    OBVIOUS
  <2>1. x \in 1..(Len(q) + 1) /\ p[x] \in Responses
    BY <1>2 DEF Kept
  <2>2. x # 1 /\ x - 1 \in 1..Len(q)
    BY <1>2, <2>1
  <2>3. p[x] = q[x - 1]
    <3>1. p[(x - 1) + 1] = q[x - 1]
      BY <1>2, <2>2
    <3>2. (x - 1) + 1 = x
      BY <1>2, <2>1
    <3> QED BY <3>1, <3>2
  <2> QED BY <2>1, <2>2, <2>3 DEF Kept
<1>5. \A x \in Kept(q) : x + 1 \in Kept(p)
  <2> HIDE DEF p
  <2> QED BY <1>2 DEF Kept
<1>6. \A i \in 1..n : f[i] \in 1..Len(q) /\ f[i] \in Kept(q) /\ t[i] = p[f[i] + 1]
  <2> HIDE DEF p
  <2> QED BY <1>1, <1>2, <1>3
<1>7. ASSUME r \notin Responses PROVE Selects(t, p)
  <2> HIDE DEF p
  <2>1. up \in [1..n -> Kept(p)]
    BY <1>5, <1>6
  <2>2. Increasing(up, n)
    BY <1>1, <1>6 DEF Increasing
  <2>3. Onto(up, n, Kept(p))
    <3> SUFFICES ASSUME NEW x \in Kept(p) PROVE \E i \in 1..n : up[i] = x
      BY DEF Onto
    <3>1. x - 1 \in Kept(q) /\ x \in Nat
      BY <1>2, <1>4, <1>7 DEF Kept
    <3>2. PICK i \in 1..n : f[i] = x - 1
      BY <1>1, <3>1 DEF Onto
    <3>3. up[i] = x
      BY <3>1, <3>2
    <3> QED BY <3>3
  <2>4. \A i \in 1..n : t[i] = p[up[i]]
    BY <1>6
  <2> HIDE DEF up
  <2> QED
    BY <2>1, <2>2, <2>3, <2>4 DEF Selects
<1>8. ASSUME r \in Responses PROVE Selects(<<r>> \o t, p)
  <2> DEFINE u == <<r>> \o t
  <2> DEFINE g == [i \in 1..(n + 1) |-> IF i = 1 THEN 1 ELSE f[i - 1] + 1]
  <2>1. Len(u) = n + 1 /\ u[1] = r /\ \A i \in 1..n : u[i + 1] = t[i]
    OBVIOUS
  <2> HIDE DEF p, u
  <2>2. 1 \in Kept(p)
    BY <1>2, <1>8 DEF Kept
  <2>3. \A i \in 1..(n + 1) : i # 1 => i - 1 \in 1..n /\ g[i] = f[i - 1] + 1
    BY <1>2
  <2>4. g[1] = 1
    BY <1>2
  <2>5. \A i \in 1..(n + 1) : g[i] \in Kept(p)
    BY <1>5, <1>6, <2>2, <2>3, <2>4
  <2>6. g \in [1..Len(u) -> Kept(p)]
    BY <2>1, <2>5
  <2> HIDE DEF g
  <2>7. Increasing(g, n + 1)
    <3> SUFFICES ASSUME NEW i \in 1..(n + 1), NEW j \in 1..(n + 1), i < j
                 PROVE  g[i] < g[j]
      BY DEF Increasing
    <3>1. j # 1 /\ j - 1 \in 1..n /\ g[j] = f[j - 1] + 1 /\ f[j - 1] \in 1..Len(q)
      BY <1>2, <1>6, <2>3
    <3>2. CASE i = 1
      BY <1>2, <2>4, <3>1, <3>2
    <3>3. CASE i # 1
      <4>1. i - 1 \in 1..n /\ g[i] = f[i - 1] + 1 /\ f[i - 1] \in 1..Len(q)
        BY <1>6, <2>3, <3>3
      <4>2. f[i - 1] < f[j - 1]
        <5>1. i - 1 < j - 1
          BY <1>2
        <5> QED BY <1>1, <3>1, <4>1, <5>1 DEF Increasing
      <4> QED BY <1>2, <3>1, <4>1, <4>2
    <3> QED BY <3>2, <3>3
  <2>8. Onto(g, n + 1, Kept(p))
    <3> SUFFICES ASSUME NEW x \in Kept(p) PROVE \E i \in 1..(n + 1) : g[i] = x
      BY DEF Onto
    <3>1. CASE x = 1
      BY <1>2, <2>4, <3>1
    <3>2. CASE x # 1
      <4>1. x - 1 \in Kept(q) /\ x \in Nat
        BY <1>2, <1>4, <3>2 DEF Kept
      <4>2. PICK i \in 1..n : f[i] = x - 1
        BY <1>1, <4>1 DEF Onto
      <4>3. i + 1 \in 1..(n + 1) /\ i + 1 # 1 /\ (i + 1) - 1 = i
        BY <1>2
      <4>4. g[i + 1] = x
        <5>1. g[i + 1] = f[(i + 1) - 1] + 1
          BY <2>3, <4>3
        <5> QED BY <4>1, <4>2, <4>3, <5>1
      <4> QED BY <4>3, <4>4
    <3> QED BY <3>1, <3>2
  <2>9. \A i \in 1..(n + 1) : u[i] = p[g[i]]
    <3> SUFFICES ASSUME NEW i \in 1..(n + 1) PROVE u[i] = p[g[i]]
      OBVIOUS
    <3>1. CASE i = 1
      BY <1>2, <2>1, <2>4, <3>1
    <3>2. CASE i # 1
      <4>1. i - 1 \in 1..n /\ g[i] = f[i - 1] + 1 /\ (i - 1) + 1 = i
        BY <1>2, <2>3, <3>2
      <4> QED BY <1>6, <2>1, <4>1
    <3> QED BY <3>1, <3>2
  <2>10. Selects(u, p)
    BY <2>1, <2>6, <2>7, <2>8, <2>9 DEF Selects
  <2> QED
    BY <2>10 DEF u
<1> QED
  BY <1>7, <1>8 DEF p

(* Every queue selects something. *)
LEMMA SelectExists == \A q \in Seq(Entries) : \E t \in Seq(Entries) : Selects(t, q)
<1> DEFINE Without(q) == \A t \in Seq(Entries) : ~Selects(t, q)
<1> DEFINE Bad == {n \in Nat : \E q \in Seq(Entries) : Len(q) = n /\ Without(q)}
<1>1. ASSUME Bad # {} PROVE FALSE
  <2>1. PICK n \in Bad : \A m \in Bad : n <= m
    <3>1. Bad \in SUBSET Nat
      OBVIOUS
    <3> HIDE DEF Bad
    <3> QED BY <1>1, <3>1, LeastNat
  <2>2. PICK q \in Seq(Entries) : Len(q) = n /\ Without(q)
    BY <2>1
  <2>3. n \in Nat
    BY <2>1
  <2>4. n # 0
    <3>1. n = 0 => q = <<>>
      BY <2>2
    <3>2. <<>> \in Seq(Entries)
      OBVIOUS
    <3> QED BY <2>2, <3>1, <3>2, SelectEmpty
  <2> DEFINE p == [i \in 1..(n - 1) |-> q[i]]
  <2>5. p \in Seq(Entries) /\ Len(p) = n - 1 /\ n - 1 \in Nat
    BY <2>2, <2>3, <2>4
  <2>6. q[n] \in Entries
    BY <2>2, <2>3, <2>4
  <2>7. Append(p, q[n]) = q
    <3>1. Append(p, q[n]) \in Seq(Entries) /\ Len(Append(p, q[n])) = n
      BY <2>3, <2>5, <2>6
    <3>2. \A i \in 1..n : Append(p, q[n])[i] = q[i]
      BY <2>3, <2>5
    <3> DEFINE a == Append(p, q[n])
    <3>3. a \in Seq(Entries) /\ Len(a) = Len(q) /\ \A i \in 1..Len(q) : a[i] = q[i]
      BY <2>2, <3>1, <3>2
    <3> HIDE DEF a
    <3>4. a = q
      BY <3>3
    <3> QED BY <3>4 DEF a
  <2>8. n - 1 \notin Bad
    BY <2>1, <2>3
  <2>9. PICK t \in Seq(Entries) : Selects(t, p)
    <3> HIDE DEF p
    <3> QED BY <2>5, <2>8
  <2>10. Append(t, q[n]) \in Seq(Entries)
    BY <2>6
  <2>11. Selects(t, Append(p, q[n])) \/ Selects(Append(t, q[n]), Append(p, q[n]))
    <3> HIDE DEF p
    <3> QED BY <2>5, <2>6, <2>9, SelectAppend
  <2> HIDE DEF p
  <2> QED
    BY <2>2, <2>7, <2>10, <2>11
<1>2. ASSUME NEW q \in Seq(Entries), Without(q) PROVE FALSE
  <2>1. Len(q) \in Nat
    OBVIOUS
  <2>2. Len(q) \in Bad
    BY <1>2, <2>1
  <2> QED BY <1>1, <2>2
<1> QED
  BY <1>2

LEMMA ResponsesSelected ==
  ASSUME NEW q \in Seq(Entries)
  PROVE  ResponsesIn(q) \in Seq(Entries) /\ Selects(ResponsesIn(q), q)
  BY SelectExists, SelectedIs

(* What is selected are responses, taken from the queue.                   *)
LEMMA ResponsesInType ==
  ASSUME NEW q \in Seq(Entries)
  PROVE  ResponsesIn(q) \in Seq(Responses)
<1> DEFINE t == ResponsesIn(q)
<1>1. t \in Seq(Entries) /\ Selects(t, q)
  BY ResponsesSelected
<1> HIDE DEF t
<1>2. \A i \in 1..Len(t) : t[i] \in Responses
  BY <1>1 DEF Selects, Kept
<1>3. t \in Seq(Responses)
  BY <1>1, <1>2
<1> QED BY <1>3 DEF t

(* A queue without repetitions selects without repetitions. *)
LEMMA ResponsesInDistinct ==
  ASSUME NEW q \in Seq(Entries), \A i, j \in 1..Len(q) : i < j => q[i] # q[j]
  PROVE  \A i, j \in 1..Len(ResponsesIn(q)) : i < j => ResponsesIn(q)[i] # ResponsesIn(q)[j]
<1> DEFINE t == ResponsesIn(q)
<1>1. t \in Seq(Entries) /\ Selects(t, q)
  BY ResponsesSelected
<1> HIDE DEF t
<1>2. PICK f \in [1..Len(t) -> Kept(q)] :
         Increasing(f, Len(t)) /\ \A i \in 1..Len(t) : t[i] = q[f[i]]
  BY <1>1 DEF Selects
<1>3. Kept(q) \subseteq 1..Len(q)
  BY DEF Kept
<1>4. ASSUME NEW i \in 1..Len(t), NEW j \in 1..Len(t), i < j PROVE t[i] # t[j]
  <2>1. f[i] < f[j] /\ f[i] \in 1..Len(q) /\ f[j] \in 1..Len(q)
    BY <1>2, <1>3, <1>4 DEF Increasing
  <2> QED BY <1>2, <2>1
<1> QED BY <1>4 DEF t

LEMMA ResponsesInEmpty == ResponsesIn(<<>>) = <<>>
<1>1. <<>> \in Seq(Entries)
  OBVIOUS
<1> QED BY <1>1, SelectEmpty, SelectedIs

LEMMA ResponsesInAppend ==
  ASSUME NEW q \in Seq(Entries), NEW r \in Entries
  PROVE  ResponsesIn(Append(q, r)) =
            IF r \in Responses THEN Append(ResponsesIn(q), r) ELSE ResponsesIn(q)
<1> DEFINE t == ResponsesIn(q)
<1>1. t \in Seq(Entries) /\ Selects(t, q)
  BY ResponsesSelected
<1> HIDE DEF t
<1>2. Append(q, r) \in Seq(Entries) /\ Append(t, r) \in Seq(Entries)
  BY <1>1
<1>3. /\ r \in Responses => Selects(Append(t, r), Append(q, r))
      /\ r \notin Responses => Selects(t, Append(q, r))
  BY <1>1, SelectAppend
<1>4. ResponsesIn(Append(q, r)) = IF r \in Responses THEN Append(t, r) ELSE t
  BY <1>1, <1>2, <1>3, SelectedIs
<1> QED BY <1>4 DEF t

LEMMA ResponsesInPrepend ==
  ASSUME NEW q \in Seq(Entries), NEW r \in Entries
  PROVE  ResponsesIn(<<r>> \o q) =
            IF r \in Responses THEN <<r>> \o ResponsesIn(q) ELSE ResponsesIn(q)
<1> DEFINE t == ResponsesIn(q)
<1>1. t \in Seq(Entries) /\ Selects(t, q)
  BY ResponsesSelected
<1> HIDE DEF t
<1>2. <<r>> \o q \in Seq(Entries) /\ <<r>> \o t \in Seq(Entries)
  BY <1>1
<1>3. /\ r \in Responses => Selects(<<r>> \o t, <<r>> \o q)
      /\ r \notin Responses => Selects(t, <<r>> \o q)
  BY <1>1, SelectPrepend
<1>4. ResponsesIn(<<r>> \o q) = IF r \in Responses THEN <<r>> \o t ELSE t
  BY <1>1, <1>2, <1>3, SelectedIs
<1> QED BY <1>4 DEF t

(* Taking the head of a queue takes the head of its responses, or nothing. *)
LEMMA ResponsesInTail ==
  ASSUME NEW q \in Seq(Entries), q # <<>>
  PROVE  /\ Head(q) \in Responses => /\ ResponsesIn(q) # <<>>
                                     /\ Head(ResponsesIn(q)) = Head(q)
                                     /\ ResponsesIn(Tail(q)) = Tail(ResponsesIn(q))
         /\ Head(q) \notin Responses => ResponsesIn(Tail(q)) = ResponsesIn(q)
<1> DEFINE h == Head(q)
<1> DEFINE p == Tail(q)
<1> DEFINE t == ResponsesIn(p)
<1>1. h \in Entries /\ p \in Seq(Entries)
  OBVIOUS
<1>2. q = <<h>> \o p
  <2>1. <<h>> \o p \in Seq(Entries) /\ Len(<<h>> \o p) = Len(q)
    BY <1>1
  <2>2. \A i \in 1..Len(q) : (<<h>> \o p)[i] = q[i]
    OBVIOUS
  <2> QED BY <2>1, <2>2
<1>3. ResponsesIn(q) = IF h \in Responses THEN <<h>> \o t ELSE t
  <2> HIDE DEF h, p
  <2> QED BY <1>1, <1>2, ResponsesInPrepend
<1>4. t \in Seq(Entries)
  <2> HIDE DEF p
  <2> QED BY <1>1, ResponsesSelected
<1>5. ASSUME h \in Responses
      PROVE  <<h>> \o t # <<>> /\ Head(<<h>> \o t) = h /\ Tail(<<h>> \o t) = t
  <2> HIDE DEF t, h
  <2>1. <<h>> \o t \in Seq(Entries) /\ Len(<<h>> \o t) = Len(t) + 1
    BY <1>1, <1>4
  <2>2. (<<h>> \o t)[1] = h
    BY <1>1, <1>4
  <2>3. Tail(<<h>> \o t) = t
    BY <1>1, <1>4
  <2> QED BY <1>4, <2>1, <2>2, <2>3
<1> HIDE DEF t
<1>6. h \in Responses => /\ ResponsesIn(q) # <<>> /\ Head(ResponsesIn(q)) = h
                         /\ t = Tail(ResponsesIn(q))
  BY <1>3, <1>5
<1>7. h \notin Responses => t = ResponsesIn(q)
  BY <1>3
<1> QED
  BY <1>6, <1>7 DEF t

(* Responses only: all of them are selected. *)
LEMMA ResponsesInAll ==
  ASSUME NEW t \in Seq(Responses)
  PROVE  t \in Seq(Entries) /\ ResponsesIn(t) = t
<1> DEFINE f == [i \in 1..Len(t) |-> i]
<1>1. t \in Seq(Entries)
  BY DEF Entries, Records
<1>2. Kept(t) = 1..Len(t)
  BY DEF Kept
<1>3. /\ f \in [1..Len(t) -> Kept(t)] /\ Increasing(f, Len(t)) /\ Onto(f, Len(t), Kept(t))
      /\ \A i \in 1..Len(t) : t[i] = t[f[i]]
  BY <1>2 DEF Increasing, Onto
<1>4. Selects(t, t)
  <2> HIDE DEF f
  <2> QED BY <1>3 DEF Selects
<1> QED
  BY <1>1, <1>4, SelectedIs

(* A connect record put in front of the responses of a queue leaves them   *)
(* as they are (QueueUspConnectRecord_MQTT).                               *)
LEMMA ConnectKeepsResponses ==
  ASSUME NEW q \in Seq(Entries), NEW k \in Controllers
  PROVE  ResponsesIn(<<ConnectRecord(k)>> \o ResponsesIn(q)) = ResponsesIn(q)
<1>1. ResponsesIn(q) \in Seq(Entries) /\ ResponsesIn(ResponsesIn(q)) = ResponsesIn(q)
  BY ResponsesInType, ResponsesInAll
<1>2. ConnectRecord(k) \in Entries
  BY DEF Entries, Records, ConnectRecords
<1>3. ConnectRecord(k) \notin Responses
  BY ConstantsAssumption DEF ConnectRecords
<1> QED
  BY <1>1, <1>2, <1>3, ResponsesInPrepend
=============================================================================
