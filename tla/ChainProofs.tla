----------------------------- MODULE ChainProofs -----------------------------
(***************************************************************************)
(* What the loops over a linked list meet, for lists of any length.        *)
(***************************************************************************)
EXTENDS Chains, Integers, FiniteSetTheorems, WellFoundedInduction, TLAPS

LEMMA LeastNatural ==
  ASSUME NEW T \in SUBSET Nat, T # {}
  PROVE  \E x \in T : \A y \in T : x <= y
<1> DEFINE R == OpToRel(<, Nat)
<1>1. PICK x \in T : \A y \in T : ~ (<<y, x>> \in R)
  <2>1. IsWellFoundedOn(R, Nat)
    BY NatLessThanWellFounded, Zenon
  <2> HIDE DEF R
  <2> QED
    BY <2>1, WFMin
<1>2. ASSUME NEW y \in T, y < x PROVE FALSE
  <2>1. <<y, x>> \in Nat \X Nat
    OBVIOUS
  <2>2. <<y, x>> \in R
    BY <1>2, <2>1, Zenon DEF OpToRel
  <2> QED
    BY <1>1, <2>2
<1>3. x \in Nat /\ \A y \in T : y \in Nat
  OBVIOUS
<1> QED
  BY <1>2, <1>3

(* Induction over the natural numbers, for a set instead of a predicate.   *)
LEMMA NatSetInduction ==
  ASSUME NEW S, 0 \in S, \A n \in Nat : n \in S => n + 1 \in S
  PROVE  Nat \subseteq S
<1> DEFINE T == Nat \ S
<1> SUFFICES ASSUME T # {} PROVE FALSE
  OBVIOUS
<1>1. PICK x \in T : \A y \in T : x <= y
  BY LeastNatural
<1>2. x \in Nat /\ x \notin S /\ x # 0
  OBVIOUS
<1>3. x - 1 \in Nat /\ (x - 1) + 1 = x /\ x - 1 < x
  BY <1>2
<1>4. x - 1 \notin S
  BY <1>2, <1>3
<1> QED
  BY <1>1, <1>2, <1>3, <1>4

LEMMA WalkFollowsList ==
  ASSUME NEW Node, NEW null, null \notin Node, NEW q \in Seq(Node), NEW h, NEW next,
         NEW n \in Nat, IsList(q, h, next, null), Len(q) <= n
  PROVE  Walk(h, next, null, n)
           = [k \in 0 .. n |-> IF k < Len(q) THEN q[k + 1] ELSE null]
<1> DEFINE F(f) == [k \in 0 .. n |->
                      IF k = 0 THEN h
                      ELSE IF f[k - 1] = null THEN null ELSE next[f[k - 1]]]
           g == [k \in 0 .. n |-> IF k < Len(q) THEN q[k + 1] ELSE null]
<1>0. Len(q) \in Nat /\ (q = <<>> <=> Len(q) = 0)
      /\ \A i \in 1 .. Len(q) : q[i] \in Node
  OBVIOUS
<1>1. g = F(g)
  <2>1. \A k \in 0 .. n : g[k] = F(g)[k]
    <3> SUFFICES ASSUME NEW k \in 0 .. n PROVE g[k] = F(g)[k]
      OBVIOUS
    <3>1. CASE k = 0
      BY <1>0, <3>1 DEF IsList
    <3>2. CASE k # 0 /\ k < Len(q)
      <4>1. k \in 1 .. Len(q) /\ k - 1 \in 0 .. n /\ k - 1 < Len(q) /\ (k - 1) + 1 = k
        BY <1>0, <3>2
      <4>2. g[k - 1] = q[k] /\ q[k] # null /\ g[k] = q[k + 1] /\ k # Len(q)
        BY <1>0, <3>2, <4>1 DEF IsList
      <4>3. next[q[k]] = q[k + 1]
        BY <4>1, <4>2 DEF IsList
      <4> QED
        BY <3>2, <4>2, <4>3
    <3>3. CASE k # 0 /\ k = Len(q)
      <4>1. k \in 1 .. Len(q) /\ k - 1 \in 0 .. n /\ k - 1 < Len(q) /\ (k - 1) + 1 = k
        BY <1>0, <3>3
      <4>2. g[k - 1] = q[k] /\ q[k] # null /\ g[k] = null
        BY <1>0, <3>3, <4>1 DEF IsList
      <4>3. next[q[k]] = null
        BY <3>3, <4>1 DEF IsList
      <4> QED
        BY <3>3, <4>2, <4>3
    <3>4. CASE k > Len(q)
      <4>1. k - 1 \in 0 .. n /\ ~(k - 1 < Len(q)) /\ ~(k < Len(q)) /\ k # 0
        BY <1>0, <3>4
      <4> QED
        BY <4>1
    <3> QED
      BY <1>0, <3>1, <3>2, <3>3, <3>4
  <2> QED
    BY <2>1
<1>2. ASSUME NEW f, f = F(f) PROVE f = g
  <2> DEFINE S == {k \in Nat : k <= n => f[k] = g[k]}
  <2>1. 0 \in S
    <3>1. 0 \in 0 .. n
      OBVIOUS
    <3> HIDE DEF g
    <3>2. F(f)[0] = h /\ F(g)[0] = h
      BY <3>1
    <3> HIDE DEF F
    <3> QED
      BY <1>1, <1>2, <3>2
  <2>2. \A k \in Nat : k \in S => k + 1 \in S
    <3> SUFFICES ASSUME NEW k \in Nat, k <= n => f[k] = g[k], k + 1 <= n
                 PROVE  f[k + 1] = g[k + 1]
      OBVIOUS
    <3>1. k + 1 \in 0 .. n /\ (k + 1) - 1 = k /\ k + 1 # 0 /\ f[k] = g[k]
      OBVIOUS
    <3> HIDE DEF g
    <3>2. F(f)[k + 1] = IF f[k] = null THEN null ELSE next[f[k]]
      BY <3>1
    <3>3. F(g)[k + 1] = IF g[k] = null THEN null ELSE next[g[k]]
      BY <3>1
    <3>4. f[k + 1] = F(f)[k + 1] /\ g[k + 1] = F(g)[k + 1]
      BY <1>1, <1>2
    <3> QED
      BY <3>1, <3>2, <3>3, <3>4
  <2>3. Nat \subseteq S
    <3> HIDE DEF S
    <3> QED
      BY <2>1, <2>2, NatSetInduction
  <2>4. \A k \in 0 .. n : f[k] = g[k]
    <3> HIDE DEF g, F
    <3> QED
      BY <2>3
  <2> QED
    BY <1>2, <2>4
<1>3. Walk(h, next, null, n) = CHOOSE f : f = F(f)
  BY DEF Walk
<1> HIDE DEF F, g
<1>4. Walk(h, next, null, n) = g
  BY <1>1, <1>2, <1>3
<1> QED
  BY <1>4 DEF g

-----------------------------------------------------------------------------
LEMMA NodesAreDistinct ==
  ASSUME NEW Node, NEW q \in Seq(Node), NEW h, NEW next, NEW null, IsList(q, h, next, null)
  PROVE  /\ IsFiniteSet(Nodes(q)) /\ Cardinality(Nodes(q)) = Len(q)
         /\ Nodes(q) \subseteq Node /\ null \notin Nodes(q)
         /\ IsFiniteSet(Node) => Len(q) <= Cardinality(Node)
<1>1. Len(q) \in Nat /\ Nodes(q) \subseteq Node /\ null \notin Nodes(q)
  BY DEF Nodes, IsList
<1> DEFINE f == [i \in 1 .. Len(q) |-> q[i]]
<1>2. f \in Bijection(1 .. Len(q), Nodes(q))
  <2>1. f \in [1 .. Len(q) -> Nodes(q)]
    BY DEF Nodes
  <2>2. \A i, j \in 1 .. Len(q) : f[i] = f[j] => i = j
    BY DEF IsList
  <2>3. \A d \in Nodes(q) : \E i \in 1 .. Len(q) : f[i] = d
    BY DEF Nodes
  <2> HIDE DEF f
  <2> QED
    BY <2>1, <2>2, <2>3 DEF Bijection, Injection, Surjection, IsInjective
<1>3. ExistsBijection(1 .. Len(q), Nodes(q))
  <2> HIDE DEF f
  <2> QED
    BY <1>2, Zenon DEF ExistsBijection
<1>4. IsFiniteSet(1 .. Len(q)) /\ Cardinality(1 .. Len(q)) = Len(q)
  BY <1>1, FS_Interval
<1>5. IsFiniteSet(Nodes(q)) /\ Cardinality(Nodes(q)) = Len(q)
  BY <1>1, <1>3, <1>4, FS_Bijection
<1>6. ASSUME IsFiniteSet(Node) PROVE Len(q) <= Cardinality(Node)
  BY <1>1, <1>5, <1>6, FS_Subset
<1> QED
  BY <1>1, <1>5, <1>6

(* A walk of as many steps as the list is long, or more, meets the list's  *)
(* nodes, each once, in their order, and then null.                        *)
LEMMA WalkMeetsList ==
  ASSUME NEW Node, NEW null, null \notin Node, NEW q \in Seq(Node), NEW h, NEW next,
         NEW n \in Nat, IsList(q, h, next, null), Len(q) <= n
  PROVE  /\ null \in Met(h, next, null, n)
         /\ Met(h, next, null, n) \ {null} = Nodes(q)
         /\ ListFrom(h, next, null, n) = q
<1> DEFINE g == [k \in 0 .. n |-> IF k < Len(q) THEN q[k + 1] ELSE null]
<1>1. Walk(h, next, null, n) = g
  BY WalkFollowsList
<1>2. Len(q) \in Nat /\ \A i \in 1 .. Len(q) : i - 1 \in 0 .. n /\ g[i - 1] = q[i]
  OBVIOUS
<1>3. g[Len(q)] = null /\ Len(q) \in 0 .. n
  OBVIOUS
<1>4. \A k \in 0 .. n : g[k] # null => g[k] \in Nodes(q)
  <2> SUFFICES ASSUME NEW k \in 0 .. n, g[k] # null PROVE g[k] \in Nodes(q)
    OBVIOUS
  <2>1. k < Len(q) /\ g[k] = q[k + 1] /\ k + 1 \in 1 .. Len(q)
    OBVIOUS
  <2> QED
    BY <2>1 DEF Nodes
<1> HIDE DEF g
<1>5. Met(h, next, null, n) = {g[k] : k \in 0 .. n}
  BY <1>1 DEF Met
<1>6. null \in Met(h, next, null, n)
  BY <1>3, <1>5
<1>7. Met(h, next, null, n) \ {null} = Nodes(q)
  <2>1. ASSUME NEW d \in Nodes(q) PROVE d \in Met(h, next, null, n) /\ d # null
    <3>1. PICK i \in 1 .. Len(q) : d = q[i]
      BY <2>1 DEF Nodes
    <3> QED
      BY <1>2, <1>5, <3>1, NodesAreDistinct
  <2> QED
    BY <1>4, <1>5, <2>1
<1>8. Cardinality(Nodes(q)) = Len(q)
  BY NodesAreDistinct
<1>9. ListFrom(h, next, null, n) = [i \in 1 .. Len(q) |-> g[i - 1]]
  BY <1>1, <1>7, <1>8 DEF ListFrom
<1>10. ListFrom(h, next, null, n) = [i \in 1 .. Len(q) |-> q[i]]
  BY <1>2, <1>9
<1> QED
  BY <1>6, <1>7, <1>10

(* As many steps as there are nodes are enough.                            *)
LEMMA ListIsFound ==
  ASSUME NEW Node, IsFiniteSet(Node), NEW null, null \notin Node, NEW q \in Seq(Node),
         NEW h, NEW next, IsList(q, h, next, null)
  PROVE  LET n == Cardinality(Node) IN
         /\ null \in Met(h, next, null, n)
         /\ Met(h, next, null, n) \ {null} = Nodes(q)
         /\ ListFrom(h, next, null, n) = q
         /\ Cardinality(Nodes(q)) = Len(q) /\ Len(q) \in 0 .. n
<1>1. Cardinality(Node) \in Nat /\ Len(q) \in Nat /\ Len(q) <= Cardinality(Node)
      /\ Cardinality(Nodes(q)) = Len(q)
  BY NodesAreDistinct, FS_CardinalityType
<1> QED
  BY <1>1, WalkMeetsList

-----------------------------------------------------------------------------
LEMMA EmptyList ==
  ASSUME NEW next, NEW null
  PROVE  IsList(<<>>, null, next, null) /\ Nodes(<<>>) = {}
BY DEF IsList, Nodes

LEMMA EndsOfList ==
  ASSUME NEW Node, NEW null, null \notin Node, NEW q \in Seq(Node), NEW h, NEW next,
         IsList(q, h, next, null)
  PROVE  /\ h = null <=> q = <<>>
         /\ h = null <=> Nodes(q) = {}
         /\ q # <<>> => /\ h = Head(q) /\ h \in Nodes(q)
                        /\ q[Len(q)] \in Nodes(q) /\ next[q[Len(q)]] = null
         /\ \A d \in Nodes(q) : next[d] = null => d = q[Len(q)]
<1>1. CASE q = <<>>
  BY <1>1 DEF IsList, Nodes
<1>2. CASE q # <<>>
  <2>1. Len(q) \in Nat /\ 1 \in 1 .. Len(q) /\ Len(q) \in 1 .. Len(q)
    BY <1>2
  <2>2. h = q[1] /\ q[1] \in Nodes(q) /\ q[Len(q)] \in Nodes(q) /\ h # null
    BY <1>2, <2>1 DEF IsList, Nodes
  <2>3. next[q[Len(q)]] = null
    BY <2>1 DEF IsList
  <2>4. ASSUME NEW d \in Nodes(q), next[d] = null PROVE d = q[Len(q)]
    <3>1. PICK i \in 1 .. Len(q) : d = q[i]
      BY DEF Nodes
    <3>2. CASE i # Len(q)
      <4>1. next[d] = q[i + 1] /\ i + 1 \in 1 .. Len(q)
        BY <2>1, <3>1, <3>2 DEF IsList
      <4> QED
        BY <2>4, <4>1 DEF IsList
    <3> QED
      BY <3>1, <3>2
  <2> QED
    BY <1>2, <2>2, <2>3, <2>4
<1> QED
  BY <1>1, <1>2

LEMMA ListStays ==
  ASSUME NEW q, NEW h, NEW next, NEW next2, NEW null, IsList(q, h, next, null),
         \A d \in Nodes(q) : next2[d] = next[d]
  PROVE  IsList(q, h, next2, null)
BY DEF IsList, Nodes

LEMMA ListGrowsAtTail ==
  ASSUME NEW Node, NEW null, null \notin Node, NEW q \in Seq(Node), NEW h, NEW next,
         IsList(q, h, next, null), NEW t \in Node \ Nodes(q), NEW next2,
         next2[t] = null, q # <<>> => next2[q[Len(q)]] = t,
         \A d \in Nodes(q) : d = q[Len(q)] \/ next2[d] = next[d]
  PROVE  /\ Append(q, t) \in Seq(Node)
         /\ IsList(Append(q, t), IF h = null THEN t ELSE h, next2, null)
         /\ Nodes(Append(q, t)) = Nodes(q) \cup {t}
         /\ Append(q, t)[Len(Append(q, t))] = t
<1> DEFINE r == Append(q, t)
           m == Len(q)
<1>1. /\ m \in Nat /\ r \in Seq(Node) /\ Len(r) = m + 1
      /\ \A i \in 1 .. m : r[i] = q[i] /\ i \in 1 .. m + 1 /\ i # m + 1
      /\ r[m + 1] = t /\ m + 1 \in 1 .. m + 1
      /\ \A i \in 1 .. m + 1 : i \in 1 .. m \/ i = m + 1
      /\ r # <<>> /\ (q = <<>> <=> m = 0)
  <2>1. m \in Nat /\ r \in Seq(Node) /\ Len(r) = m + 1 /\ (q = <<>> <=> m = 0)
    OBVIOUS
  <2>2. \A i \in 1 .. m : r[i] = q[i]
    OBVIOUS
  <2>3. r[m + 1] = t
    OBVIOUS
  <2> HIDE DEF r, m
  <2> QED
    BY <2>1, <2>2, <2>3
<1>2. \A i \in 1 .. m : q[i] \in Nodes(q) /\ q[i] # t /\ q[i] # null
  BY DEF Nodes, IsList
<1> HIDE DEF r, m
<1>3. r[1] = IF h = null THEN t ELSE h
  <2>1. CASE q = <<>>
    BY <1>1, <2>1 DEF IsList
  <2>2. CASE q # <<>>
    <3>1. 1 \in 1 .. m /\ h = q[1]
      BY <1>1, <2>2 DEF IsList
    <3> QED
      BY <1>1, <1>2, <3>1
  <2> QED
    BY <2>1, <2>2
<1>4. ASSUME NEW i \in 1 .. m + 1
      PROVE  r[i] # null /\ next2[r[i]] = IF i = m + 1 THEN null ELSE r[i + 1]
  <2>1. CASE i = m + 1
    BY <1>1, <2>1
  <2>2. CASE i \in 1 .. m /\ i = m
    <3>1. r[i] = q[m] /\ r[i + 1] = t /\ i # m + 1 /\ q # <<>>
      BY <1>1, <2>2
    <3> QED
      BY <1>2, <2>2, <3>1 DEF m
  <2>3. CASE i \in 1 .. m /\ i # m
    <3>1. i + 1 \in 1 .. m /\ m \in 1 .. m
      BY <1>1, <2>3
    <3>2. r[i] = q[i] /\ r[i + 1] = q[i + 1] /\ i # m + 1
      BY <1>1, <2>3, <3>1
    <3>3. next[q[i]] = q[i + 1] /\ q[i] # q[m]
      BY <2>3, <3>1 DEF IsList, m
    <3> QED
      BY <1>2, <2>3, <3>2, <3>3 DEF m
  <2> QED
    BY <1>1, <2>1, <2>2, <2>3
<1>5. \A i, j \in 1 .. m + 1 : r[i] = r[j] => i = j
  <2>1. \A i, j \in 1 .. m : q[i] = q[j] => i = j
    BY DEF IsList, m
  <2> QED
    BY <1>1, <1>2, <2>1
<1>6. IsList(r, IF h = null THEN t ELSE h, next2, null)
  BY <1>1, <1>3, <1>4, <1>5 DEF IsList
<1>7. Nodes(r) = Nodes(q) \cup {t}
  <2>1. Nodes(q) = {q[i] : i \in 1 .. m} /\ Nodes(r) = {r[i] : i \in 1 .. m + 1}
    BY <1>1 DEF Nodes, m
  <2> QED
    BY <1>1, <2>1
<1> QED
  BY <1>1, <1>6, <1>7 DEF r

LEMMA ListLosesHead ==
  ASSUME NEW Node, NEW null, null \notin Node, NEW q \in Seq(Node), NEW h, NEW next,
         IsList(q, h, next, null), q # <<>>
  PROVE  /\ Tail(q) \in Seq(Node)
         /\ IsList(Tail(q), next[h], next, null)
         /\ Nodes(Tail(q)) = Nodes(q) \ {h}
         /\ next[h] = null \/ Tail(q)[Len(Tail(q))] = q[Len(q)]
<1> DEFINE r == Tail(q)
           m == Len(q)
<1>1. /\ m \in Nat \ {0} /\ r \in Seq(Node) /\ Len(r) = m - 1
      /\ \A i \in 1 .. m - 1 : r[i] = q[i + 1] /\ i + 1 \in 1 .. m
      /\ r = <<>> <=> m = 1
  <2>1. m \in Nat \ {0} /\ r \in Seq(Node) /\ Len(r) = m - 1
    OBVIOUS
  <2>2. \A i \in 1 .. m - 1 : r[i] = q[i + 1]
    OBVIOUS
  <2>3. r = <<>> <=> Len(r) = 0
    BY <2>1
  <2> HIDE DEF r, m
  <2> QED
    BY <2>1, <2>2, <2>3
<1>2. /\ h = q[1] /\ 1 \in 1 .. m
      /\ \A i \in 1 .. m : q[i] # null /\ next[q[i]] = IF i = m THEN null ELSE q[i + 1]
      /\ \A i, j \in 1 .. m : q[i] = q[j] => i = j
  <2>1. h = q[1]
    BY DEF IsList
  <2>2. 1 \in 1 .. m
    <3> HIDE DEF r, m
    <3> QED
      BY <1>1
  <2> QED
    BY <2>1, <2>2 DEF IsList
<1>3. Nodes(q) = {q[i] : i \in 1 .. m} /\ Nodes(r) = {r[i] : i \in 1 .. m - 1}
  BY <1>1 DEF Nodes
<1> HIDE DEF r, m
<1>4. next[h] = IF r = <<>> THEN null ELSE r[1]
  <2>1. CASE m = 1
    BY <1>1, <1>2, <2>1
  <2>2. CASE m # 1
    <3>1. 1 \in 1 .. m - 1 /\ 1 + 1 = 2
      BY <1>1, <2>2
    <3> QED
      BY <1>1, <1>2, <2>2, <3>1
  <2> QED
    BY <2>1, <2>2
<1>5. ASSUME NEW i \in 1 .. m - 1
      PROVE  r[i] # null /\ next[r[i]] = IF i = m - 1 THEN null ELSE r[i + 1]
  <2>1. i + 1 \in 1 .. m /\ r[i] = q[i + 1] /\ (i + 1 = m <=> i = m - 1)
    BY <1>1
  <2>2. CASE i # m - 1
    <3>1. i + 1 \in 1 .. m - 1
      BY <1>1, <2>2
    <3> QED
      BY <1>1, <1>2, <2>1, <2>2, <3>1
  <2> QED
    BY <1>2, <2>1, <2>2
<1>6. \A i, j \in 1 .. m - 1 : r[i] = r[j] => i = j
  <2> SUFFICES ASSUME NEW i \in 1 .. m - 1, NEW j \in 1 .. m - 1, r[i] = r[j]
               PROVE  i = j
    OBVIOUS
  <2>1. i + 1 = j + 1
    BY <1>1, <1>2
  <2> QED
    BY <1>1, <2>1
<1>7. IsList(r, next[h], next, null)
  BY <1>1, <1>4, <1>5, <1>6 DEF IsList
<1>8. Nodes(r) = Nodes(q) \ {h}
  <2>1. ASSUME NEW i \in 1 .. m - 1 PROVE r[i] \in Nodes(q) /\ r[i] # h
    <3>1. i + 1 # 1 /\ r[i] = q[i + 1] /\ i + 1 \in 1 .. m
      BY <1>1
    <3> QED
      BY <1>2, <1>3, <3>1
  <2>2. ASSUME NEW i \in 1 .. m, i # 1 PROVE q[i] \in Nodes(r)
    <3>1. i - 1 \in 1 .. m - 1 /\ (i - 1) + 1 = i
      BY <1>1, <2>2
    <3>2. r[i - 1] = q[i]
      BY <1>1, <3>1
    <3> QED
      BY <1>3, <3>1, <3>2
  <2> QED
    BY <1>2, <1>3, <2>1, <2>2
<1>9. next[h] = null \/ r[m - 1] = q[m]
  <2>1. CASE m = 1
    BY <1>1, <1>4, <2>1
  <2>2. CASE m # 1
    <3>1. m - 1 \in 1 .. m - 1 /\ (m - 1) + 1 = m
      BY <1>1, <2>2
    <3> QED
      BY <1>1, <3>1
  <2> QED
    BY <2>1, <2>2
<1> QED
  BY <1>1, <1>7, <1>8, <1>9 DEF r, m

LEMMA SeqOf ==
  ASSUME NEW Node, NEW n \in Nat, NEW f \in [1 .. n -> Node]
  PROVE  f \in Seq(Node) /\ Len(f) = n /\ (f = <<>> <=> n = 0)
OBVIOUS

LEMMA NodesAreIn ==
  ASSUME NEW Node, NEW q \in Seq(Node)
  PROVE  Nodes(q) \subseteq Node
BY DEF Nodes

(* What follows the i-th node is a list.                                   *)
LEMMA RestOfList ==
  ASSUME NEW Node, NEW null, null \notin Node, NEW q \in Seq(Node), NEW h, NEW next,
         IsList(q, h, next, null), NEW i \in 1 .. Len(q)
  PROVE  \E r \in Seq(Node) :
           /\ IsList(r, q[i], next, null)
           /\ \A j \in i .. Len(q) : q[j] \in Nodes(r)
<1> DEFINE m == Len(q)
           n == m - i + 1
           r == [k \in 1 .. n |-> q[k + i - 1]]
<1>1. /\ m \in Nat /\ n \in Nat \ {0} /\ i \in 1 .. m
      /\ \A k \in 1 .. n : k + i - 1 \in 1 .. m /\ r[k] = q[k + i - 1]
      /\ \A k \in 1 .. m : q[k] \in Node
      /\ \A k \in 1 .. m :
           q[k] # null /\ next[q[k]] = IF k = m THEN null ELSE q[k + 1]
      /\ \A k, l \in 1 .. m : q[k] = q[l] => k = l
  BY DEF IsList
<1>2. r \in [1 .. n -> Node]
  BY <1>1
<1> HIDE DEF r, m, n
<1>3. r \in Seq(Node) /\ Len(r) = n /\ r # <<>>
  <2>1. n \in Nat /\ n # 0
    BY <1>1
  <2> QED
    BY <1>2, <2>1, SeqOf
<1>4. ASSUME NEW k \in 1 .. n
      PROVE  r[k] # null /\ next[r[k]] = IF k = n THEN null ELSE r[k + 1]
  <2>1. k + i - 1 \in 1 .. m /\ r[k] = q[k + i - 1]
        /\ (k = n <=> k + i - 1 = m) /\ (k + i - 1) + 1 = (k + 1) + i - 1
    BY <1>1 DEF n
  <2>2. r[k] # null /\ next[r[k]] = IF k = n THEN null ELSE q[(k + 1) + i - 1]
    BY <1>1, <2>1
  <2>3. k # n => r[k + 1] = q[(k + 1) + i - 1]
    <3>1. k # n => k + 1 \in 1 .. n
      BY <1>1
    <3> QED
      BY <1>1, <3>1
  <2> QED
    BY <2>2, <2>3
<1>5. \A k, l \in 1 .. n : r[k] = r[l] => k = l
  <2> SUFFICES ASSUME NEW k \in 1 .. n, NEW l \in 1 .. n, r[k] = r[l] PROVE k = l
    OBVIOUS
  <2>1. k + i - 1 = l + i - 1
    <3>1. /\ k + i - 1 \in 1 .. m /\ r[k] = q[k + i - 1]
          /\ l + i - 1 \in 1 .. m /\ r[l] = q[l + i - 1]
      BY <1>1
    <3>2. q[k + i - 1] = q[l + i - 1]
      BY <3>1
    <3> QED
      BY <1>1, <3>1, <3>2
  <2>2. k \in Int /\ l \in Int /\ i \in Int
    BY <1>1 DEF n
  <2> QED
    BY <2>1, <2>2
<1>6. IsList(r, q[i], next, null)
  <2>1. 1 \in 1 .. n /\ r[1] = q[i]
    <3>1. 1 \in 1 .. n /\ 1 + i - 1 = i
      BY <1>1 DEF n
    <3> QED
      BY <1>1, <3>1
  <2> QED
    BY <1>3, <1>4, <1>5, <2>1 DEF IsList
<1>7. \A j \in i .. m : q[j] \in Nodes(r)
  <2>1. \A j \in i .. m : j - i + 1 \in 1 .. n /\ (j - i + 1) + i - 1 = j
    BY <1>1 DEF n
  <2>2. \A j \in i .. m : r[j - i + 1] = q[j]
    BY <1>1, <2>1
  <2> QED
    BY <1>3, <2>1, <2>2 DEF Nodes
<1> QED
  BY <1>3, <1>6, <1>7 DEF m

LEMMA ListGrowsAtHead ==
  ASSUME NEW Node, NEW null, null \notin Node, NEW q \in Seq(Node), NEW h, NEW next,
         IsList(q, h, next, null), NEW t \in Node \ Nodes(q), NEW next2,
         next2[t] = h, \A d \in Nodes(q) : next2[d] = next[d]
  PROVE  \E r \in Seq(Node) :
           /\ IsList(r, t, next2, null)
           /\ Nodes(r) = Nodes(q) \cup {t}
           /\ Len(r) = Len(q) + 1
<1> DEFINE m == Len(q)
           r == [k \in 1 .. m + 1 |-> IF k = 1 THEN t ELSE q[k - 1]]
<1>1. /\ m \in Nat /\ h = (IF m = 0 THEN null ELSE q[1])
      /\ \A k \in 1 .. m : q[k] \in Node
      /\ \A k \in 1 .. m :
           /\ q[k] # null /\ q[k] # t
           /\ next2[q[k]] = IF k = m THEN null ELSE q[k + 1]
      /\ \A k, l \in 1 .. m : q[k] = q[l] => k = l
  BY DEF IsList, Nodes
<1>2. /\ r[1] = t /\ 1 \in 1 .. m + 1
      /\ \A k \in 2 .. m + 1 : k - 1 \in 1 .. m /\ r[k] = q[k - 1]
      /\ \A k \in 1 .. m : k + 1 \in 2 .. m + 1 /\ r[k + 1] = q[k]
      /\ \A k \in 1 .. m + 1 : k = 1 \/ k \in 2 .. m + 1
      /\ \A k \in 2 .. m + 1 : k \in 1 .. m + 1 /\ k # 1
  <2> HIDE DEF m
  <2> QED
    BY <1>1
<1>3. r \in [1 .. m + 1 -> Node]
  <2> HIDE DEF m
  <2> QED
    BY <1>1
<1> HIDE DEF r, m
<1>4. r \in Seq(Node) /\ Len(r) = m + 1 /\ r # <<>>
  <2>1. m + 1 \in Nat /\ m + 1 # 0
    BY <1>1
  <2> QED
    BY <1>3, <2>1, SeqOf
<1>5. ASSUME NEW k \in 1 .. m + 1
      PROVE  r[k] # null /\ next2[r[k]] = IF k = m + 1 THEN null ELSE r[k + 1]
  <2>1. CASE k = 1
    <3>1. r[k] = t /\ t # null /\ next2[t] = h
      BY <1>2, <2>1
    <3>2. h = IF k = m + 1 THEN null ELSE r[k + 1]
      <4>1. CASE m = 0
        BY <1>1, <2>1, <4>1
      <4>2. CASE m # 0
        <5>1. 1 \in 1 .. m /\ k # m + 1
          BY <1>1, <2>1, <4>2
        <5> QED
          BY <1>1, <1>2, <2>1, <4>2, <5>1
      <4> QED
        BY <4>1, <4>2
    <3> QED
      BY <3>1, <3>2
  <2>2. CASE k \in 2 .. m + 1
    <3>0. /\ m \in Nat /\ k \in 2 .. m + 1
      BY <1>1, <2>2
    <3>2. (k - 1) + 1 = k /\ (k = m + 1 <=> k - 1 = m)
      BY <3>0
    <3>1. /\ k - 1 \in 1 .. m /\ r[k] = q[k - 1] /\ (k - 1) + 1 = k
          /\ (k = m + 1 <=> k - 1 = m)
      BY <1>2, <2>2, <3>2
    <3>3. k # m + 1 => k \in 1 .. m
      BY <1>1, <2>2
    <3> QED
      BY <1>1, <1>2, <3>1, <3>3
  <2> QED
    BY <1>2, <2>1, <2>2
<1>6. \A k, l \in 1 .. m + 1 : r[k] = r[l] => k = l
  <2> SUFFICES ASSUME NEW k \in 1 .. m + 1, NEW l \in 1 .. m + 1, r[k] = r[l]
               PROVE  k = l
    OBVIOUS
  <2>1. CASE k \in 2 .. m + 1 /\ l \in 2 .. m + 1
    <3>1. k - 1 = l - 1
      BY <1>1, <1>2, <2>1
    <3> QED
      BY <1>1, <3>1
  <2> QED
    BY <1>1, <1>2, <2>1
<1>7. IsList(r, t, next2, null)
  BY <1>2, <1>4, <1>5, <1>6 DEF IsList
<1>8. Nodes(r) = Nodes(q) \cup {t}
  <2>1. Nodes(q) = {q[k] : k \in 1 .. m} /\ Nodes(r) = {r[k] : k \in 1 .. m + 1}
    BY <1>4 DEF Nodes, m
  <2> QED
    BY <1>2, <2>1
<1> QED
  BY <1>4, <1>7, <1>8 DEF m

(* A node leaves: whoever was linked to it is now linked to its successor. *)
Bypassed(q, d, h, next, h2, next2) ==
  /\ h2 = IF h = d THEN next[d] ELSE h
  /\ \A e \in Nodes(q) \ {d} : next2[e] = IF next[e] = d THEN next[d] ELSE next[e]

LEMMA ListLosesMember ==
  ASSUME NEW Node, NEW null, null \notin Node, NEW q \in Seq(Node), NEW h, NEW next,
         IsList(q, h, next, null), NEW d \in Nodes(q), NEW h2, NEW next2,
         Bypassed(q, d, h, next, h2, next2)
  PROVE  \E r \in Seq(Node) :
           /\ IsList(r, h2, next2, null)
           /\ Nodes(r) = Nodes(q) \ {d}
<1> USE DEF Bypassed
<1> DEFINE m == Len(q)
<1>1. PICK i \in 1 .. m : d = q[i]
  BY DEF Nodes
<1> DEFINE r == [k \in 1 .. m - 1 |-> IF k < i THEN q[k] ELSE q[k + 1]]
<1>2. /\ m \in Nat \ {0} /\ h = q[1] /\ 1 \in 1 .. m
      /\ \A k \in 1 .. m : q[k] \in Node /\ q[k] # null /\ q[k] \in Nodes(q)
      /\ \A k \in 1 .. m : next[q[k]] = IF k = m THEN null ELSE q[k + 1]
      /\ \A k, l \in 1 .. m : q[k] = q[l] => k = l
  <2>1. m \in Nat \ {0} /\ 1 \in 1 .. m /\ q # <<>>
    OBVIOUS
  <2> QED
    BY <2>1 DEF IsList, Nodes
<1>3. Nodes(q) = {q[k] : k \in 1 .. m}
  BY DEF Nodes
<1> HIDE DEF m
<1>4. /\ \A k \in 1 .. m - 1 : k < i => k \in 1 .. m /\ k # i /\ r[k] = q[k]
      /\ \A k \in 1 .. m - 1 : ~(k < i) => k + 1 \in 1 .. m /\ k + 1 # i /\ r[k] = q[k + 1]
  BY <1>2
<1>5. r \in [1 .. m - 1 -> Node]
  BY <1>2, <1>4
<1> HIDE DEF r
<1>6. r \in Seq(Node) /\ Len(r) = m - 1 /\ (r = <<>> <=> m = 1)
  <2>1. m - 1 \in Nat /\ (m - 1 = 0 <=> m = 1)
    BY <1>2
  <2> QED
    BY <1>5, <2>1, SeqOf
(* Where the links lead now.                                               *)
<1>7. ASSUME NEW k \in 1 .. m, k # i
      PROVE  next2[q[k]] = IF k + 1 = i THEN next[d] ELSE next[q[k]]
  <2>1. q[k] \in Nodes(q) \ {d}
    BY <1>1, <1>2, <1>7
  <2>2. next[q[k]] = d <=> k + 1 = i
    <3>1. CASE k = m
      BY <1>1, <1>2, <3>1
    <3>2. CASE k # m
      <4>1. k + 1 \in 1 .. m /\ next[q[k]] = q[k + 1]
        BY <1>2, <3>2
      <4> QED
        BY <1>1, <1>2, <4>1
    <3> QED
      BY <3>1, <3>2
  <2> QED
    BY <2>1, <2>2
<1>8. ASSUME NEW k \in 1 .. m - 1
      PROVE  r[k] # null /\ next2[r[k]] = IF k = m - 1 THEN null ELSE r[k + 1]
  <2>1. CASE k < i /\ k + 1 # i
    <3>0. k \in 1 .. m /\ k # i /\ k # m - 1 /\ k + 1 \in 1 .. m - 1 /\ k + 1 < i
      BY <1>2, <2>1
    <3>1. k \in 1 .. m /\ k # i /\ r[k] = q[k] /\ k # m - 1 /\ k + 1 \in 1 .. m - 1 /\ k + 1 < i
      BY <1>4, <2>1, <3>0
    <3>2. r[k + 1] = q[k + 1] /\ next[q[k]] = q[k + 1]
      BY <1>2, <1>4, <3>1
    <3> QED
      BY <1>2, <1>7, <2>1, <3>1, <3>2
  <2>2. CASE k + 1 = i
    <3>1. k \in 1 .. m /\ k # i /\ k < i /\ r[k] = q[k] /\ (k = m - 1 <=> i = m)
      BY <1>2, <1>4, <2>2
    <3>2. next2[q[k]] = next[d] /\ q[k] # null
      BY <1>2, <1>7, <2>2, <3>1
    <3>3. next[d] = IF i = m THEN null ELSE q[i + 1]
      BY <1>1, <1>2
    <3>4. i # m => r[k + 1] = q[i + 1]
      <4>1. i # m => k + 1 \in 1 .. m - 1 /\ ~(k + 1 < i)
        BY <1>2, <2>2
      <4> QED
        BY <1>4, <2>2, <4>1
    <3> QED
      BY <3>1, <3>2, <3>3, <3>4
  <2>3. CASE ~(k < i)
    <3>0. /\ k + 1 \in 1 .. m /\ k + 1 # i /\ (k + 1) + 1 # i
          /\ (k = m - 1 <=> k + 1 = m)
      BY <1>2, <2>3
    <3>1. /\ k + 1 \in 1 .. m /\ k + 1 # i /\ r[k] = q[k + 1] /\ (k + 1) + 1 # i
          /\ (k = m - 1 <=> k + 1 = m)
      BY <1>4, <2>3, <3>0
    <3>2. next2[q[k + 1]] = next[q[k + 1]] /\ q[k + 1] # null
      BY <1>2, <1>7, <3>1
    <3>3. k # m - 1 => r[k + 1] = q[(k + 1) + 1]
      <4>1. k # m - 1 => k + 1 \in 1 .. m - 1 /\ ~(k + 1 < i)
        BY <1>2, <2>3
      <4> QED
        BY <1>4, <4>1
    <3> QED
      BY <1>2, <3>1, <3>2, <3>3
  <2> QED
    BY <2>1, <2>2, <2>3
<1>9. \A k, l \in 1 .. m - 1 : r[k] = r[l] => k = l
  <2> SUFFICES ASSUME NEW k \in 1 .. m - 1, NEW l \in 1 .. m - 1, r[k] = r[l]
               PROVE  k = l
    OBVIOUS
  <2> DEFINE at(n) == IF n < i THEN n ELSE n + 1
  <2>1. at(k) \in 1 .. m /\ at(l) \in 1 .. m /\ r[k] = q[at(k)] /\ r[l] = q[at(l)]
    BY <1>4
  <2>2. at(k) = at(l)
    <3> HIDE DEF at
    <3> QED
      BY <1>2, <2>1
  <2> QED
    BY <1>2, <2>2
<1>10. IF r = <<>> THEN (IF h = d THEN next[d] ELSE h) = null
                   ELSE (IF h = d THEN next[d] ELSE h) = r[1]
  <2>1. h = d <=> i = 1
    BY <1>1, <1>2
  <2>2. CASE i = 1 /\ m = 1
    BY <1>1, <1>2, <1>6, <2>1, <2>2
  <2>3. CASE i = 1 /\ m # 1
    <3>1. 1 \in 1 .. m - 1 /\ ~(1 < i) /\ 1 + 1 = 2 /\ r # <<>>
      BY <1>2, <1>6, <2>3
    <3>2. r[1] = q[2]
      BY <1>4, <3>1
    <3>3. next[d] = q[2]
      BY <1>1, <1>2, <2>3, <3>1
    <3> QED
      BY <2>1, <2>3, <3>1, <3>2, <3>3
  <2>4. CASE i # 1
    <3>1. 1 \in 1 .. m - 1 /\ 1 < i /\ r # <<>>
      BY <1>2, <1>6, <2>4
    <3> QED
      BY <1>2, <1>4, <2>1, <2>4, <3>1
  <2> QED
    BY <2>2, <2>3, <2>4
<1>11. IsList(r, IF h = d THEN next[d] ELSE h, next2, null)
  BY <1>6, <1>8, <1>9, <1>10 DEF IsList
<1>12. Nodes(r) = Nodes(q) \ {d}
  <2>1. Nodes(r) = {r[k] : k \in 1 .. m - 1}
    BY <1>6 DEF Nodes
  <2>2. ASSUME NEW k \in 1 .. m - 1 PROVE r[k] \in Nodes(q) \ {d}
    BY <1>1, <1>2, <1>4
  <2>3. ASSUME NEW k \in 1 .. m, k # i PROVE q[k] \in Nodes(r)
    <3>1. CASE k < i
      <4>1. k \in 1 .. m - 1
        BY <1>2, <3>1
      <4> QED
        BY <1>4, <2>1, <3>1, <4>1
    <3>2. CASE ~(k < i)
      <4>1. k - 1 \in 1 .. m - 1 /\ ~(k - 1 < i) /\ (k - 1) + 1 = k
        BY <1>2, <2>3, <3>2
      <4>2. r[k - 1] = q[k]
        BY <1>4, <4>1
      <4> QED
        BY <2>1, <4>1, <4>2
    <3> QED
      BY <3>1, <3>2
  <2> QED
    BY <1>1, <1>3, <2>1, <2>2, <2>3
<1> QED
  BY <1>6, <1>11, <1>12
=============================================================================
