--------------------------- MODULE ListHeapProofs ---------------------------
(***************************************************************************)
(* What the loops of the two lists compute, for heaps of any size: the     *)
(* walk from root_, where Insert and Delete stop, and what linking,        *)
(* unlinking and overwriting make of the list.                             *)
(***************************************************************************)
EXTENDS ListHeap, WellFoundedInduction, FiniteSetTheorems, TLAPS

Steps == Cardinality(Nodes)

KeyOf(h, n)  == h.node[n].key
NextOf(h, n) == h.node[n].next

(* L are the nodes of h from root_ on, in ascending order.                 *)
IsList(h, L) ==
  /\ L \subseteq Nodes
  /\ h.root \in L \union {null} /\ \A n \in L : NextOf(h, n) \in L \union {null}
  /\ \A m \in L : h.root # null /\ KeyOf(h, h.root) <= KeyOf(h, m)
  /\ \A n \in L : NextOf(h, n) # null => KeyOf(h, n) < KeyOf(h, NextOf(h, n))
  /\ \A n, m \in L : KeyOf(h, n) < KeyOf(h, m) =>
                       NextOf(h, n) # null /\ KeyOf(h, NextOf(h, n)) <= KeyOf(h, m)
  /\ \A n, m \in L : KeyOf(h, n) = KeyOf(h, m) => n = m
-----------------------------------------------------------------------------
(***************************************************************************)
(* Induction over the steps of a walk.                                     *)
(***************************************************************************)
LEMMA LeastNatural ==
  ASSUME NEW T \in SUBSET Nat, T # {}
  PROVE  \E x \in T : \A y \in T : x <= y
<1> DEFINE R == OpToRel(<, Nat)
<1>1. \E x \in T : \A y \in T : ~ (<<y, x>> \in R)
  <2>1. IsWellFoundedOn(R, Nat)
    BY NatLessThanWellFounded
  <2> HIDE DEF R
  <2>2. QED
    BY <2>1, WFMin
<1>2. \A x, y \in Nat : <<y, x>> \in R <=> y < x
  BY DEF OpToRel
<1> HIDE DEF R
<1>3. PICK x \in T : \A y \in T : ~ (<<y, x>> \in R)
  BY <1>1
<1>4. \A y \in T : x \in Nat /\ y \in Nat /\ ~(y < x)
  BY <1>2, <1>3
<1>5. QED
  BY <1>4

LEMMA UpTo ==
  ASSUME NEW N \in Nat, NEW S, 0 \in S, \A i \in 1 .. N : i - 1 \in S => i \in S
  PROVE  0 .. N \subseteq S
<1> SUFFICES ASSUME (0 .. N) \ S # {} PROVE FALSE
  OBVIOUS
<1>1. PICK x \in (0 .. N) \ S : \A y \in (0 .. N) \ S : x <= y
  <2>1. (0 .. N) \ S \in SUBSET Nat
    OBVIOUS
  <2>2. QED
    BY <2>1, LeastNatural
<1>2. x \in 1 .. N /\ x - 1 \in 0 .. N
  BY <1>1
<1>3. x - 1 \in S
  BY <1>1, <1>2
<1>4. QED
  BY <1>1, <1>2, <1>3

LEMMA StepsType == Steps \in Nat
BY HeapAssumption, FS_CardinalityType DEF Steps

(* The recursive definition has its one solution.                          *)
LEMMA WalkFacts ==
  ASSUME NEW h \in Heaps
  PROVE  /\ Walk(h) \in [0 .. Steps -> Links]
         /\ Walk(h)[0] = h.root
         /\ \A i \in 1 .. Steps :
              Walk(h)[i] = IF Walk(h)[i - 1] = null THEN null ELSE NextOf(h, Walk(h)[i - 1])
<1> DEFINE Succ(x) == IF x = null THEN null ELSE h.node[x].next
           Begins(f, n) == f \in [0 .. n -> Links] /\ f[0] = h.root
                           /\ \A i \in 1 .. n : f[i] = Succ(f[i - 1])
           S == {n \in Nat : \E f : Begins(f, n)}
<1>0. h.root \in Links /\ \A x \in Links : Succ(x) \in Links
  BY DEF Heaps, Links
<1>1. 0 \in S
  <2> DEFINE g == [i \in 0 .. 0 |-> h.root]
  <2>1. Begins(g, 0)
    BY <1>0
  <2> HIDE DEF g
  <2>2. QED
    BY <2>1
<1>2. ASSUME NEW n \in Nat, n \in S PROVE n + 1 \in S
  <2>1. PICK f : Begins(f, n)
    BY <1>2
  <2> DEFINE g == [i \in 0 .. n + 1 |-> IF i = n + 1 THEN Succ(f[n]) ELSE f[i]]
  <2>2. Succ(f[n]) \in Links
    BY <1>0, <2>1
  <2>3. g \in [0 .. n + 1 -> Links]
    BY <2>1, <2>2
  <2>4. ASSUME NEW i \in 1 .. n + 1 PROVE g[i] = Succ(g[i - 1])
    <3>1. i - 1 \in 0 .. n /\ i \in 0 .. n + 1
      OBVIOUS
    <3>2. g[i - 1] = f[i - 1]
      BY <3>1
    <3>3. g[i] = Succ(f[i - 1])
      BY <2>1, <3>1
    <3>4. QED
      BY <3>2, <3>3
  <2>5. g[0] = h.root
    BY <2>1
  <2> HIDE DEF g
  <2>6. Begins(g, n + 1)
    BY <2>3, <2>4, <2>5
  <2>7. n + 1 \in Nat
    BY <1>2
  <2> HIDE DEF Begins
  <2>8. QED
    BY <2>6, <2>7
<1>3. Steps \in S
  <2> HIDE DEF S
  <2>1. \A i \in 1 .. Steps : i - 1 \in S => i \in S
    <3> SUFFICES ASSUME NEW i \in 1 .. Steps, i - 1 \in S PROVE i \in S
      OBVIOUS
    <3>1. i - 1 \in Nat /\ (i - 1) + 1 = i
      BY StepsType
    <3>2. QED
      BY <1>2, <3>1
  <2>2. 0 .. Steps \subseteq S
    BY <1>1, <2>1, StepsType, UpTo
  <2>3. QED
    BY <2>2, StepsType
<1> DEFINE Solves(f) ==
      f = [i \in 0 .. Steps |-> IF i = 0 THEN h.root ELSE Succ(f[i - 1])]
<1>4. \E f : Solves(f)
  <2>1. PICK f : Begins(f, Steps)
    BY <1>3
  <2>2. \A i \in 0 .. Steps : f[i] = IF i = 0 THEN h.root ELSE Succ(f[i - 1])
    BY <2>1, StepsType
  <2>3. f = [i \in 0 .. Steps |-> f[i]]
    BY <2>1
  <2>4. QED
    BY <2>2, <2>3
<1>5. Walk(h) = CHOOSE f : Solves(f)
  BY DEF Walk, Steps
<1>6. Solves(Walk(h))
  BY <1>4, <1>5
<1>7. \A i \in 0 .. Steps : Walk(h)[i] = IF i = 0 THEN h.root ELSE Succ(Walk(h)[i - 1])
  BY <1>6
<1>8. DOMAIN Walk(h) = 0 .. Steps /\ Walk(h) = [i \in 0 .. Steps |-> Walk(h)[i]]
  BY <1>6
<1>9. \A i \in 0 .. Steps : Walk(h)[i] \in Links
  <2> DEFINE T == {i \in 0 .. Steps : Walk(h)[i] \in Links}
  <2>1. 0 \in T
    BY <1>0, <1>7, StepsType
  <2>2. \A i \in 1 .. Steps : i - 1 \in T => i \in T
    BY <1>0, <1>7, StepsType
  <2>3. 0 .. Steps \subseteq T
    <3> HIDE DEF T
    <3>1. QED
      BY <2>1, <2>2, StepsType, UpTo
  <2>4. QED
    BY <2>3
<1>10. Walk(h) \in [0 .. Steps -> Links]
  <2> DEFINE w == Walk(h)
  <2>1. w = [i \in 0 .. Steps |-> w[i]] /\ \A i \in 0 .. Steps : w[i] \in Links
    BY <1>8, <1>9
  <2> HIDE DEF w
  <2>2. w \in [0 .. Steps -> Links]
    BY <2>1
  <2>3. QED
    BY <2>2 DEF w
<1>11. Walk(h)[0] = h.root
  BY <1>7, StepsType
<1>12. ASSUME NEW i \in 1 .. Steps
       PROVE  Walk(h)[i] = IF Walk(h)[i - 1] = null THEN null ELSE NextOf(h, Walk(h)[i - 1])
  <2>1. i \in 0 .. Steps /\ i # 0
    OBVIOUS
  <2>2. Walk(h)[i] = Succ(Walk(h)[i - 1])
    BY <1>7, <2>1
  <2>3. QED
    BY <2>2 DEF NextOf
<1>13. QED
  BY <1>10, <1>11, <1>12
-----------------------------------------------------------------------------
(***************************************************************************)
(* A heap in ascending order is a list of the nodes in Chain, and of no    *)
(* others.                                                                 *)
(***************************************************************************)
LEMMA HeapTypes ==
  ASSUME NEW h \in Heaps
  PROVE  /\ h.root \in Links
         /\ \A n \in Nodes : KeyOf(h, n) \in Nat /\ NextOf(h, n) \in Links
<1>1. \A k \in Keys \union {0} : k \in Nat
  BY HeapAssumption
<1>2. h.root \in Links /\ h.node \in [Nodes -> [key : Keys \union {0},
                                               data : Data \union {Absent, Torn}, next : Links]]
  BY DEF Heaps
<1>3. QED
  BY <1>1, <1>2 DEF KeyOf, NextOf

LEMMA ChainMembers ==
  ASSUME NEW h \in Heaps
  PROVE  /\ Chain(h) \subseteq Nodes
         /\ \A n : n \in Chain(h) <=> n # null /\ \E i \in 0 .. Steps : Walk(h)[i] = n
<1>1. Walk(h) \in [0 .. Steps -> Links]
  BY WalkFacts
<1>2. QED
  BY <1>1 DEF Chain, Range, Links

LEMMA AscendingKeys ==
  ASSUME NEW h \in Heaps, Ascending(h),
         NEW i \in 0 .. Steps, NEW j \in 0 .. Steps, i < j, Walk(h)[j] # null
  PROVE  Walk(h)[i] # null /\ KeyOf(h, Walk(h)[i]) < KeyOf(h, Walk(h)[j])
<1> DEFINE w == Walk(h)
           S == {n \in 0 .. Steps :
                   \A m \in 0 .. Steps :
                     m < n /\ w[n] # null => w[m] # null /\ KeyOf(h, w[m]) < KeyOf(h, w[n])}
<1>0. /\ w \in [0 .. Steps -> Links]
      /\ \A n \in 1 .. Steps : w[n] = IF w[n - 1] = null THEN null ELSE NextOf(h, w[n - 1])
      /\ Steps \in Nat
  BY WalkFacts, StepsType
<1>1. 0 \in S
  BY <1>0
<1>2. ASSUME NEW n \in 1 .. Steps, n - 1 \in S PROVE n \in S
  <2> SUFFICES ASSUME NEW m \in 0 .. Steps, m < n, w[n] # null
               PROVE  w[m] # null /\ KeyOf(h, w[m]) < KeyOf(h, w[n])
    BY <1>0
  <2>1. n - 1 \in 0 .. Steps /\ n \in DOMAIN w \ {0}
    BY <1>0
  <2>2. w[n - 1] # null
    BY <1>0
  <2>3. KeyOf(h, w[n - 1]) < KeyOf(h, w[n])
    BY <2>1 DEF Ascending, KeyOf
  <2>4. CASE m = n - 1
    BY <2>2, <2>3, <2>4
  <2>5. CASE m # n - 1
    <3>1. m < n - 1
      BY <1>0, <2>5
    <3>2. w[m] # null /\ KeyOf(h, w[m]) < KeyOf(h, w[n - 1])
      BY <1>2, <2>2, <3>1
    <3>3. w[m] \in Nodes /\ w[n - 1] \in Nodes /\ w[n] \in Nodes
      BY <1>0, <2>1, <2>2, <3>2 DEF Links
    <3>4. KeyOf(h, w[m]) \in Nat /\ KeyOf(h, w[n - 1]) \in Nat /\ KeyOf(h, w[n]) \in Nat
      BY <3>3, HeapTypes
    <3>5. QED
      BY <2>3, <3>2, <3>4
  <2>6. QED
    BY <2>4, <2>5
<1>3. 0 .. Steps \subseteq S
  <2> HIDE DEF S
  <2>1. QED
    BY <1>0, <1>1, <1>2, UpTo
<1>4. QED
  BY <1>3

(* No walk in ascending order has more steps than there are nodes.         *)
LEMMA WalkEnds ==
  ASSUME NEW h \in Heaps, Ascending(h)
  PROVE  Walk(h)[Steps] = null
<1> SUFFICES ASSUME Walk(h)[Steps] # null PROVE FALSE
  OBVIOUS
<1> DEFINE w == Walk(h)
<1>0. w \in [0 .. Steps -> Links] /\ Steps \in Nat
  BY WalkFacts, StepsType
<1>1. \A i \in 0 .. Steps : w[i] # null
  <2> SUFFICES ASSUME NEW i \in 0 .. Steps, i # Steps PROVE w[i] # null
    OBVIOUS
  <2>1. i < Steps /\ Steps \in 0 .. Steps
    BY <1>0
  <2>2. QED
    BY <2>1, AscendingKeys
<1>2. w \in [0 .. Steps -> Nodes]
  BY <1>0, <1>1 DEF Links
<1>3. \A i, j \in 0 .. Steps : i < j => w[i] # w[j]
  <2> SUFFICES ASSUME NEW i \in 0 .. Steps, NEW j \in 0 .. Steps, i < j, w[i] = w[j] PROVE FALSE
    OBVIOUS
  <2>1. KeyOf(h, w[i]) < KeyOf(h, w[j])
    BY <1>1, AscendingKeys
  <2>2. KeyOf(h, w[i]) \in Nat
    BY <1>2, HeapTypes
  <2>3. QED
    BY <2>1, <2>2
<1>4. \A i, j \in 0 .. Steps : i # j => w[i] # w[j]
  BY <1>0, <1>3
<1>5. /\ IsFiniteSet(0 .. Steps) /\ Cardinality(0 .. Steps) = Steps + 1
      /\ IsFiniteSet(Nodes) /\ Cardinality(Nodes) = Steps
  <2>1. IsFiniteSet(0 .. Steps) /\ Cardinality(0 .. Steps) = Steps - 0 + 1
    BY <1>0, FS_Interval
  <2>2. QED
    BY <1>0, <2>1, HeapAssumption DEF Steps
<1>6. \E i, j \in 0 .. Steps : i # j /\ w[i] = w[j]
  <2> DEFINE I == 0 .. Steps
  <2>1. IsFiniteSet(I) /\ IsFiniteSet(Nodes) /\ Cardinality(Nodes) < Cardinality(I)
    BY <1>0, <1>5
  <2>2. w \in [I -> Nodes]
    BY <1>2
  <2> HIDE DEF w, I
  <2>3. \E i, j \in I : i # j /\ w[i] = w[j]
    BY <2>1, <2>2, FS_PigeonHole
  <2>4. QED
    BY <2>3 DEF I
<1>7. QED
  BY <1>4, <1>6

LEMMA ChainIsList ==
  ASSUME NEW h \in Heaps, Ascending(h)
  PROVE  IsList(h, Chain(h))
<1> DEFINE w == Walk(h)
           L == Chain(h)
<1>0. /\ w \in [0 .. Steps -> Links] /\ w[0] = h.root
      /\ \A i \in 1 .. Steps : w[i] = IF w[i - 1] = null THEN null ELSE NextOf(h, w[i - 1])
      /\ w[Steps] = null /\ Steps \in Nat
  BY WalkFacts, WalkEnds, StepsType
<1>1. /\ L \subseteq Nodes
      /\ \A n : n \in L <=> n # null /\ \E i \in 0 .. Steps : w[i] = n
  BY ChainMembers
<1>2. \A n \in Nodes : KeyOf(h, n) \in Nat
  BY HeapTypes
<1>3. \A i, j \in 0 .. Steps :
        i < j /\ w[j] # null => w[i] # null /\ KeyOf(h, w[i]) < KeyOf(h, w[j])
  BY AscendingKeys
<1>4. \A n \in L : \E i \in 0 .. Steps - 1 :
        /\ w[i] = n /\ i \in 0 .. Steps /\ i + 1 \in 0 .. Steps /\ NextOf(h, n) = w[i + 1]
  <2> SUFFICES ASSUME NEW i \in 0 .. Steps, w[i] # null
               PROVE  /\ i \in 0 .. Steps - 1 /\ i + 1 \in 0 .. Steps
                      /\ NextOf(h, w[i]) = w[i + 1]
    BY <1>1
  <2>1. i # Steps
    BY <1>0
  <2>2. i \in 0 .. Steps - 1 /\ i + 1 \in 1 .. Steps /\ (i + 1) - 1 = i
    BY <1>0, <2>1
  <2>3. NextOf(h, w[i]) = w[i + 1]
    BY <1>0, <2>2
  <2>4. QED
    BY <2>2, <2>3
<1> HIDE DEF w, L
<1>5. h.root \in L \union {null} /\ \A n \in L : NextOf(h, n) \in L \union {null}
  BY <1>0, <1>1, <1>4
<1>6. \A m \in L : h.root # null /\ KeyOf(h, h.root) <= KeyOf(h, m)
  <2> SUFFICES ASSUME NEW m \in L PROVE h.root # null /\ KeyOf(h, h.root) <= KeyOf(h, m)
    OBVIOUS
  <2>1. PICK i \in 0 .. Steps : w[i] = m /\ m # null
    BY <1>1
  <2>2. CASE i = 0
    BY <1>0, <1>1, <1>2, <2>1, <2>2
  <2>3. CASE i # 0
    <3>1. 0 \in 0 .. Steps /\ 0 < i
      BY <1>0, <2>3
    <3>2. h.root # null /\ KeyOf(h, h.root) < KeyOf(h, m)
      BY <1>0, <1>3, <2>1, <3>1
    <3>3. h.root \in Nodes /\ m \in Nodes
      BY <1>1, <1>5, <3>2
    <3>4. QED
      BY <1>2, <3>2, <3>3
  <2>4. QED
    BY <2>2, <2>3
<1>7. \A n \in L : NextOf(h, n) # null => KeyOf(h, n) < KeyOf(h, NextOf(h, n))
  <2> SUFFICES ASSUME NEW n \in L, NextOf(h, n) # null PROVE KeyOf(h, n) < KeyOf(h, NextOf(h, n))
    OBVIOUS
  <2>1. PICK i \in 0 .. Steps - 1 :
          w[i] = n /\ i \in 0 .. Steps /\ i + 1 \in 0 .. Steps /\ NextOf(h, n) = w[i + 1]
    BY <1>4
  <2>2. i < i + 1
    OBVIOUS
  <2>3. QED
    BY <1>3, <2>1, <2>2
<1>8. \A n, m \in L : KeyOf(h, n) < KeyOf(h, m) => NextOf(h, n) # null /\ KeyOf(h, NextOf(h, n)) <= KeyOf(h, m)
  <2> SUFFICES ASSUME NEW n \in L, NEW m \in L, KeyOf(h, n) < KeyOf(h, m)
               PROVE  NextOf(h, n) # null /\ KeyOf(h, NextOf(h, n)) <= KeyOf(h, m)
    OBVIOUS
  <2>1. PICK i \in 0 .. Steps - 1 :
          w[i] = n /\ i \in 0 .. Steps /\ i + 1 \in 0 .. Steps /\ NextOf(h, n) = w[i + 1]
    BY <1>4
  <2>2. PICK j \in 0 .. Steps : w[j] = m /\ m # null
    BY <1>1
  <2>3. KeyOf(h, n) \in Nat /\ KeyOf(h, m) \in Nat
    BY <1>1, <1>2
  <2>4. ~(j < i) /\ j # i
    <3>1. w[i] # null
      BY <1>1, <2>1
    <3>2. ~(j < i)
      BY <1>3, <2>1, <2>2, <2>3, <3>1
    <3>3. QED
      BY <2>1, <2>2, <2>3, <3>2
  <2>5. CASE j = i + 1
    BY <2>1, <2>2, <2>3, <2>5
  <2>6. CASE j # i + 1
    <3>1. i + 1 < j
      BY <2>4, <2>6
    <3>2. w[i + 1] # null /\ KeyOf(h, w[i + 1]) < KeyOf(h, m)
      BY <1>3, <2>1, <2>2, <3>1
    <3>3. w[i + 1] \in Nodes
      BY <1>1, <2>1, <3>2
    <3>4. QED
      BY <1>2, <2>1, <2>3, <3>2, <3>3
  <2>7. QED
    BY <2>5, <2>6
<1>9. \A n, m \in L : KeyOf(h, n) = KeyOf(h, m) => n = m
  <2> SUFFICES ASSUME NEW n \in L, NEW m \in L, KeyOf(h, n) = KeyOf(h, m) PROVE n = m
    OBVIOUS
  <2>1. PICK i \in 0 .. Steps : w[i] = n /\ n # null
    BY <1>1
  <2>2. PICK j \in 0 .. Steps : w[j] = m /\ m # null
    BY <1>1
  <2>3. KeyOf(h, n) \in Nat /\ KeyOf(h, m) \in Nat
    BY <1>1, <1>2
  <2>4. ~(i < j) /\ ~(j < i)
    BY <1>3, <2>1, <2>2, <2>3
  <2>5. QED
    BY <2>1, <2>2, <2>4
<1>10. QED
  BY <1>1, <1>5, <1>6, <1>7, <1>8, <1>9 DEF IsList, L

(* A list ends before it can come back to a node, and every node of it is  *)
(* on the walk.                                                            *)
LEMMA ListIsChain ==
  ASSUME NEW h \in Heaps, NEW L, IsList(h, L)
  PROVE  Ascending(h) /\ Chain(h) = L
<1> DEFINE w == Walk(h)
           S == {i \in 0 .. Steps : w[i] \in L \union {null}}
<1>0. /\ w \in [0 .. Steps -> Links] /\ w[0] = h.root
      /\ \A i \in 1 .. Steps : w[i] = IF w[i - 1] = null THEN null ELSE NextOf(h, w[i - 1])
      /\ Steps \in Nat
  BY WalkFacts, StepsType
<1>1. /\ L \subseteq Nodes
      /\ h.root \in L \union {null} /\ \A n \in L : NextOf(h, n) \in L \union {null}
      /\ \A n \in L : NextOf(h, n) # null => KeyOf(h, n) < KeyOf(h, NextOf(h, n))
      /\ \A n \in Nodes : KeyOf(h, n) \in Nat
  BY HeapTypes DEF IsList
<1>2. \A i \in 0 .. Steps : w[i] \in L \union {null}
  <2> HIDE DEF w
  <2>1. 0 \in S
    BY <1>0, <1>1
  <2>2. \A i \in 1 .. Steps : i - 1 \in S => i \in S
    BY <1>0, <1>1
  <2>3. 0 .. Steps \subseteq S
    <3> HIDE DEF S
    <3>1. QED
      BY <1>0, <2>1, <2>2, UpTo
  <2>4. QED
    BY <2>3
<1>3. Ascending(h)
  <2> SUFFICES ASSUME NEW i \in DOMAIN w \ {0}, w[i] # null
               PROVE  KeyOf(h, w[i - 1]) < KeyOf(h, w[i])
    BY DEF Ascending, KeyOf
  <2>1. i \in 1 .. Steps /\ i - 1 \in 0 .. Steps
    BY <1>0
  <2>2. w[i - 1] # null /\ w[i] = NextOf(h, w[i - 1])
    BY <1>0, <2>1
  <2>3. w[i - 1] \in L
    BY <1>2, <2>1, <2>2
  <2>4. QED
    BY <1>1, <2>2, <2>3
<1>4. Chain(h) \subseteq L
  BY <1>2, ChainMembers
<1>5. ASSUME NEW m \in L, m \notin Chain(h) PROVE FALSE
  <2> DEFINE T == {i \in 0 .. Steps : w[i] # null /\ KeyOf(h, w[i]) < KeyOf(h, m)}
  <2>0. /\ \A n \in L : KeyOf(h, n) <= KeyOf(h, m) => n = m \/ KeyOf(h, n) < KeyOf(h, m)
        /\ \A i \in 0 .. Steps : w[i] # m
        /\ h.root # null /\ KeyOf(h, h.root) <= KeyOf(h, m)
        /\ \A n \in L : KeyOf(h, n) < KeyOf(h, m) =>
                          NextOf(h, n) # null /\ KeyOf(h, NextOf(h, n)) <= KeyOf(h, m)
    <3>1. m \in Nodes /\ m # null
      BY <1>1, HeapAssumption
    <3>2. \A i \in 0 .. Steps : w[i] # m
      BY <1>5, <3>1, ChainMembers
    <3>3. \A n \in L : KeyOf(h, n) \in Nat /\ KeyOf(h, m) \in Nat
      BY <1>1
    <3>4. \A n \in L : KeyOf(h, n) = KeyOf(h, m) => n = m
      BY DEF IsList
    <3>5. \A n \in L : KeyOf(h, n) <= KeyOf(h, m) => n = m \/ KeyOf(h, n) < KeyOf(h, m)
      BY <3>3, <3>4
    <3>6. QED
      BY <3>2, <3>5 DEF IsList
  <2> HIDE DEF w
  <2>1. 0 \in T
    <3>1. w[0] \in L /\ w[0] # m /\ KeyOf(h, w[0]) <= KeyOf(h, m) /\ w[0] # null
      BY <1>0, <1>1, <2>0
    <3>2. QED
      BY <1>0, <2>0, <3>1
  <2>2. ASSUME NEW i \in 1 .. Steps, i - 1 \in T PROVE i \in T
    <3>1. w[i - 1] \in L /\ w[i] = NextOf(h, w[i - 1]) /\ KeyOf(h, w[i - 1]) < KeyOf(h, m)
      BY <1>0, <1>2, <2>2
    <3>2. w[i] # null /\ KeyOf(h, w[i]) <= KeyOf(h, m) /\ w[i] \in L /\ w[i] # m
      BY <1>0, <1>2, <2>0, <3>1
    <3>3. QED
      BY <2>0, <3>2
  <2>3. 0 .. Steps \subseteq T
    <3> HIDE DEF T
    <3>1. QED
      BY <1>0, <2>1, <2>2, UpTo
  <2>4. w[Steps] # null
    BY <1>0, <2>3
  <2>5. QED
    BY <1>3, <2>4, WalkEnds DEF w
<1>6. QED
  BY <1>3, <1>4, <1>5
-----------------------------------------------------------------------------
(***************************************************************************)
(* Where Insert and Delete stop.                                           *)
(***************************************************************************)
LEMMA StopFacts ==
  ASSUME NEW h \in Heaps, Ascending(h), NEW k \in Nat
  PROVE  /\ Current(h, k) \in Chain(h) \union {null}
         /\ Current(h, k) # null => KeyOf(h, Current(h, k)) >= k
         /\ Prev(h, k) \in Chain(h) \union {null}
         /\ Prev(h, k) = null => Current(h, k) = h.root
         /\ Prev(h, k) # null => NextOf(h, Prev(h, k)) = Current(h, k) /\ KeyOf(h, Prev(h, k)) < k
<1> DEFINE w == Walk(h)
           Stops(i) == w[i] = null \/ h.node[w[i]].key >= k
           First(i) == i \in DOMAIN w /\ Stops(i) /\ \A j \in 0 .. i - 1 : ~Stops(j)
           last == CHOOSE i : First(i)
<1>0. /\ w \in [0 .. Steps -> Links] /\ w[0] = h.root
      /\ \A i \in 1 .. Steps : w[i] = IF w[i - 1] = null THEN null ELSE NextOf(h, w[i - 1])
      /\ w[Steps] = null /\ Steps \in Nat
  BY WalkFacts, WalkEnds, StepsType
<1>1. \E i : First(i)
  <2> DEFINE T == {i \in 0 .. Steps : Stops(i)}
  <2>1. Steps \in T /\ T \in SUBSET Nat
    BY <1>0
  <2>2. PICK i \in T : \A j \in T : i <= j
    BY <2>1, LeastNatural
  <2>3. i \in 0 .. Steps /\ Stops(i)
    OBVIOUS
  <2>4. \A j \in 0 .. i - 1 : j \in 0 .. Steps /\ ~(i <= j)
    BY <1>0, <2>3
  <2>5. \A j \in 0 .. i - 1 : ~Stops(j)
    BY <2>2, <2>4
  <2>6. QED
    BY <1>0, <2>3, <2>5
<1>2. First(last)
  BY <1>1
<1>3. Stop(h, k) = [current |-> w[last], prev |-> IF last = 0 THEN null ELSE w[last - 1]]
  BY DEF Stop
<1> HIDE DEF last
<1>4. Current(h, k) = w[last] /\ Prev(h, k) = IF last = 0 THEN null ELSE w[last - 1]
  BY <1>3 DEF Current, Prev
<1>5. last \in 0 .. Steps
  BY <1>0, <1>2
<1>6. \A i \in 0 .. Steps : w[i] \in Chain(h) \union {null} /\ (w[i] # null => w[i] \in Nodes)
  BY <1>0, ChainMembers
<1>7. Current(h, k) \in Chain(h) \union {null} /\ (Current(h, k) # null => KeyOf(h, Current(h, k)) >= k)
  BY <1>2, <1>4, <1>5, <1>6 DEF KeyOf
<1>8. CASE last = 0
  BY <1>0, <1>4, <1>7, <1>8
<1>9. CASE last # 0
  <2>1. last \in 1 .. Steps /\ last - 1 \in 0 .. last - 1 /\ last - 1 \in 0 .. Steps
    BY <1>0, <1>5, <1>9
  <2>2. ~Stops(last - 1)
    BY <1>2, <2>1
  <2>3. w[last - 1] # null /\ ~(KeyOf(h, w[last - 1]) >= k) /\ w[last - 1] \in Nodes
    BY <1>6, <2>1, <2>2 DEF KeyOf
  <2>4. KeyOf(h, w[last - 1]) < k
    <3>1. KeyOf(h, w[last - 1]) \in Nat
      BY <2>3, HeapTypes
    <3>2. QED
      BY <2>3, <3>1
  <2>5. w[last] = NextOf(h, w[last - 1])
    BY <1>0, <2>1, <2>3
  <2>6. QED
    BY <1>4, <1>6, <1>7, <1>9, <2>1, <2>3, <2>4, <2>5
<1>10. QED
  BY <1>8, <1>9

(* Every node is on one side of the place between prev and current.        *)
LEMMA StopSplits ==
  ASSUME NEW h \in Heaps, Ascending(h), NEW k \in Nat
  PROVE  /\ \A m \in Chain(h) :
              /\ KeyOf(h, m) < k => Prev(h, k) # null /\ KeyOf(h, m) <= KeyOf(h, Prev(h, k))
              /\ KeyOf(h, m) >= k => Current(h, k) # null /\ KeyOf(h, Current(h, k)) <= KeyOf(h, m)
         /\ Found(h, k) <=> \E n \in Chain(h) : KeyOf(h, n) = k
<1> DEFINE c == Current(h, k)
           p == Prev(h, k)
           L == Chain(h)
<1>0. IsList(h, L) /\ \A n \in L : KeyOf(h, n) \in Nat
  BY ChainIsList, HeapTypes, ChainMembers
<1>1. /\ c \in L \union {null} /\ (c # null => KeyOf(h, c) >= k)
      /\ p \in L \union {null} /\ (p = null => c = h.root)
      /\ p # null => NextOf(h, p) = c /\ KeyOf(h, p) < k
  BY StopFacts
<1>2. null \notin L
  BY ChainMembers
<1> HIDE DEF c, p, L
<1>3. ASSUME NEW n \in L
      PROVE  /\ KeyOf(h, n) < k => p # null /\ KeyOf(h, n) <= KeyOf(h, p)
             /\ KeyOf(h, n) >= k => c # null /\ KeyOf(h, c) <= KeyOf(h, n)
  <2>1. CASE p = null
    BY <1>0, <1>1, <2>1 DEF IsList
  <2>2. CASE p # null
    <3>1. p \in L /\ NextOf(h, p) = c /\ KeyOf(h, p) < k /\ KeyOf(h, p) \in Nat /\ KeyOf(h, n) \in Nat
      BY <1>0, <1>1, <2>2
    <3>2. KeyOf(h, p) < KeyOf(h, n) => c # null /\ KeyOf(h, c) <= KeyOf(h, n)
      BY <1>0, <3>1 DEF IsList
    <3>3. c # null => KeyOf(h, c) \in Nat
      BY <1>0, <1>1
    <3>4. QED
      BY <1>1, <2>2, <3>1, <3>2, <3>3
  <2>3. QED
    BY <2>1, <2>2
<1>4. Found(h, k) <=> c # null /\ KeyOf(h, c) = k
  BY DEF Found, KeyOf, c
<1>5. (\E n \in L : KeyOf(h, n) = k) => c # null /\ KeyOf(h, c) = k
  <2> SUFFICES ASSUME NEW n \in L, KeyOf(h, n) = k PROVE c # null /\ KeyOf(h, c) = k
    OBVIOUS
  <2>1. c # null /\ KeyOf(h, c) <= k
    BY <1>3
  <2>2. KeyOf(h, c) \in Nat /\ KeyOf(h, c) >= k
    BY <1>0, <1>1, <2>1
  <2>3. QED
    BY <2>1, <2>2
<1>6. QED
  BY <1>1, <1>3, <1>4, <1>5 DEF c, p, L
-----------------------------------------------------------------------------
(***************************************************************************)
(* What the updates make of the list.                                      *)
(***************************************************************************)
Proper(h) == h \in Heaps /\ Ascending(h) /\ \A n \in Chain(h) : KeyOf(h, n) \in Keys

DataOf(h, n) == h.node[n].data

LEMMA ProperFacts ==
  ASSUME NEW h, Proper(h)
  PROVE  /\ IsList(h, Chain(h)) /\ Chain(h) \subseteq Nodes /\ null \notin Chain(h)
         /\ Chain(h) \cap Fresh(h) = {}
         /\ h.root \in Links /\ \A n \in Nodes : KeyOf(h, n) \in Nat /\ NextOf(h, n) \in Links
<1>1. 0 \notin Keys
  BY HeapAssumption
<1>2. \A n \in Fresh(h) : KeyOf(h, n) = 0
  BY DEF Fresh, KeyOf
<1>3. QED
  BY <1>1, <1>2, ChainIsList, ChainMembers, HeapTypes DEF Proper

LEMMA KeyType == \A k \in Keys : k \in Nat /\ k # 0
BY HeapAssumption

LEMMA SetNextFields ==
  ASSUME NEW f \in Heaps, NEW p \in Links, NEW n \in Links
  PROVE  LET g == SetNext(f, p, n)
         IN  /\ g \in Heaps /\ g.root = IF p = null THEN n ELSE f.root
             /\ \A m \in Nodes :
                  /\ KeyOf(g, m) = KeyOf(f, m) /\ DataOf(g, m) = DataOf(f, m)
                  /\ NextOf(g, m) = IF m = p THEN n ELSE NextOf(f, m)
<1> DEFINE N == [key : Keys \union {0}, data : Data \union {Absent, Torn}, next : Links]
           g == SetNext(f, p, n)
<1>1. f.root \in Links /\ f.node \in [Nodes -> N] /\ f = [root |-> f.root, node |-> f.node]
  BY DEF Heaps
<1> HIDE DEF N
<1>2. CASE p = null
  <2>1. g = [f EXCEPT !.root = n]
    BY <1>2 DEF SetNext
  <2>2. g.root = n /\ g.node = f.node /\ g = [root |-> n, node |-> f.node]
    BY <1>1, <2>1
  <2>3. g \in Heaps
    BY <1>1, <2>2 DEF Heaps, N
  <2>4. null \notin Nodes
    BY HeapAssumption
  <2>5. QED
    BY <1>2, <2>2, <2>3, <2>4 DEF KeyOf, DataOf, NextOf
<1>3. CASE p # null
  <2>0. p \in Nodes
    BY <1>3 DEF Links
  <2>1. g = [f EXCEPT !.node[p].next = n]
    BY <1>3 DEF SetNext
  <2>2. g.root = f.root /\ g.node = [f.node EXCEPT ![p] = [f.node[p] EXCEPT !.next = n]]
        /\ g = [root |-> g.root, node |-> g.node]
    BY <1>1, <2>1
  <2>3. [f.node[p] EXCEPT !.next = n] \in N
        /\ [f.node[p] EXCEPT !.next = n].key = f.node[p].key
        /\ [f.node[p] EXCEPT !.next = n].data = f.node[p].data
        /\ [f.node[p] EXCEPT !.next = n].next = n
    BY <1>1, <2>0 DEF N
  <2>4. g.node \in [Nodes -> N]
    BY <1>1, <2>0, <2>2, <2>3
  <2>5. g \in Heaps
    BY <1>1, <2>2, <2>4 DEF Heaps, N
  <2>6. \A m \in Nodes : g.node[m] = IF m = p THEN [f.node[p] EXCEPT !.next = n] ELSE f.node[m]
    BY <1>1, <2>0, <2>2
  <2>7. QED
    BY <1>3, <2>2, <2>3, <2>5, <2>6 DEF KeyOf, DataOf, NextOf
<1>4. QED
  BY <1>2, <1>3

(* A node outside the list, as Insert has constructed it.                  *)
Built(h, n, k, d) ==
  /\ n \in Nodes \ Chain(h)
  /\ KeyOf(h, n) = k /\ DataOf(h, n) = d /\ NextOf(h, n) = Current(h, k)

(* Linking it changes prev, and nothing else.                              *)
LEMMA LinkFields ==
  ASSUME NEW h, Proper(h), NEW k \in Keys, NEW n \in Nodes \ Chain(h)
  PROVE  LET g == Link(h, n, k)
             p == Prev(h, k)
         IN  /\ g \in Heaps /\ p # n /\ Fresh(g) = Fresh(h)
             /\ g.root = IF p = null THEN n ELSE h.root
             /\ \A m \in Nodes :
                  /\ KeyOf(g, m) = KeyOf(h, m) /\ DataOf(g, m) = DataOf(h, m)
                  /\ NextOf(g, m) = IF m = p THEN n ELSE NextOf(h, m)
<1> DEFINE p == Prev(h, k)
           g == Link(h, n, k)
<1>1. p \in Links /\ n \in Links /\ p # n /\ h \in Heaps
  <2>1. p \in Chain(h) \union {null}
    BY KeyType, StopFacts DEF Proper
  <2>2. QED
    BY <2>1, ProperFacts, HeapAssumption DEF Links, Proper
<1>2. g = SetNext(h, p, n)
  BY DEF Link
<1> HIDE DEF p, g
<1>3. /\ g \in Heaps /\ g.root = IF p = null THEN n ELSE h.root
      /\ \A m \in Nodes :
           /\ KeyOf(g, m) = KeyOf(h, m) /\ DataOf(g, m) = DataOf(h, m)
           /\ NextOf(g, m) = IF m = p THEN n ELSE NextOf(h, m)
  BY <1>1, <1>2, SetNextFields
<1>4. Fresh(g) = Fresh(h)
  BY <1>3 DEF Fresh, KeyOf
<1>5. QED
  BY <1>1, <1>3, <1>4 DEF g, p

LEMMA LinkKeepsList ==
  ASSUME NEW h, Proper(h), NEW k \in Keys, NEW d, NEW n, Built(h, n, k, d), ~Found(h, k)
  PROVE  Proper(Link(h, n, k)) /\ Chain(Link(h, n, k)) = Chain(h) \union {n}
<1> DEFINE g == Link(h, n, k)
           c == Current(h, k)
           p == Prev(h, k)
           L == Chain(h)
           M == L \union {n}
<1>1. /\ g \in Heaps /\ n \in Nodes /\ p # n
      /\ g.root = IF p = null THEN n ELSE h.root
      /\ \A m \in Nodes : KeyOf(g, m) = IF m = n THEN k ELSE KeyOf(h, m)
      /\ \A m \in Nodes : NextOf(g, m) = IF m = n THEN c ELSE IF m = p THEN n ELSE NextOf(h, m)
  BY LinkFields DEF Built
<1>2. /\ c \in L \union {null} /\ (c # null => KeyOf(h, c) >= k)
      /\ p \in L \union {null} /\ (p = null => c = h.root)
      /\ p # null => NextOf(h, p) = c /\ KeyOf(h, p) < k
      /\ \A m \in L : /\ KeyOf(h, m) < k => p # null /\ KeyOf(h, m) <= KeyOf(h, p)
                      /\ KeyOf(h, m) >= k => c # null /\ KeyOf(h, c) <= KeyOf(h, m)
      /\ \A m \in L : KeyOf(h, m) # k
  BY KeyType, StopFacts, StopSplits DEF Proper
<1>3. /\ IsList(h, L) /\ L \subseteq Nodes /\ null \notin L /\ n \notin L /\ n # null
      /\ k \in Nat /\ \A m \in L : KeyOf(h, m) \in Nat /\ KeyOf(h, m) \in Keys
  BY ProperFacts, KeyType, HeapAssumption DEF Proper, Built
<1> HIDE DEF g, c, p, L
<1>4. KeyOf(g, n) = k /\ \A m \in L : KeyOf(g, m) = KeyOf(h, m)
  BY <1>1, <1>3
<1>5. NextOf(g, n) = c /\ \A m \in L : NextOf(g, m) = IF m = p THEN n ELSE NextOf(h, m)
  BY <1>1, <1>3
<1>6. M \subseteq Nodes /\ g.root \in M \union {null} /\ \A m \in M : NextOf(g, m) \in M \union {null}
  BY <1>1, <1>2, <1>3, <1>5 DEF IsList
<1>7. \A m \in M : g.root # null /\ KeyOf(g, g.root) <= KeyOf(g, m)
  <2>1. CASE p = null
    <3>1. g.root = n /\ \A m \in L : ~(KeyOf(h, m) < k)
      BY <1>1, <1>2, <2>1
    <3>2. QED
      BY <1>3, <1>4, <3>1
  <2>2. CASE p # null
    <3>1. p \in L /\ KeyOf(h, p) < k /\ h.root # null /\ h.root \in L /\ g.root = h.root
          /\ \A m \in L : KeyOf(h, h.root) <= KeyOf(h, m)
      BY <1>1, <1>2, <1>3, <2>2 DEF IsList
    <3>2. KeyOf(h, h.root) <= k
      BY <1>3, <3>1
    <3>3. QED
      BY <1>3, <1>4, <3>1, <3>2
  <2>3. QED
    BY <2>1, <2>2
<1>8. \A m \in M : NextOf(g, m) # null => KeyOf(g, m) < KeyOf(g, NextOf(g, m))
  <2>1. NextOf(g, n) # null => KeyOf(g, n) < KeyOf(g, NextOf(g, n))
    <3>1. c # null => c \in L /\ KeyOf(h, c) >= k /\ KeyOf(h, c) # k /\ KeyOf(h, c) \in Nat
      BY <1>2, <1>3
    <3>2. QED
      BY <1>3, <1>4, <1>5, <3>1
  <2>2. ASSUME NEW m \in L, NextOf(g, m) # null PROVE KeyOf(g, m) < KeyOf(g, NextOf(g, m))
    <3>1. CASE m = p
      BY <1>2, <1>3, <1>4, <1>5, <3>1
    <3>2. CASE m # p
      BY <1>3, <1>4, <1>5, <2>2, <3>2 DEF IsList
    <3>3. QED
      BY <3>1, <3>2
  <2>3. QED
    BY <2>1, <2>2
<1>9. \A m, q \in M : KeyOf(g, m) < KeyOf(g, q) => NextOf(g, m) # null /\ KeyOf(g, NextOf(g, m)) <= KeyOf(g, q)
  <2>1. ASSUME NEW m \in L, NEW q \in L, KeyOf(h, m) < KeyOf(h, q)
        PROVE  NextOf(g, m) # null /\ KeyOf(g, NextOf(g, m)) <= KeyOf(g, q)
    <3>1. NextOf(h, m) # null /\ NextOf(h, m) \in L /\ KeyOf(h, NextOf(h, m)) <= KeyOf(h, q)
      BY <1>3, <2>1 DEF IsList
    <3>2. CASE m # p
      BY <1>4, <1>5, <3>1, <3>2
    <3>3. CASE m = p
      <4>1. NextOf(g, m) = n /\ NextOf(h, m) = c /\ KeyOf(h, c) >= k /\ c \in L
        BY <1>2, <1>3, <1>5, <3>1, <3>3
      <4>2. KeyOf(h, c) \in Nat /\ KeyOf(h, q) \in Nat
        BY <1>3, <4>1
      <4>3. k <= KeyOf(h, q)
        BY <1>3, <3>1, <4>1, <4>2
      <4>4. QED
        BY <1>3, <1>4, <4>1, <4>3
    <3>4. QED
      BY <3>2, <3>3
  <2>2. ASSUME NEW q \in L, k < KeyOf(h, q)
        PROVE  NextOf(g, n) # null /\ KeyOf(g, NextOf(g, n)) <= KeyOf(g, q)
    <3>1. KeyOf(h, q) >= k
      BY <1>3, <2>2
    <3>2. c # null /\ c \in L /\ KeyOf(h, c) <= KeyOf(h, q)
      BY <1>2, <3>1
    <3>3. QED
      BY <1>4, <1>5, <3>2
  <2>3. ASSUME NEW m \in L, KeyOf(h, m) < k
        PROVE  NextOf(g, m) # null /\ KeyOf(g, NextOf(g, m)) <= KeyOf(g, n)
    <3>0. p \in L /\ p # null /\ KeyOf(h, m) <= KeyOf(h, p) /\ KeyOf(h, p) < k
      BY <1>2, <2>3
    <3>1. CASE m = p
      BY <1>3, <1>4, <1>5, <3>1
    <3>2. CASE m # p
      <4>1. KeyOf(h, m) # KeyOf(h, p)
        BY <1>3, <3>0, <3>2 DEF IsList
      <4>2. KeyOf(h, m) < KeyOf(h, p)
        BY <1>3, <3>0, <4>1
      <4>3. NextOf(h, m) # null /\ NextOf(h, m) \in L /\ KeyOf(h, NextOf(h, m)) <= KeyOf(h, p)
        BY <1>3, <3>0, <4>2 DEF IsList
      <4>4. KeyOf(h, NextOf(h, m)) <= k
        BY <1>3, <3>0, <4>3
      <4>5. QED
        BY <1>4, <1>5, <3>2, <4>3, <4>4
    <3>3. QED
      BY <3>1, <3>2
  <2>4. ~(k < k)
    BY <1>3
  <2>5. QED
    BY <1>4, <2>1, <2>2, <2>3, <2>4
<1>10. \A m, q \in M : KeyOf(g, m) = KeyOf(g, q) => m = q
  BY <1>2, <1>3, <1>4 DEF IsList
<1>11. IsList(g, M)
  BY <1>6, <1>7, <1>8, <1>9, <1>10 DEF IsList
<1>12. Ascending(g) /\ Chain(g) = M
  BY <1>1, <1>11, ListIsChain
<1>13. \A m \in M : KeyOf(g, m) \in Keys
  BY <1>3, <1>4
<1>14. QED
  BY <1>1, <1>3, <1>12, <1>13 DEF Proper, g, L

(* Delete takes out the node with the key; the others stay in order.       *)
LEMMA UnlinkKeepsList ==
  ASSUME NEW h, Proper(h), NEW k \in Keys, Found(h, k)
  PROVE  LET g == Unlink(h, k)
             c == Current(h, k)
         IN  /\ Proper(g) /\ Chain(g) = Chain(h) \ {c}
             /\ c \in Chain(h) /\ KeyOf(h, c) = k
             /\ \A m \in Nodes : KeyOf(g, m) = KeyOf(h, m) /\ DataOf(g, m) = DataOf(h, m)
             /\ NextOf(g, c) = NextOf(h, c) /\ Fresh(g) = Fresh(h)
             /\ g.root \in {h.root, NextOf(h, c)}
             /\ \A m \in Nodes : NextOf(g, m) \in {NextOf(h, m), NextOf(h, c)}
<1> DEFINE g == Unlink(h, k)
           c == Current(h, k)
           p == Prev(h, k)
           L == Chain(h)
           M == L \ {c}
<1>1. /\ c \in L \union {null} /\ c # null /\ KeyOf(h, c) = k
      /\ p \in L \union {null} /\ (p = null => c = h.root)
      /\ p # null => NextOf(h, p) = c /\ KeyOf(h, p) < k
  BY KeyType, StopFacts DEF Proper, Found, KeyOf
<1>2. /\ IsList(h, L) /\ L \subseteq Nodes /\ null \notin L
      /\ k \in Nat /\ \A m \in L : KeyOf(h, m) \in Nat /\ KeyOf(h, m) \in Keys
      /\ h \in Heaps /\ \A m \in Nodes : NextOf(h, m) \in Links
  BY ProperFacts, KeyType DEF Proper
<1>3. /\ g \in Heaps /\ g.root = IF p = null THEN NextOf(h, c) ELSE h.root
      /\ \A m \in Nodes : /\ KeyOf(g, m) = KeyOf(h, m) /\ DataOf(g, m) = DataOf(h, m)
                          /\ NextOf(g, m) = IF m = p THEN NextOf(h, c) ELSE NextOf(h, m)
  <2>1. g = SetNext(h, p, NextOf(h, c))
    BY DEF Unlink, NextOf
  <2>2. p \in Links /\ NextOf(h, c) \in Links
    BY <1>1, <1>2 DEF Links
  <2> DEFINE x == NextOf(h, c)
             f == SetNext(h, p, x)
  <2>3. x \in Links /\ p \in Links /\ h \in Heaps
    BY <1>2, <2>2
  <2> HIDE DEF p, x
  <2>4. /\ f \in Heaps /\ f.root = IF p = null THEN x ELSE h.root
        /\ \A m \in Nodes : /\ KeyOf(f, m) = KeyOf(h, m) /\ DataOf(f, m) = DataOf(h, m)
                            /\ NextOf(f, m) = IF m = p THEN x ELSE NextOf(h, m)
    BY <2>3, SetNextFields
  <2>5. QED
    BY <2>1, <2>4 DEF x
<1>4. Fresh(g) = Fresh(h)
  BY <1>3 DEF Fresh, KeyOf
<1> HIDE DEF g, c, p, L
<1>5. c \in L /\ c # p /\ NextOf(g, c) = NextOf(h, c) /\ \A m \in L : KeyOf(g, m) = KeyOf(h, m)
  <2>1. p # null => KeyOf(h, p) # k
    BY <1>1, <1>2
  <2>2. QED
    BY <1>1, <1>2, <1>3, <2>1
<1>6. \A m \in M : NextOf(g, m) = IF m = p THEN NextOf(h, c) ELSE NextOf(h, m)
  BY <1>2, <1>3
<1>7. /\ NextOf(h, c) \in M \union {null}
      /\ \A m \in L : m # p => NextOf(h, m) # c
  <2>1. NextOf(h, c) \in L \union {null} /\ NextOf(h, c) # c
    BY <1>2, <1>5 DEF IsList
  <2>2. ASSUME NEW m \in L, m # p, NextOf(h, m) = c PROVE FALSE
    <3>1. KeyOf(h, m) < k
      BY <1>1, <1>2, <1>5, <2>2 DEF IsList
    <3>2. CASE p = null
      <4>1. KeyOf(h, c) <= KeyOf(h, m)
        BY <1>1, <1>2, <2>2, <3>2 DEF IsList
      <4>2. QED
        BY <1>1, <1>2, <2>2, <3>1, <4>1
    <3>3. CASE p # null
      <4>1. p \in L /\ NextOf(h, p) = c /\ KeyOf(h, p) < k /\ KeyOf(h, p) # KeyOf(h, m)
        BY <1>1, <1>2, <2>2, <3>3 DEF IsList
      <4>2. KeyOf(h, p) < KeyOf(h, m) => k <= KeyOf(h, m)
        BY <1>1, <1>2, <2>2, <4>1 DEF IsList
      <4>3. KeyOf(h, m) < KeyOf(h, p) => k <= KeyOf(h, p)
        BY <1>1, <1>2, <2>2, <4>1 DEF IsList
      <4>4. KeyOf(h, p) \in Nat /\ KeyOf(h, m) \in Nat
        BY <1>2, <2>2, <4>1
      <4>5. QED
        BY <1>2, <3>1, <4>1, <4>2, <4>3, <4>4
    <3>4. QED
      BY <3>2, <3>3
  <2>3. QED
    BY <2>1, <2>2
<1>8. M \subseteq Nodes /\ g.root \in M \union {null} /\ \A m \in M : NextOf(g, m) \in M \union {null}
  <2>1. g.root \in M \union {null}
    <3>1. CASE p = null
      BY <1>3, <1>7, <3>1
    <3>2. CASE p # null
      <4>1. h.root \in L
        BY <1>1, <1>2, <3>2 DEF IsList
      <4>2. h.root # c
        <5>1. KeyOf(h, h.root) <= KeyOf(h, p) /\ KeyOf(h, p) < k /\ KeyOf(h, p) \in Nat
              /\ KeyOf(h, h.root) \in Nat
          BY <1>1, <1>2, <3>2, <4>1 DEF IsList
        <5>2. QED
          BY <1>1, <1>2, <5>1
      <4>3. QED
        BY <1>3, <3>2, <4>1, <4>2
    <3>3. QED
      BY <3>1, <3>2
  <2>2. \A m \in M : NextOf(g, m) \in M \union {null}
    BY <1>2, <1>6, <1>7 DEF IsList
  <2>3. QED
    BY <1>2, <2>1, <2>2
<1>9. \A m \in M : g.root # null /\ KeyOf(g, g.root) <= KeyOf(g, m)
  <2> SUFFICES ASSUME NEW m \in M PROVE g.root # null /\ KeyOf(g, g.root) <= KeyOf(g, m)
    OBVIOUS
  <2>0. h.root # null /\ KeyOf(h, h.root) <= KeyOf(h, m) /\ h.root \in L
    BY <1>2 DEF IsList
  <2>1. CASE p = null
    <3>1. c = h.root /\ g.root = NextOf(h, c) /\ KeyOf(h, c) # KeyOf(h, m)
      BY <1>1, <1>2, <1>3, <1>5, <2>1 DEF IsList
    <3>2. KeyOf(h, c) < KeyOf(h, m)
      BY <1>2, <1>5, <2>0, <3>1
    <3>3. QED
      BY <1>2, <1>5, <1>7, <3>1, <3>2 DEF IsList
  <2>2. CASE p # null
    BY <1>3, <1>5, <2>0, <2>2
  <2>3. QED
    BY <2>1, <2>2
<1>10. \A m \in M : NextOf(g, m) # null => KeyOf(g, m) < KeyOf(g, NextOf(g, m))
  <2> SUFFICES ASSUME NEW m \in M, NextOf(g, m) # null PROVE KeyOf(g, m) < KeyOf(g, NextOf(g, m))
    OBVIOUS
  <2>1. CASE m = p
    <3>1. NextOf(g, m) = NextOf(h, c) /\ KeyOf(h, p) < KeyOf(h, c) /\ NextOf(h, c) \in M
      BY <1>1, <1>2, <1>5, <1>6, <1>7, <2>1
    <3>2. KeyOf(h, c) < KeyOf(h, NextOf(h, c))
      BY <1>2, <1>5, <3>1 DEF IsList
    <3>3. KeyOf(h, p) < KeyOf(h, NextOf(h, c))
      BY <1>2, <1>5, <2>1, <3>1, <3>2
    <3>4. QED
      BY <1>5, <2>1, <3>1, <3>3
  <2>2. CASE m # p
    BY <1>2, <1>5, <1>6, <1>8, <2>2 DEF IsList
  <2>3. QED
    BY <2>1, <2>2
<1>11. \A m, q \in M : KeyOf(g, m) < KeyOf(g, q) => NextOf(g, m) # null /\ KeyOf(g, NextOf(g, m)) <= KeyOf(g, q)
  <2> SUFFICES ASSUME NEW m \in M, NEW q \in M, KeyOf(h, m) < KeyOf(h, q)
               PROVE  NextOf(g, m) # null /\ KeyOf(g, NextOf(g, m)) <= KeyOf(g, q)
    BY <1>5
  <2>1. NextOf(h, m) # null /\ NextOf(h, m) \in L /\ KeyOf(h, NextOf(h, m)) <= KeyOf(h, q)
    BY <1>2 DEF IsList
  <2>2. CASE m = p
    <3>1. NextOf(h, m) = c /\ KeyOf(h, c) # KeyOf(h, q)
      BY <1>1, <1>2, <1>5, <2>2 DEF IsList
    <3>2. KeyOf(h, c) < KeyOf(h, q)
      BY <1>2, <1>5, <2>1, <3>1
    <3>3. NextOf(h, c) # null /\ KeyOf(h, NextOf(h, c)) <= KeyOf(h, q)
      BY <1>2, <1>5, <3>2 DEF IsList
    <3>4. QED
      BY <1>5, <1>6, <1>7, <2>2, <3>3
  <2>3. CASE m # p
    BY <1>5, <1>6, <2>1, <2>3
  <2>4. QED
    BY <2>2, <2>3
<1>12. \A m, q \in M : KeyOf(g, m) = KeyOf(g, q) => m = q
  BY <1>2, <1>5 DEF IsList
<1>13. IsList(g, M)
  BY <1>8, <1>9, <1>10, <1>11, <1>12 DEF IsList
<1>14. Ascending(g) /\ Chain(g) = M
  BY <1>3, <1>13, ListIsChain
<1>15. Proper(g)
  BY <1>2, <1>3, <1>5, <1>14 DEF Proper
<1>16. QED
  BY <1>1, <1>3, <1>4, <1>5, <1>14, <1>15 DEF g, c, L

(* Heaps with the same links and keys in the list are the same lists.      *)
LEMMA SameChainSameList ==
  ASSUME NEW h, Proper(h), NEW g \in Heaps, g.root = h.root,
         \A m \in Chain(h) : KeyOf(g, m) = KeyOf(h, m) /\ NextOf(g, m) = NextOf(h, m)
  PROVE  /\ Proper(g) /\ Chain(g) = Chain(h)
         /\ \A k \in Keys : Current(g, k) = Current(h, k)
<1> DEFINE L == Chain(h)
<1>1. IsList(h, L) /\ L \subseteq Nodes /\ null \notin L /\ h \in Heaps /\ Ascending(h)
  BY ProperFacts DEF Proper
<1> HIDE DEF L
<1>2. \A m \in L : KeyOf(g, m) = KeyOf(h, m) /\ NextOf(g, m) = NextOf(h, m)
  BY DEF L
<1>3. IsList(g, L)
  BY <1>1, <1>2 DEF IsList
<1>4. Ascending(g) /\ Chain(g) = L
  BY <1>3, ListIsChain
<1>5. Proper(g)
  BY <1>2, <1>4 DEF Proper, L
<1>6. ASSUME NEW k \in Keys PROVE Current(g, k) = Current(h, k)
  <2> DEFINE c == Current(h, k)
             e == Current(g, k)
  <2>1. k \in Nat
    BY KeyType
  <2>2. /\ c \in L \union {null} /\ (c # null => KeyOf(h, c) >= k)
        /\ \A m \in L : KeyOf(h, m) >= k => c # null /\ KeyOf(h, c) <= KeyOf(h, m)
    BY <1>1, <2>1, StopFacts, StopSplits DEF L
  <2>3. /\ e \in L \union {null} /\ (e # null => KeyOf(g, e) >= k)
        /\ \A m \in L : KeyOf(g, m) >= k => e # null /\ KeyOf(g, e) <= KeyOf(g, m)
    BY <1>4, <2>1, StopFacts, StopSplits
  <2> HIDE DEF c, e
  <2>4. \A m \in L : KeyOf(h, m) \in Nat
    BY <1>1, HeapTypes
  <2>5. (c # null \/ e # null) => c \in L /\ e \in L /\ KeyOf(h, c) = KeyOf(h, e)
    BY <1>2, <2>2, <2>3, <2>4
  <2>6. c = e
    BY <1>1, <2>5 DEF IsList
  <2>7. QED
    BY <2>6 DEF c, e
<1>7. QED
  BY <1>4, <1>5, <1>6 DEF L

LEMMA SameLinksSameList ==
  ASSUME NEW h, Proper(h), NEW g \in Heaps, g.root = h.root,
         \A m \in Nodes : KeyOf(g, m) = KeyOf(h, m) /\ NextOf(g, m) = NextOf(h, m)
  PROVE  Proper(g) /\ Chain(g) = Chain(h) /\ Fresh(g) = Fresh(h)
<1>1. Chain(h) \subseteq Nodes
  BY ProperFacts
<1>2. Proper(g) /\ Chain(g) = Chain(h)
  BY <1>1, SameChainSameList
<1>3. QED
  BY <1>2 DEF Fresh, KeyOf

(* Constructing a node does not touch the list.                            *)
LEMMA NewNodeKeepsList ==
  ASSUME NEW h, Proper(h), NEW k \in Keys, NEW d \in Data, NEW n \in Fresh(h)
  PROVE  LET g == NewNode(h, n, k, d, Current(h, k))
         IN  /\ Proper(g) /\ Chain(g) = Chain(h) /\ Fresh(g) = Fresh(h) \ {n}
             /\ g.root = h.root /\ Built(g, n, k, d)
             /\ (Found(g, k) <=> Found(h, k))
             /\ \A m \in Nodes \ {n} : /\ KeyOf(g, m) = KeyOf(h, m) /\ DataOf(g, m) = DataOf(h, m)
                                       /\ NextOf(g, m) = NextOf(h, m)
<1> DEFINE c == Current(h, k)
           N == [key : Keys \union {0}, data : Data \union {Absent, Torn}, next : Links]
           x == [key |-> k, data |-> d, next |-> c]
           g == NewNode(h, n, k, d, c)
<1>0. c \in Chain(h) \union {null} /\ c \in Links /\ n \in Nodes /\ n \notin Chain(h) /\ k # 0
  <2>1. c \in Chain(h) \union {null}
    BY KeyType, StopFacts DEF Proper
  <2>2. n \in Nodes
    BY DEF Fresh
  <2>3. QED
    BY <2>1, <2>2, ProperFacts, KeyType DEF Links
<1>1. h.root \in Links /\ h.node \in [Nodes -> N] /\ h = [root |-> h.root, node |-> h.node]
  BY DEF Proper, Heaps
<1>2. x \in N /\ x.key = k /\ x.data = d /\ x.next = c
  BY <1>0
<1>3. g.root = h.root /\ g.node = [h.node EXCEPT ![n] = x]
      /\ g = [root |-> g.root, node |-> g.node]
  BY <1>1 DEF NewNode
<1> HIDE DEF c, x, g, N
<1>4. g.node \in [Nodes -> N] /\ g.node[n] = x /\ \A m \in Nodes \ {n} : g.node[m] = h.node[m]
  BY <1>0, <1>1, <1>2, <1>3
<1>5. g \in Heaps
  BY <1>1, <1>3, <1>4 DEF Heaps, N
<1>6. \A m \in Nodes \ {n} : /\ KeyOf(g, m) = KeyOf(h, m) /\ DataOf(g, m) = DataOf(h, m)
                             /\ NextOf(g, m) = NextOf(h, m)
  BY <1>4 DEF KeyOf, DataOf, NextOf
<1>7. KeyOf(g, n) = k /\ DataOf(g, n) = d /\ NextOf(g, n) = c
  BY <1>2, <1>4 DEF KeyOf, DataOf, NextOf
<1>8. \A m \in Chain(h) : m \in Nodes \ {n}
  BY <1>0, ProperFacts
<1>9. Proper(g) /\ Chain(g) = Chain(h) /\ Current(g, k) = c
  BY <1>3, <1>5, <1>6, <1>8, SameChainSameList DEF c
<1>10. Fresh(g) = Fresh(h) \ {n}
  BY <1>0, <1>6, <1>7 DEF Fresh, KeyOf
<1>11. Found(g, k) <=> Found(h, k)
  BY <1>0, <1>6, <1>8, <1>9 DEF Found, KeyOf, c
<1>12. Built(g, n, k, d)
  BY <1>0, <1>7, <1>9 DEF Built
<1>13. QED
  BY <1>3, <1>6, <1>9, <1>10, <1>11, <1>12 DEF g, c

(* Insert overwrites the data of the node with the key, and nothing else.  *)
LEMMA OverwriteKeepsList ==
  ASSUME NEW h, Proper(h), NEW k \in Keys, Found(h, k), NEW d \in Data \union {Torn}
  PROVE  LET g == Overwrite(h, k, d)
             c == Current(h, k)
         IN  /\ Proper(g) /\ Chain(g) = Chain(h) /\ Fresh(g) = Fresh(h)
             /\ c \in Chain(h) /\ KeyOf(h, c) = k /\ g.root = h.root
             /\ \A m \in Nodes : /\ KeyOf(g, m) = KeyOf(h, m) /\ NextOf(g, m) = NextOf(h, m)
                                 /\ DataOf(g, m) = IF m = c THEN d ELSE DataOf(h, m)
<1> DEFINE g == Overwrite(h, k, d)
           c == Current(h, k)
           N == [key : Keys \union {0}, data : Data \union {Absent, Torn}, next : Links]
<1>1. c \in Chain(h) /\ c \in Nodes /\ KeyOf(h, c) = k
  <2>1. c \in Chain(h) \union {null} /\ c # null /\ KeyOf(h, c) = k
    BY KeyType, StopFacts DEF Proper, Found, KeyOf
  <2>2. QED
    BY <2>1, ProperFacts
<1>2. h.root \in Links /\ h.node \in [Nodes -> N] /\ h = [root |-> h.root, node |-> h.node]
  BY DEF Proper, Heaps
<1>3. d \in Data \union {Absent, Torn}
  OBVIOUS
<1>4. g = [h EXCEPT !.node[c].data = d]
  BY DEF Overwrite
<1> HIDE DEF g, c
<1>5. g.root = h.root /\ g.node = [h.node EXCEPT ![c] = [h.node[c] EXCEPT !.data = d]]
      /\ g = [root |-> g.root, node |-> g.node]
  BY <1>2, <1>4
<1>6. [h.node[c] EXCEPT !.data = d] \in N
      /\ [h.node[c] EXCEPT !.data = d].key = h.node[c].key
      /\ [h.node[c] EXCEPT !.data = d].next = h.node[c].next
      /\ [h.node[c] EXCEPT !.data = d].data = d
  BY <1>1, <1>2, <1>3
<1> HIDE DEF N
<1>7. g.node \in [Nodes -> N]
      /\ \A m \in Nodes : g.node[m] = IF m = c THEN [h.node[c] EXCEPT !.data = d] ELSE h.node[m]
  BY <1>1, <1>2, <1>5, <1>6
<1>8. g \in Heaps
  BY <1>2, <1>5, <1>7 DEF Heaps, N
<1>9. \A m \in Nodes : /\ KeyOf(g, m) = KeyOf(h, m) /\ NextOf(g, m) = NextOf(h, m)
                       /\ DataOf(g, m) = IF m = c THEN d ELSE DataOf(h, m)
  BY <1>6, <1>7 DEF KeyOf, NextOf, DataOf
<1>10. Proper(g) /\ Chain(g) = Chain(h) /\ Fresh(g) = Fresh(h)
  BY <1>5, <1>8, <1>9, SameLinksSameList
<1>11. QED
  BY <1>1, <1>5, <1>9, <1>10 DEF g, c

(* The destructor of the list leaves an empty one.                         *)
LEMMA EmptyList ==
  ASSUME NEW h, Proper(h)
  PROVE  LET g == [h EXCEPT !.root = null]
         IN  /\ Proper(g) /\ Chain(g) = {} /\ Fresh(g) = Fresh(h) /\ g.root = null
             /\ \A m \in Nodes : NextOf(g, m) = NextOf(h, m)
<1> DEFINE g == [h EXCEPT !.root = null]
<1>1. g \in Heaps /\ g.root = null /\ g.node = h.node
  BY DEF Proper, Heaps, Links
<1> HIDE DEF g
<1>2. IsList(g, {})
  BY <1>1 DEF IsList
<1>3. Ascending(g) /\ Chain(g) = {}
  BY <1>1, <1>2, ListIsChain
<1>4. Fresh(g) = Fresh(h) /\ \A m \in Nodes : NextOf(g, m) = NextOf(h, m)
  BY <1>1 DEF Fresh, NextOf
<1>5. QED
  BY <1>1, <1>3, <1>4 DEF Proper, g
-----------------------------------------------------------------------------
(***************************************************************************)
(* Links lead to constructed nodes, from the nodes that have left the list *)
(* as well as from those in it.                                            *)
(***************************************************************************)
LeadsToNodes(h) ==
  h.root \notin Fresh(h) /\ \A n \in Nodes \ Fresh(h) : NextOf(h, n) \notin Fresh(h)

LEMMA NewNodeLeads ==
  ASSUME NEW h, Proper(h), LeadsToNodes(h), NEW k \in Keys, NEW d \in Data, NEW n \in Fresh(h)
  PROVE  LeadsToNodes(NewNode(h, n, k, d, Current(h, k)))
<1> DEFINE g == NewNode(h, n, k, d, Current(h, k))
<1>1. /\ Fresh(g) = Fresh(h) \ {n} /\ g.root = h.root /\ Built(g, n, k, d) /\ Proper(g)
      /\ \A m \in Nodes \ {n} : NextOf(g, m) = NextOf(h, m)
  BY NewNodeKeepsList
<1> HIDE DEF g
<1>2. NextOf(g, n) \in Chain(g) \union {null} /\ null \notin Fresh(g)
  BY <1>1, KeyType, StopFacts, HeapAssumption DEF Built, Proper, Fresh
<1>3. NextOf(g, n) \notin Fresh(g)
  BY <1>1, <1>2, ProperFacts
<1>4. LeadsToNodes(g)
  BY <1>1, <1>3 DEF LeadsToNodes
<1>5. QED
  BY <1>4 DEF g

LEMMA LinkLeads ==
  ASSUME NEW h, Proper(h), LeadsToNodes(h), NEW k \in Keys,
         NEW n \in Nodes \ Chain(h), n \notin Fresh(h)
  PROVE  LeadsToNodes(Link(h, n, k))
<1> DEFINE g == Link(h, n, k)
<1>1. /\ Fresh(g) = Fresh(h) /\ g.root \in {n, h.root}
      /\ \A m \in Nodes : NextOf(g, m) \in {n, NextOf(h, m)}
  BY LinkFields
<1> HIDE DEF g
<1>2. LeadsToNodes(g)
  BY <1>1 DEF LeadsToNodes
<1>3. QED
  BY <1>2 DEF g

LEMMA UnlinkLeads ==
  ASSUME NEW h, Proper(h), LeadsToNodes(h), NEW k \in Keys, Found(h, k)
  PROVE  LeadsToNodes(Unlink(h, k))
<1> DEFINE g == Unlink(h, k)
           c == Current(h, k)
<1>1. /\ Fresh(g) = Fresh(h) /\ g.root \in {h.root, NextOf(h, c)} /\ c \in Chain(h)
      /\ \A m \in Nodes : NextOf(g, m) \in {NextOf(h, m), NextOf(h, c)}
  BY UnlinkKeepsList
<1> HIDE DEF g, c
<1>2. c \in Nodes \ Fresh(h)
  BY <1>1, ProperFacts
<1>3. LeadsToNodes(g)
  BY <1>1, <1>2 DEF LeadsToNodes
<1>4. QED
  BY <1>3 DEF g

-----------------------------------------------------------------------------
(***************************************************************************)
(* What the list contains.                                                 *)
(***************************************************************************)
LEMMA ContentsAt ==
  ASSUME NEW h, Proper(h), NEW k \in Keys
  PROVE  /\ (\A n \in Chain(h) : KeyOf(h, n) # k) => Contents(h)[k] = Absent
         /\ \A n \in Chain(h) : KeyOf(h, n) = k => Contents(h)[k] = DataOf(h, n)
<1> DEFINE At == {n \in Chain(h) : KeyOf(h, n) = k}
<1>1. Contents(h)[k] = IF At = {} THEN Absent ELSE DataOf(h, CHOOSE n \in At : TRUE)
  BY DEF Contents, KeyOf, DataOf
<1>2. \A n, m \in Chain(h) : KeyOf(h, n) = KeyOf(h, m) => n = m
  BY ProperFacts DEF IsList
<1>3. (\A n \in Chain(h) : KeyOf(h, n) # k) => At = {}
  OBVIOUS
<1>4. ASSUME NEW n \in Chain(h), KeyOf(h, n) = k
      PROVE  At # {} /\ (CHOOSE m \in At : TRUE) = n
  <2>1. At = {n}
    BY <1>2, <1>4
  <2>2. QED
    BY <2>1
<1>5. QED
  BY <1>1, <1>3, <1>4

LEMMA ContentsIsFunction ==
  ASSUME NEW h
  PROVE  Contents(h) = [j \in Keys |-> Contents(h)[j]]
BY DEF Contents

(* An update changes what is kept for one key.                             *)
LEMMA ContentsChange ==
  ASSUME NEW h, Proper(h), NEW g, Proper(g), NEW k \in Keys,
         \A n : KeyOf(h, n) # k => (n \in Chain(h) => n \in Chain(g) /\ DataOf(g, n) = DataOf(h, n)
                                                      /\ KeyOf(g, n) = KeyOf(h, n)),
         \A n : KeyOf(g, n) # k => (n \in Chain(g) => n \in Chain(h) /\ KeyOf(g, n) = KeyOf(h, n))
  PROVE  Contents(g) = [Contents(h) EXCEPT ![k] = Contents(g)[k]]
<1>1. ASSUME NEW j \in Keys, j # k PROVE Contents(g)[j] = Contents(h)[j]
  <2>1. CASE \A n \in Chain(h) : KeyOf(h, n) # j
    <3>1. \A n \in Chain(g) : KeyOf(g, n) # j
      BY <1>1, <2>1
    <3>2. QED
      BY <2>1, <3>1, ContentsAt
  <2>2. CASE \E n \in Chain(h) : KeyOf(h, n) = j
    <3>1. PICK n \in Chain(h) : KeyOf(h, n) = j
      BY <2>2
    <3>2. n \in Chain(g) /\ KeyOf(g, n) = j /\ DataOf(g, n) = DataOf(h, n)
      BY <1>1, <3>1
    <3>3. Contents(h)[j] = DataOf(h, n) /\ Contents(g)[j] = DataOf(g, n)
      BY <3>1, <3>2, ContentsAt
    <3>4. QED
      BY <3>2, <3>3
  <2>3. QED
    BY <2>1, <2>2
<1> DEFINE C == Contents(h)
           D == Contents(g)
<1>2. C = [j \in Keys |-> C[j]] /\ D = [j \in Keys |-> D[j]] /\ \A j \in Keys : j # k => D[j] = C[j]
  BY <1>1, ContentsIsFunction
<1> HIDE DEF C, D
<1>3. D = [C EXCEPT ![k] = D[k]]
  BY <1>2
<1>4. QED
  BY <1>3 DEF C, D

LEMMA SameContents ==
  ASSUME NEW h, Proper(h), NEW g, Proper(g), Chain(g) = Chain(h),
         \A n \in Chain(h) : KeyOf(g, n) = KeyOf(h, n) /\ DataOf(g, n) = DataOf(h, n)
  PROVE  Contents(g) = Contents(h)
<1>1. ASSUME NEW j \in Keys PROVE Contents(g)[j] = Contents(h)[j]
  <2>1. CASE \A n \in Chain(h) : KeyOf(h, n) # j
    BY <2>1, ContentsAt
  <2>2. CASE \E n \in Chain(h) : KeyOf(h, n) = j
    BY <2>2, ContentsAt
  <2>3. QED
    BY <2>1, <2>2
<1>2. QED
  BY <1>1, ContentsIsFunction

LEMMA ContentsOfLink ==
  ASSUME NEW h, Proper(h), NEW k \in Keys, NEW d, NEW n, Built(h, n, k, d), ~Found(h, k)
  PROVE  Contents(Link(h, n, k)) = [Contents(h) EXCEPT ![k] = d]
<1> DEFINE g == Link(h, n, k)
<1>1. Proper(g) /\ Chain(g) = Chain(h) \union {n}
  BY LinkKeepsList
<1>2. /\ n \in Nodes \ Chain(h) /\ KeyOf(h, n) = k /\ DataOf(h, n) = d
      /\ \A m \in Nodes : KeyOf(g, m) = KeyOf(h, m) /\ DataOf(g, m) = DataOf(h, m)
  BY LinkFields DEF Built
<1>3. Chain(h) \subseteq Nodes /\ Chain(g) \subseteq Nodes
  BY <1>1, ProperFacts
<1> HIDE DEF g
<1>4. Contents(g)[k] = d
  BY <1>1, <1>2, ContentsAt
<1>5. Contents(g) = [Contents(h) EXCEPT ![k] = Contents(g)[k]]
  <2>1. \A m : KeyOf(h, m) # k => (m \in Chain(h) => m \in Chain(g) /\ DataOf(g, m) = DataOf(h, m)
                                                      /\ KeyOf(g, m) = KeyOf(h, m))
    BY <1>1, <1>2, <1>3
  <2>2. \A m : KeyOf(g, m) # k => (m \in Chain(g) => m \in Chain(h) /\ KeyOf(g, m) = KeyOf(h, m))
    BY <1>1, <1>2, <1>3
  <2>3. QED
    BY <1>1, <2>1, <2>2, ContentsChange
<1>6. QED
  BY <1>4, <1>5 DEF g

LEMMA ContentsOfUnlink ==
  ASSUME NEW h, Proper(h), NEW k \in Keys, Found(h, k)
  PROVE  Contents(Unlink(h, k)) = [Contents(h) EXCEPT ![k] = Absent]
<1> DEFINE g == Unlink(h, k)
           c == Current(h, k)
<1>1. /\ Proper(g) /\ Chain(g) = Chain(h) \ {c}
      /\ c \in Chain(h) /\ KeyOf(h, c) = k
      /\ \A m \in Nodes : KeyOf(g, m) = KeyOf(h, m) /\ DataOf(g, m) = DataOf(h, m)
  BY UnlinkKeepsList
<1>2. Chain(h) \subseteq Nodes /\ \A n, m \in Chain(h) : KeyOf(h, n) = KeyOf(h, m) => n = m
  BY ProperFacts DEF IsList
<1> HIDE DEF g, c
<1>3. \A n \in Chain(g) : KeyOf(g, n) # k
  BY <1>1, <1>2
<1>4. Contents(g)[k] = Absent
  BY <1>1, <1>3, ContentsAt
<1>5. Contents(g) = [Contents(h) EXCEPT ![k] = Contents(g)[k]]
  <2>1. \A m : KeyOf(h, m) # k => (m \in Chain(h) => m \in Chain(g) /\ DataOf(g, m) = DataOf(h, m)
                                                      /\ KeyOf(g, m) = KeyOf(h, m))
    BY <1>1, <1>2
  <2>2. \A m : KeyOf(g, m) # k => (m \in Chain(g) => m \in Chain(h) /\ KeyOf(g, m) = KeyOf(h, m))
    BY <1>1, <1>2
  <2>3. QED
    BY <1>1, <2>1, <2>2, ContentsChange
<1>6. QED
  BY <1>4, <1>5 DEF g

LEMMA ContentsOfOverwrite ==
  ASSUME NEW h, Proper(h), NEW k \in Keys, Found(h, k), NEW d \in Data \union {Torn}
  PROVE  Contents(Overwrite(h, k, d)) = [Contents(h) EXCEPT ![k] = d]
<1> DEFINE g == Overwrite(h, k, d)
           c == Current(h, k)
<1>1. /\ Proper(g) /\ Chain(g) = Chain(h)
      /\ c \in Chain(h) /\ KeyOf(h, c) = k
      /\ \A m \in Nodes : /\ KeyOf(g, m) = KeyOf(h, m)
                          /\ DataOf(g, m) = IF m = c THEN d ELSE DataOf(h, m)
  BY OverwriteKeepsList
<1>2. Chain(h) \subseteq Nodes
  BY ProperFacts
<1> HIDE DEF g, c
<1>3. c \in Chain(g) /\ KeyOf(g, c) = k /\ DataOf(g, c) = d
  BY <1>1, <1>2
<1>4. Contents(g)[k] = d
  BY <1>1, <1>3, ContentsAt
<1>5. Contents(g) = [Contents(h) EXCEPT ![k] = Contents(g)[k]]
  <2>1. \A m : KeyOf(h, m) # k => (m \in Chain(h) => m \in Chain(g) /\ DataOf(g, m) = DataOf(h, m)
                                                      /\ KeyOf(g, m) = KeyOf(h, m))
    BY <1>1, <1>2
  <2>2. \A m : KeyOf(g, m) # k => (m \in Chain(g) => m \in Chain(h) /\ KeyOf(g, m) = KeyOf(h, m))
    BY <1>1, <1>2
  <2>3. QED
    BY <1>1, <2>1, <2>2, ContentsChange
<1>6. QED
  BY <1>4, <1>5 DEF g
=============================================================================
