--------------------------- MODULE UnitTestsProofs --------------------------
(***************************************************************************)
(* The filter of the unit test runner, for filters and names of any        *)
(* length, and the runner, for any number of tests and command lines.      *)
(***************************************************************************)
EXTENDS UnitTests, WellFoundedInduction, SequenceTheorems, FunctionTheorems, FiniteSetTheorems,
        TLAPS

(***************************************************************************)
(* Induction over an interval, and definition by it.                       *)
(***************************************************************************)
LEMMA UpTo ==
  ASSUME NEW N \in Nat, NEW S, 0 \in S, \A i \in 1 .. N : i - 1 \in S => i \in S
  PROVE  0 .. N \subseteq S
<1> SUFFICES ASSUME (0 .. N) \ S # {} PROVE FALSE
  OBVIOUS
<1> DEFINE R == OpToRel(<, Nat)
           T == (0 .. N) \ S
<1>1. \E x \in T : \A y \in T : ~ (<<y, x>> \in R)
  <2>1. IsWellFoundedOn(R, Nat)
    BY NatLessThanWellFounded
  <2>2. T \subseteq Nat /\ T # {}
    OBVIOUS
  <2> HIDE DEF R, T
  <2>3. QED
    BY <2>1, <2>2, WFMin
<1>2. \A x, y \in Nat : <<y, x>> \in R <=> y < x
  BY DEF OpToRel
<1> HIDE DEF R
<1>3. PICK x \in T : \A y \in T : ~ (y < x)
  <2>1. T \subseteq Nat
    OBVIOUS
  <2> HIDE DEF T
  <2>2. QED
    BY <1>1, <1>2, <2>1
<1>4. x \in 1 .. N /\ x - 1 \in 0 .. N /\ x - 1 < x
  BY <1>3
<1>5. x - 1 \in S
  BY <1>3, <1>4
<1>6. QED
  BY <1>3, <1>4, <1>5

(* The last element of an interval.                                        *)
LEMMA LastIndex ==
  \A k \in Nat \ {0} : /\ k \in 1 .. k /\ k - 1 \in Nat /\ (k - 1) + 1 = k
                       /\ \A i \in 1 .. k - 1 : i \in 1 .. k /\ i # k
OBVIOUS

(* A function whose values each follow from the one before.                *)
HasIteration(N, S, c, D) ==
  \E f \in [0 .. N -> S] : f[0] = c /\ \A i \in 1 .. N : f[i] = D[i][f[i - 1]]

LEMMA Iterated ==
  ASSUME NEW N \in Nat, NEW S, NEW c \in S, NEW D \in [1 .. N -> [S -> S]]
  PROVE  HasIteration(N, S, c, D)
<1> DEFINE Begins(f, n) == f \in [0 .. n -> S] /\ f[0] = c
                           /\ \A i \in 1 .. n : f[i] = D[i][f[i - 1]]
           B == {n \in Nat : \E f : Begins(f, n)}
<1>1. 0 \in B
  <2> DEFINE g == [i \in 0 .. 0 |-> c]
  <2>1. Begins(g, 0)
    OBVIOUS
  <2> HIDE DEF g
  <2>2. QED
    BY <2>1
<1>2. ASSUME NEW n \in 1 .. N, n - 1 \in B PROVE n \in B
  <2>1. PICK f : Begins(f, n - 1)
    BY <1>2
  <2> DEFINE g == [i \in 0 .. n |-> IF i = n THEN D[n][f[n - 1]] ELSE f[i]]
  <2>2. D[n][f[n - 1]] \in S
    BY <2>1
  <2>3. g \in [0 .. n -> S]
    <3>1. \A i \in 0 .. n : i # n => i \in 0 .. n - 1
      OBVIOUS
    <3>2. QED
      BY <2>1, <2>2, <3>1
  <2>4. ASSUME NEW i \in 1 .. n PROVE g[i] = D[i][g[i - 1]]
    <3>1. i - 1 \in 0 .. n - 1 /\ i \in 0 .. n /\ i - 1 \in 0 .. n /\ i - 1 # n
      OBVIOUS
    <3>2. g[i - 1] = f[i - 1]
      BY <3>1
    <3>3. CASE i = n
      BY <3>1, <3>2, <3>3
    <3>4. CASE i # n
      <4>1. i \in 1 .. n - 1
        BY <3>4
      <4>2. g[i] = f[i]
        BY <3>1, <3>4
      <4>3. QED
        BY <2>1, <3>2, <4>1, <4>2
    <3>5. QED
      BY <3>3, <3>4
  <2>5. g[0] = c
    BY <2>1
  <2> HIDE DEF g
  <2>6. Begins(g, n) /\ n \in Nat
    BY <2>3, <2>4, <2>5
  <2> HIDE DEF Begins
  <2>7. QED
    BY <2>6
<1>3. N \in B
  <2> HIDE DEF B
  <2>1. 0 .. N \subseteq B
    BY <1>1, <1>2, UpTo
  <2>2. QED
    BY <2>1
<1>4. QED
  BY <1>3 DEF HasIteration
-----------------------------------------------------------------------------
(***************************************************************************)
(* The two loops of utest_should_filter_test.                              *)
(***************************************************************************)
Verdicts == {"none", "selected", "filtered"}

Positions(filt, name) ==
  {s \in [f : 1 .. Len(filt) + 1, n : 1 .. Len(name) + 1, w : 0 .. Len(filt), verdict : Verdicts] :
     s.w < s.f}

LEMMA PositionFacts ==
  ASSUME NEW filt \in Strings, NEW name \in Strings, NEW s \in Positions(filt, name)
  PROVE  /\ Len(filt) \in Nat /\ Len(name) \in Nat
         /\ s \in [f : Int, n : Int, w : Int, verdict : Verdicts]
         /\ s.f \in 1 .. Len(filt) + 1 /\ s.n \in 1 .. Len(name) + 1 /\ s.w \in 0 .. Len(filt)
         /\ s.f \in Nat /\ s.n \in Nat /\ s.w \in Nat /\ s.w < s.f
         /\ s.f - 1 \in 0 .. Len(filt) /\ s.n - 1 \in 0 .. Len(name)
         /\ s.verdict \in Verdicts
<1>1. Len(filt) \in Nat /\ Len(name) \in Nat
  BY LenProperties DEF Strings
<1>2. /\ s.f \in 1 .. Len(filt) + 1 /\ s.n \in 1 .. Len(name) + 1 /\ s.w \in 0 .. Len(filt)
      /\ s.w < s.f /\ s.verdict \in Verdicts
      /\ s \in [f : 1 .. Len(filt) + 1, n : 1 .. Len(name) + 1, w : 0 .. Len(filt),
                verdict : Verdicts]
  BY DEF Positions
<1>3. s.f \in Nat /\ s.n \in Nat /\ s.w \in Nat
  BY <1>1, <1>2
<1>4. s.f - 1 \in 0 .. Len(filt) /\ s.n - 1 \in 0 .. Len(name)
  BY <1>1, <1>2
<1>5. s \in [f : Int, n : Int, w : Int, verdict : Verdicts]
  BY <1>2, <1>3
<1>6. QED
  BY <1>1, <1>2, <1>3, <1>4, <1>5

LEMMA AtFacts ==
  ASSUME NEW string \in Strings, NEW i \in 1 .. Len(string) + 1
  PROVE  /\ At(string, i) = End <=> i = Len(string) + 1
         /\ i <= Len(string) => At(string, i) = string[i]
<1>1. Len(string) \in Nat /\ \A j \in 1 .. Len(string) : string[j] # End
  BY LenProperties DEF Strings
<1>2. CASE i <= Len(string)
  BY <1>1, <1>2 DEF At
<1>3. CASE i = Len(string) + 1
  BY <1>1, <1>3 DEF At
<1>4. QED
  BY <1>1, <1>2, <1>3

(* What an iteration may do: nothing any more, decide, go on behind a      *)
(* wildcard, go on behind two equal characters, or start over.             *)
Rests(s, t) == s.verdict # "none" /\ t = s

Decides(filt, name, s, t) ==
  /\ t.f = s.f /\ t.n = s.n /\ t.w = s.w /\ t.verdict \in {"selected", "filtered"}
  /\ t.verdict = "selected" =>
       /\ s.f = Len(filt) + 1
       /\ s.n = Len(name) + 1 \/ (s.f > 1 /\ filt[s.f - 1] = Wildcard)
  /\ /\ s.f = Len(filt) + 1
     /\ s.n = Len(name) + 1 \/ (s.f > 1 /\ filt[s.f - 1] = Wildcard /\ s.n <= Len(name))
     => t.verdict = "selected"
  /\ s.f <= Len(filt) /\ s.n <= Len(name) =>
       filt[s.f] # name[s.n] /\ filt[s.f] # Wildcard

EntersWildcard(filt, name, s, t) ==
  /\ s.f <= Len(filt) /\ s.n <= Len(name) /\ filt[s.f] = Wildcard
  /\ t.f = s.f + 1 /\ t.n = s.n /\ t.w = s.f /\ t.verdict = "none"

Agrees(filt, name, s, t) ==
  /\ s.f <= Len(filt) /\ s.n <= Len(name)
  /\ filt[s.f] # Wildcard /\ filt[s.f] = name[s.n]
  /\ t.f = s.f + 1 /\ t.n = s.n + 1 /\ t.w = s.w /\ t.verdict = "none"

StartsOver(filt, name, s, t) ==
  /\ s.f <= Len(filt) /\ s.n <= Len(name) /\ s.w > 0
  /\ t.f = s.w + 1 /\ t.n = s.n + 1 /\ t.w = s.w /\ t.verdict = "none"

LEMMA IterateCases ==
  ASSUME NEW filt \in Strings, NEW name \in Strings, NEW s \in Positions(filt, name)
  PROVE  LET t == Iterate(filt, name, s)
         IN  /\ t \in [f : Int, n : Int, w : Int, verdict : Verdicts]
             /\ \/ Rests(s, t)
                \/ /\ s.verdict = "none"
                   /\ \/ Decides(filt, name, s, t)
                      \/ EntersWildcard(filt, name, s, t)
                      \/ Agrees(filt, name, s, t)
                      \/ StartsOver(filt, name, s, t)
<1> DEFINE t == Iterate(filt, name, s)
           c == At(filt, s.f)
           d == At(name, s.n)
           Decide(selected) == [s EXCEPT !.verdict = IF selected THEN "selected" ELSE "filtered"]
<1>0. /\ Len(filt) \in Nat /\ Len(name) \in Nat
      /\ s \in [f : Int, n : Int, w : Int, verdict : Verdicts]
      /\ s.f \in 1 .. Len(filt) + 1 /\ s.n \in 1 .. Len(name) + 1 /\ s.w \in 0 .. Len(filt)
  BY PositionFacts
<1>1. /\ c = End <=> s.f = Len(filt) + 1
      /\ s.f <= Len(filt) => c = filt[s.f]
      /\ d = End <=> s.n = Len(name) + 1
      /\ s.n <= Len(name) => d = name[s.n]
  BY <1>0, AtFacts
<1>2. CASE s.verdict # "none"
  BY <1>0, <1>2 DEF Iterate, Rests
<1>3. CASE s.verdict = "none" /\ s.w > 0 /\ d = End
  <2>1. t = Decide(c = End)
    BY <1>3 DEF Iterate
  <2>2. QED
    BY <1>0, <1>1, <1>3, <2>1 DEF Decides, Verdicts
<1>4. CASE s.verdict = "none" /\ ~(s.w > 0 /\ d = End) /\ (c = End \/ d = End)
  <2>1. t = Decide(Accept(filt, s.f, c, d))
    BY <1>4 DEF Iterate
  <2>2. QED
    BY <1>0, <1>1, <1>4, <2>1 DEF Decides, Verdicts, Accept
<1>5. CASE s.verdict = "none" /\ c # End /\ d # End
  <2>1. s.f <= Len(filt) /\ s.n <= Len(name) /\ c = filt[s.f] /\ d = name[s.n]
    BY <1>0, <1>1, <1>5
  <2>2. CASE c = Wildcard
    <3>1. t = [f |-> s.f + 1, n |-> s.n, w |-> s.f, verdict |-> "none"]
      BY <1>5, <2>2 DEF Iterate
    <3>2. /\ t.f = s.f + 1 /\ t.n = s.n /\ t.w = s.f /\ t.verdict = "none"
          /\ t \in [f : Int, n : Int, w : Int, verdict : Verdicts]
      BY <1>0, <1>5, <3>1 DEF Verdicts
    <3>3. EntersWildcard(filt, name, s, t)
      BY <1>0, <1>1, <1>5, <2>1, <2>2, <3>2 DEF EntersWildcard
    <3>4. QED
      BY <1>5, <3>2, <3>3
  <2>3. CASE c # Wildcard /\ c = d
    <3>1. t = [f |-> s.f + 1, n |-> s.n + 1, w |-> s.w, verdict |-> "none"]
      BY <1>5, <2>3 DEF Iterate
    <3>2. /\ t.f = s.f + 1 /\ t.n = s.n + 1 /\ t.w = s.w /\ t.verdict = "none"
          /\ t \in [f : Int, n : Int, w : Int, verdict : Verdicts]
      BY <1>0, <1>5, <3>1 DEF Verdicts
    <3>3. Agrees(filt, name, s, t)
      BY <1>0, <1>1, <1>5, <2>1, <2>3, <3>2 DEF Agrees
    <3>4. QED
      BY <1>5, <3>2, <3>3
  <2>4. CASE c # Wildcard /\ c # d /\ s.w > 0
    <3>1. t = [f |-> s.w + 1, n |-> s.n + 1, w |-> s.w, verdict |-> "none"]
      BY <1>5, <2>4 DEF Iterate
    <3>2. /\ t.f = s.w + 1 /\ t.n = s.n + 1 /\ t.w = s.w /\ t.verdict = "none"
          /\ t \in [f : Int, n : Int, w : Int, verdict : Verdicts]
      BY <1>0, <1>5, <3>1 DEF Verdicts
    <3>3. StartsOver(filt, name, s, t)
      BY <1>0, <1>1, <1>5, <2>1, <2>4, <3>2 DEF StartsOver
    <3>4. QED
      BY <1>5, <3>2, <3>3
  <2>5. CASE c # Wildcard /\ c # d /\ ~(s.w > 0)
    <3>1. t = Decide(FALSE)
      BY <1>5, <2>5 DEF Iterate
    <3>2. QED
      BY <1>0, <1>1, <1>5, <2>1, <2>5, <3>1 DEF Decides, Verdicts
  <2>6. QED
    BY <2>2, <2>3, <2>4, <2>5
<1>6. QED
  BY <1>2, <1>3, <1>4, <1>5

LEMMA IterateType ==
  ASSUME NEW filt \in Strings, NEW name \in Strings, NEW s \in Positions(filt, name)
  PROVE  Iterate(filt, name, s) \in Positions(filt, name)
<1> DEFINE t == Iterate(filt, name, s)
<1>0. /\ Len(filt) \in Nat /\ Len(name) \in Nat
      /\ s.f \in 1 .. Len(filt) + 1 /\ s.n \in 1 .. Len(name) + 1 /\ s.w \in 0 .. Len(filt)
      /\ s.w < s.f
  BY PositionFacts
<1>1. /\ t \in [f : Int, n : Int, w : Int, verdict : Verdicts]
      /\ \/ Rests(s, t)
         \/ Decides(filt, name, s, t) \/ EntersWildcard(filt, name, s, t)
         \/ Agrees(filt, name, s, t) \/ StartsOver(filt, name, s, t)
  BY IterateCases
<1> HIDE DEF t
<1>2. \/ t.f = s.f /\ t.n = s.n /\ t.w = s.w
      \/ s.f <= Len(filt) /\ t.f = s.f + 1 /\ t.n = s.n /\ t.w = s.f
      \/ s.f <= Len(filt) /\ s.n <= Len(name) /\ t.f = s.f + 1 /\ t.n = s.n + 1 /\ t.w = s.w
      \/ s.n <= Len(name) /\ t.f = s.w + 1 /\ t.n = s.n + 1 /\ t.w = s.w
  BY <1>1 DEF Rests, Decides, EntersWildcard, Agrees, StartsOver
<1>3. /\ t.f \in 1 .. Len(filt) + 1 /\ t.n \in 1 .. Len(name) + 1 /\ t.w \in 0 .. Len(filt)
      /\ t.w < t.f
  <2>1. CASE t.f = s.f /\ t.n = s.n /\ t.w = s.w
    BY <1>0, <2>1
  <2>2. CASE s.f <= Len(filt) /\ t.f = s.f + 1 /\ t.n = s.n /\ t.w = s.f
    BY <1>0, <2>2
  <2>3. CASE s.f <= Len(filt) /\ s.n <= Len(name) /\ t.f = s.f + 1 /\ t.n = s.n + 1 /\ t.w = s.w
    <3>1. t.f \in 1 .. Len(filt) + 1
      BY <1>0, <2>3
    <3>2. t.n \in 1 .. Len(name) + 1
      BY <1>0, <2>3
    <3>3. t.w \in 0 .. Len(filt) /\ t.w < t.f
      BY <1>0, <2>3
    <3>4. QED
      BY <3>1, <3>2, <3>3
  <2>4. CASE s.n <= Len(name) /\ t.f = s.w + 1 /\ t.n = s.n + 1 /\ t.w = s.w
    BY <1>0, <2>4
  <2>5. QED
    BY <1>2, <2>1, <2>2, <2>3, <2>4
<1>4. t \in Positions(filt, name)
  BY <1>1, <1>3 DEF Positions
<1>5. QED
  BY <1>4 DEF t
LEMMA IterationsType ==
  ASSUME NEW filt \in Strings, NEW name \in Strings
  PROVE  Iterations(filt, name) \in Nat /\ Len(filt) \in Nat /\ Len(name) \in Nat
<1>1. Len(filt) \in Nat /\ Len(name) \in Nat
  BY LenProperties DEF Strings
<1>2. \A x, y \in Nat : x * y \in Nat
  OBVIOUS
<1>3. Len(filt) + 1 \in Nat /\ Len(name) + 1 \in Nat
  BY <1>1
<1>4. (Len(filt) + 1) * (Len(name) + 1) \in Nat
  BY <1>2, <1>3
<1>5. QED
  BY <1>1, <1>4 DEF Iterations

(* The recursive definition of Scan has its one solution.                  *)
LEMMA ScanFacts ==
  ASSUME NEW filt \in Strings, NEW name \in Strings
  PROVE  /\ Scan(filt, name) \in [0 .. Iterations(filt, name) -> Positions(filt, name)]
         /\ Scan(filt, name)[0] = Start
         /\ \A i \in 1 .. Iterations(filt, name) :
              Scan(filt, name)[i] = Iterate(filt, name, Scan(filt, name)[i - 1])
<1> DEFINE N == Iterations(filt, name)
           P == Positions(filt, name)
           D == [i \in 1 .. N |-> [s \in P |-> Iterate(filt, name, s)]]
           Solves(f) == f = [i \in 0 .. N |->
                               IF i = 0 THEN Start ELSE Iterate(filt, name, f[i - 1])]
<1>1. N \in Nat
  BY IterationsType
<1>2. Start \in P
  BY IterationsType DEF Start, Positions, Verdicts
<1>3. \A s \in P : Iterate(filt, name, s) \in P
  BY IterateType
<1>4. Scan(filt, name) = CHOOSE f : Solves(f)
  BY DEF Scan
<1> HIDE DEF N, P
<1>5. D \in [1 .. N -> [P -> P]]
  BY <1>3
<1>6. \A i \in 1 .. N, s \in P : D[i][s] = Iterate(filt, name, s)
  BY <1>3
<1> HIDE DEF D
<1>7. HasIteration(N, P, Start, D)
  BY <1>1, <1>2, <1>5, Iterated
<1>8. PICK g \in [0 .. N -> P] : g[0] = Start /\ \A i \in 1 .. N : g[i] = D[i][g[i - 1]]
  BY <1>7 DEF HasIteration
<1>9. \A i \in 0 .. N : g[i] = IF i = 0 THEN Start ELSE Iterate(filt, name, g[i - 1])
  <2> SUFFICES ASSUME NEW i \in 1 .. N PROVE g[i] = Iterate(filt, name, g[i - 1])
    BY <1>1, <1>8
  <2>1. g[i - 1] \in P
    BY <1>1, <1>8
  <2>2. QED
    BY <1>6, <1>8, <2>1
<1>10. \E f : Solves(f)
  <2>1. g = [i \in 0 .. N |-> g[i]]
    BY <1>8
  <2>2. QED
    BY <1>9, <2>1
<1>11. Solves(Scan(filt, name))
  BY <1>4, <1>10
<1> DEFINE h == Scan(filt, name)
<1>12. \A i \in 0 .. N : h[i] = IF i = 0 THEN Start ELSE Iterate(filt, name, h[i - 1])
  BY <1>11
<1>13. h = [i \in 0 .. N |-> h[i]]
  BY <1>11
<1>14. \A i \in 0 .. N : h[i] \in P
  <2> DEFINE T == {i \in 0 .. N : h[i] \in P}
  <2>1. 0 \in T
    BY <1>1, <1>2, <1>12
  <2>2. \A i \in 1 .. N : i - 1 \in T => i \in T
    BY <1>1, <1>3, <1>12
  <2>3. 0 .. N \subseteq T
    <3> HIDE DEF T
    <3>1. QED
      BY <1>1, <2>1, <2>2, UpTo
  <2>4. QED
    BY <2>3
<1>15. h[0] = Start /\ \A i \in 1 .. N : h[i] = Iterate(filt, name, h[i - 1])
  BY <1>1, <1>12
<1> HIDE DEF h
<1>16. h \in [0 .. N -> P]
  BY <1>13, <1>14
<1>17. QED
  BY <1>15, <1>16 DEF h, N, P

(* The recursive definition of Ends has its one solution.                  *)
Follow(filt, name, i, before) ==
  IF filt[i] = Wildcard
  THEN {j \in 0 .. Len(name) : \E k \in before : k <= j}
  ELSE {j \in 1 .. Len(name) : j - 1 \in before /\ name[j] = filt[i]}

LEMMA EndsFacts ==
  ASSUME NEW filt \in Strings, NEW name \in Strings
  PROVE  /\ Ends(filt, name) \in [0 .. Len(filt) -> SUBSET (0 .. Len(name))]
         /\ Ends(filt, name)[0] = {0}
         /\ \A i \in 1 .. Len(filt) :
              Ends(filt, name)[i] = Follow(filt, name, i, Ends(filt, name)[i - 1])
<1> DEFINE N == Len(filt)
           P == SUBSET (0 .. Len(name))
           D == [i \in 1 .. N |-> [s \in P |-> Follow(filt, name, i, s)]]
           Solves(f) == f = [i \in 0 .. N |->
                               IF i = 0 THEN {0} ELSE Follow(filt, name, i, f[i - 1])]
<1>1. N \in Nat /\ Len(name) \in Nat
  BY IterationsType
<1>2. {0} \in P
  BY <1>1
<1>3. \A i, s : Follow(filt, name, i, s) \in P
  BY <1>1 DEF Follow
<1>4. Ends(filt, name) = CHOOSE f : Solves(f)
  BY DEF Ends, Follow
<1> HIDE DEF N, P
<1>5. D \in [1 .. N -> [P -> P]]
  BY <1>3
<1>6. \A i \in 1 .. N, s \in P : D[i][s] = Follow(filt, name, i, s)
  BY <1>3
<1> HIDE DEF D
<1>7. HasIteration(N, P, {0}, D)
  BY <1>1, <1>2, <1>5, Iterated
<1>8. PICK g \in [0 .. N -> P] : g[0] = {0} /\ \A i \in 1 .. N : g[i] = D[i][g[i - 1]]
  BY <1>7 DEF HasIteration
<1>9. \A i \in 0 .. N : g[i] = IF i = 0 THEN {0} ELSE Follow(filt, name, i, g[i - 1])
  <2> SUFFICES ASSUME NEW i \in 1 .. N PROVE g[i] = Follow(filt, name, i, g[i - 1])
    BY <1>1, <1>8
  <2>1. g[i - 1] \in P
    BY <1>1, <1>8
  <2>2. QED
    BY <1>6, <1>8, <2>1
<1>10. \E f : Solves(f)
  <2>1. g = [i \in 0 .. N |-> g[i]]
    BY <1>8
  <2>2. QED
    BY <1>9, <2>1
<1>11. Solves(Ends(filt, name))
  BY <1>4, <1>10
<1> DEFINE h == Ends(filt, name)
<1>12. \A i \in 0 .. N : h[i] = IF i = 0 THEN {0} ELSE Follow(filt, name, i, h[i - 1])
  BY <1>11
<1>13. h = [i \in 0 .. N |-> h[i]]
  BY <1>11
<1>14. h[0] = {0} /\ \A i \in 1 .. N : h[i] = Follow(filt, name, i, h[i - 1])
  BY <1>1, <1>12
<1> HIDE DEF h
<1>15. \A i \in 0 .. N : h[i] \in P
  BY <1>2, <1>3, <1>12
<1>16. h \in [0 .. N -> P]
  BY <1>13, <1>15
<1>17. QED
  BY <1>14, <1>16 DEF h, N, P

(* One iteration of the scan.                                              *)
Iterates(filt, name, s, t) ==
  \/ Rests(s, t)
  \/ /\ s.verdict = "none"
     /\ \/ Decides(filt, name, s, t)
        \/ EntersWildcard(filt, name, s, t)
        \/ Agrees(filt, name, s, t)
        \/ StartsOver(filt, name, s, t)

LEMMA ScanSteps ==
  ASSUME NEW filt \in Strings, NEW name \in Strings, NEW i \in 1 .. Iterations(filt, name)
  PROVE  /\ i - 1 \in 0 .. Iterations(filt, name)
         /\ Scan(filt, name)[i - 1] \in Positions(filt, name)
         /\ Scan(filt, name)[i] \in Positions(filt, name)
         /\ Iterates(filt, name, Scan(filt, name)[i - 1], Scan(filt, name)[i])
<1> DEFINE s == Scan(filt, name)[i - 1]
           t == Scan(filt, name)[i]
<1>1. i - 1 \in 0 .. Iterations(filt, name) /\ i \in 0 .. Iterations(filt, name)
  BY IterationsType
<1>2. s \in Positions(filt, name) /\ t \in Positions(filt, name)
  BY <1>1, ScanFacts
<1>3. t = Iterate(filt, name, s)
  BY ScanFacts
<1> HIDE DEF s, t
<1>4. Iterates(filt, name, s, t)
  BY <1>2, <1>3, IterateCases DEF Iterates
<1>5. QED
  BY <1>1, <1>2, <1>4 DEF s, t

LEMMA Products ==
  ASSUME NEW a \in Nat, NEW b \in Nat, NEW c \in Nat
  PROVE  /\ a * c \in Nat
         /\ (a + 1) * c = a * c + c
         /\ a <= b => a * c <= b * c
<1>1. a * c \in Nat
  OBVIOUS
<1>2. (a + 1) * c = a * c + c
  OBVIOUS
<1>3. ASSUME a <= b PROVE a * c <= b * c
  <2>1. b - a \in Nat /\ b = a + (b - a)
    BY <1>3
  <2>2. PICK e \in Nat : b = a + e
    BY <2>1
  <2>3. (a + e) * c = a * c + e * c /\ e * c \in Nat
    OBVIOUS
  <2>4. QED
    BY <1>1, <2>2, <2>3
<1>4. QED
  BY <1>1, <1>2, <1>3

(* How far the scan has come: each iteration but the last goes on.         *)
Progress(filt, s) == (s.n - 1) * (Len(filt) + 1) + (s.f - 1)

LEMMA ProgressGrows ==
  ASSUME NEW filt \in Strings, NEW name \in Strings,
         NEW s \in Positions(filt, name), NEW t \in Positions(filt, name),
         Iterates(filt, name, s, t), t.verdict = "none"
  PROVE  /\ s.verdict = "none" /\ Progress(filt, s) \in Nat
         /\ Progress(filt, t) >= Progress(filt, s) + 1
<1> DEFINE L == Len(filt) + 1
           m == s.n - 1
           before == m * L
<1>1. /\ L \in Nat /\ m \in Nat /\ s.f \in 1 .. L /\ t.f \in 1 .. L /\ t.w \in 0 .. Len(filt)
      /\ s.n \in Nat /\ t.n \in Nat
  BY PositionFacts
<1>2. /\ s.verdict = "none"
      /\ EntersWildcard(filt, name, s, t) \/ Agrees(filt, name, s, t) \/ StartsOver(filt, name, s, t)
  BY DEF Iterates, Rests, Decides
<1>3. \/ t.f = s.f + 1 /\ t.n = s.n
      \/ t.f = s.f + 1 /\ t.n = s.n + 1
      \/ t.f = s.w + 1 /\ s.w > 0 /\ t.n = s.n + 1
  BY <1>2 DEF EntersWildcard, Agrees, StartsOver
<1>4. before \in Nat /\ (m + 1) * L = before + L
  BY <1>1, Products
<1>5. Progress(filt, s) = before + (s.f - 1)
  BY DEF Progress
<1>6. CASE t.f = s.f + 1 /\ t.n = s.n
  <2>1. Progress(filt, t) = before + (t.f - 1)
    BY <1>6 DEF Progress
  <2>2. s.f \in Nat /\ t.f \in Nat /\ t.f = s.f + 1 /\ before \in Nat
    BY <1>1, <1>4, <1>6
  <2> HIDE DEF before, L, m
  <2>3. Progress(filt, t) = Progress(filt, s) + 1 /\ Progress(filt, s) \in Nat
    <3>1. s.f - 1 \in Nat
      BY <1>1
    <3>2. QED
      BY <1>5, <2>1, <2>2, <3>1
  <2>4. QED
    BY <1>2, <2>3
<1>7. CASE t.n = s.n + 1
  <2>1. t.n - 1 = m + 1
    BY <1>1, <1>7
  <2>2. Progress(filt, t) = (m + 1) * L + (t.f - 1)
    BY <2>1 DEF Progress
  <2>3. Progress(filt, t) = (before + L) + (t.f - 1)
    BY <1>4, <2>2
  <2>4. s.f \in 1 .. L /\ t.f \in 1 .. L /\ L \in Nat /\ before \in Nat
    BY <1>1, <1>4
  <2> HIDE DEF before, L, m
  <2>5. QED
    BY <1>2, <1>5, <2>3, <2>4
<1>8. QED
  BY <1>3, <1>6, <1>7

(* The loops come to an end, after no more iterations than there are       *)
(* positions in the filter and in the name, however often the scan starts  *)
(* over behind a wildcard (utest.h:1202-1252).                             *)
THEOREM ScanEnds ==
  ASSUME NEW filt \in Strings, NEW name \in Strings
  PROVE  Scan(filt, name)[Iterations(filt, name)].verdict \in {"selected", "filtered"}
<1> DEFINE N == Iterations(filt, name)
           scan == Scan(filt, name)
           T == {i \in 0 .. N : scan[i].verdict = "none" => Progress(filt, scan[i]) >= i}
<1>1. N \in Nat
  BY IterationsType
<1>2. 0 \in T
  <2>1. scan[0] = Start
    BY ScanFacts
  <2>2. 0 * (Len(filt) + 1) = 0
    BY IterationsType
  <2>3. Progress(filt, Start) = 0
    BY <2>2 DEF Progress, Start
  <2>4. QED
    BY <1>1, <2>1, <2>3
<1>3. ASSUME NEW i \in 1 .. N, i - 1 \in T PROVE i \in T
  <2> SUFFICES ASSUME scan[i].verdict = "none" PROVE Progress(filt, scan[i]) >= i
    BY <1>1
  <2>1. /\ scan[i - 1] \in Positions(filt, name) /\ scan[i] \in Positions(filt, name)
        /\ Iterates(filt, name, scan[i - 1], scan[i])
    BY ScanSteps
  <2>2. /\ scan[i - 1].verdict = "none" /\ Progress(filt, scan[i - 1]) \in Nat
        /\ Progress(filt, scan[i]) >= Progress(filt, scan[i - 1]) + 1
    BY <2>1, ProgressGrows
  <2>3. Progress(filt, scan[i - 1]) >= i - 1
    BY <1>3, <2>2
  <2>4. Progress(filt, scan[i]) \in Int
    <3>1. scan[i].n \in Nat /\ scan[i].f \in Nat /\ Len(filt) \in Nat
      BY <2>1, PositionFacts
    <3>2. \A a, b, c \in Nat : (a - 1) * (c + 1) + (b - 1) \in Int
      OBVIOUS
    <3>3. QED
      BY <3>1, <3>2 DEF Progress
  <2> HIDE DEF scan, N
  <2>5. QED
    BY <2>2, <2>3, <2>4
<1>4. 0 .. N \subseteq T
  <2> HIDE DEF N, T
  <2>1. QED
    BY <1>1, <1>2, <1>3, UpTo
<1>5. scan[N] \in Positions(filt, name)
  BY <1>1, ScanFacts
<1>6. scan[N].verdict # "none"
  <2> SUFFICES ASSUME scan[N].verdict = "none" PROVE FALSE
    OBVIOUS
  <2>1. Progress(filt, scan[N]) >= N
    BY <1>1, <1>4
  <2> DEFINE L == Len(filt) + 1
             m == scan[N].n - 1
  <2>2. L \in Nat /\ m \in 0 .. Len(name) /\ scan[N].f \in 1 .. L /\ Len(name) \in Nat
    BY <1>5, PositionFacts
  <2>3. N = L * (Len(name) + 1)
    BY DEF Iterations
  <2>4. Progress(filt, scan[N]) = m * L + (scan[N].f - 1)
    BY DEF Progress
  <2> HIDE DEF L, m, N, scan
  <2>5. L * (Len(name) + 1) = (Len(name) + 1) * L
    BY <2>2
  <2>6. (Len(name) + 1) * L = Len(name) * L + L /\ Len(name) * L \in Nat
    BY <2>2, Products
  <2>7. m * L <= Len(name) * L /\ m * L \in Nat
    <3>1. m \in Nat /\ m <= Len(name)
      BY <2>2
    <3>2. QED
      BY <2>2, <3>1, Products
  <2>8. QED
    BY <2>1, <2>2, <2>3, <2>4, <2>5, <2>6, <2>7
<1>7. scan[N].verdict \in Verdicts
  BY <1>5, PositionFacts
<1>8. QED
  BY <1>6, <1>7 DEF Verdicts

(***************************************************************************)
(* What the reference says: the filter matches if its characters can be    *)
(* laid end to end over the name, each wildcard over any number of         *)
(* characters, every other one over one character that is the same.        *)
(***************************************************************************)
Lays(filt, name, i, cut) ==
  IF filt[i] = Wildcard
  THEN cut[i - 1] <= cut[i]
  ELSE cut[i] = cut[i - 1] + 1 /\ name[cut[i]] = filt[i]

LaidOver(filt, name, n, cut) ==
  /\ cut \in [0 .. n -> 0 .. Len(name)]
  /\ cut[0] = 0
  /\ \A i \in 1 .. n : Lays(filt, name, i, cut)

LEMMA EndsWithin ==
  ASSUME NEW filt \in Strings, NEW name \in Strings
  PROVE  /\ \A i \in 0 .. Len(filt) : Ends(filt, name)[i] \subseteq 0 .. Len(name)
         /\ \A i \in 1 .. Len(filt) : Ends(filt, name)[i - 1] \subseteq 0 .. Len(name)
<1> DEFINE ends == Ends(filt, name)
<1>1. ends \in [0 .. Len(filt) -> SUBSET (0 .. Len(name))]
  BY EndsFacts
<1> HIDE DEF ends
<1>2. \A i \in 0 .. Len(filt) : ends[i] \subseteq 0 .. Len(name)
  BY <1>1
<1>3. \A i \in 1 .. Len(filt) : i - 1 \in 0 .. Len(filt)
  BY IterationsType
<1>4. QED
  BY <1>2, <1>3 DEF ends

LEMMA EndsAreLaid ==
  ASSUME NEW filt \in Strings, NEW name \in Strings
  PROVE  \A i \in 0 .. Len(filt) : \A j \in Ends(filt, name)[i] :
           \E cut : LaidOver(filt, name, i, cut) /\ cut[i] = j
<1> DEFINE ends == Ends(filt, name)
           Laid(i) == \A j \in ends[i] : \E cut : LaidOver(filt, name, i, cut) /\ cut[i] = j
           T == {i \in 0 .. Len(filt) : Laid(i)}
<1>0. Len(filt) \in Nat /\ Len(name) \in Nat
  BY IterationsType
<1>1. Laid(0)
  <2> DEFINE g == [k \in 0 .. 0 |-> 0]
  <2>1. LaidOver(filt, name, 0, g) /\ g[0] = 0
    BY <1>0 DEF LaidOver
  <2>2. ends[0] = {0}
    BY EndsFacts
  <2> HIDE DEF g
  <2>3. QED
    BY <2>1, <2>2
<1>2. ASSUME NEW i \in 1 .. Len(filt), Laid(i - 1) PROVE Laid(i)
  <2> SUFFICES ASSUME NEW j \in ends[i]
               PROVE  \E cut : LaidOver(filt, name, i, cut) /\ cut[i] = j
    OBVIOUS
  <2>1. ends[i] = Follow(filt, name, i, ends[i - 1])
    BY EndsFacts
  <2>2. ends[i - 1] \subseteq 0 .. Len(name)
    BY EndsWithin
  <2>3. PICK k \in ends[i - 1] : IF filt[i] = Wildcard THEN k <= j
                                                       ELSE j = k + 1 /\ name[j] = filt[i]
    <3>1. CASE filt[i] = Wildcard
      BY <2>1, <3>1 DEF Follow
    <3>2. CASE filt[i] # Wildcard
      <4>1. j - 1 \in ends[i - 1] /\ name[j] = filt[i] /\ j \in 1 .. Len(name)
        BY <2>1, <3>2 DEF Follow
      <4>2. j = (j - 1) + 1
        BY <1>0, <4>1
      <4> HIDE DEF ends
      <4>3. QED
        BY <3>2, <4>1, <4>2
    <3>3. QED
      BY <3>1, <3>2
  <2>4. j \in 0 .. Len(name)
    BY <1>0, <2>1 DEF Follow
  <2>5. PICK h : LaidOver(filt, name, i - 1, h) /\ h[i - 1] = k
    BY <1>2
  <2> DEFINE g == [m \in 0 .. i |-> IF m = i THEN j ELSE h[m]]
  <2> HIDE DEF ends, Laid
  <2>6. \A m \in 0 .. i - 1 : g[m] = h[m] /\ h[m] \in 0 .. Len(name)
    BY <2>5 DEF LaidOver
  <2>7. g[i] = j
    OBVIOUS
  <2>8. g \in [0 .. i -> 0 .. Len(name)]
    <3>1. \A m \in 0 .. i : m # i => m \in 0 .. i - 1
      OBVIOUS
    <3>2. QED
      BY <2>4, <2>6, <3>1
  <2>9. g[0] = 0
    BY <2>5, <2>6 DEF LaidOver
  <2> HIDE DEF g
  <2>10. ASSUME NEW m \in 1 .. i PROVE Lays(filt, name, m, g)
    <3>1. CASE m = i
      <4>1. g[m - 1] = k
        BY <2>5, <2>6, <3>1
      <4>2. QED
        BY <2>3, <2>7, <3>1, <4>1 DEF Lays
    <3>2. CASE m # i
      <4>1. m \in 1 .. i - 1 /\ m \in 0 .. i - 1 /\ m - 1 \in 0 .. i - 1
        BY <3>2
      <4>2. Lays(filt, name, m, h) /\ g[m] = h[m] /\ g[m - 1] = h[m - 1]
        BY <2>5, <2>6, <4>1 DEF LaidOver
      <4>3. QED
        BY <4>2 DEF Lays
    <3>3. QED
      BY <3>1, <3>2
  <2>11. LaidOver(filt, name, i, g)
    BY <2>8, <2>9, <2>10 DEF LaidOver
  <2>12. QED
    BY <2>7, <2>11
<1> HIDE DEF Laid
<1>3. 0 \in T /\ \A i \in 1 .. Len(filt) : i - 1 \in T => i \in T
  BY <1>0, <1>1, <1>2
<1>4. 0 .. Len(filt) \subseteq T
  <2> HIDE DEF T
  <2>1. QED
    BY <1>0, <1>3, UpTo
<1>5. QED
  BY <1>4 DEF Laid

(* The reference that the runs use means what it is said to mean: a filter *)
(* matches a name if and only if it can be laid over it.                   *)
THEOREM MatchesAreLaid ==
  ASSUME NEW filt \in Strings, NEW name \in Strings
  PROVE  Matches(filt, name) <=>
           \E cut : LaidOver(filt, name, Len(filt), cut) /\ cut[Len(filt)] = Len(name)
<1> DEFINE ends == Ends(filt, name)
<1>0. Len(filt) \in Nat /\ Len(name) \in Nat
  BY IterationsType
<1>1. ASSUME Matches(filt, name)
      PROVE  \E cut : LaidOver(filt, name, Len(filt), cut) /\ cut[Len(filt)] = Len(name)
  BY <1>0, <1>1, EndsAreLaid DEF Matches
<1>2. ASSUME NEW cut, LaidOver(filt, name, Len(filt), cut), cut[Len(filt)] = Len(name)
      PROVE  Matches(filt, name)
  <2> DEFINE T == {i \in 0 .. Len(filt) : cut[i] \in ends[i]}
  <2>1. 0 \in T
    BY <1>0, <1>2, EndsFacts DEF LaidOver
  <2>2. ASSUME NEW i \in 1 .. Len(filt), i - 1 \in T PROVE i \in T
    <3>1. /\ i \in 0 .. Len(filt) /\ i - 1 \in 0 .. Len(filt)
          /\ cut[i] \in 0 .. Len(name) /\ cut[i - 1] \in 0 .. Len(name)
          /\ cut[i - 1] \in ends[i - 1] /\ Lays(filt, name, i, cut)
      BY <1>0, <1>2, <2>2 DEF LaidOver
    <3>2. ends[i] = Follow(filt, name, i, ends[i - 1])
      BY EndsFacts
    <3> HIDE DEF ends
    <3>3. cut[i] \in Follow(filt, name, i, ends[i - 1])
      BY <1>0, <3>1 DEF Lays, Follow
    <3>4. QED
      BY <3>1, <3>2, <3>3
  <2>3. 0 .. Len(filt) \subseteq T
    <3> HIDE DEF T
    <3>1. QED
      BY <1>0, <2>1, <2>2, UpTo
  <2>4. QED
    BY <1>0, <1>2, <2>3 DEF Matches
<1>3. QED
  BY <1>1, <1>2

(* A wildcard goes as far as one likes.                                    *)
LEMMA WildcardGoesOn ==
  ASSUME NEW filt \in Strings, NEW name \in Strings, NEW i \in 1 .. Len(filt),
         filt[i] = Wildcard, NEW j \in Ends(filt, name)[i], NEW k \in j .. Len(name)
  PROVE  k \in Ends(filt, name)[i]
<1> DEFINE before == Ends(filt, name)[i - 1]
<1>0. Len(filt) \in Nat /\ Len(name) \in Nat
  BY IterationsType
<1>1. Ends(filt, name)[i] = {m \in 0 .. Len(name) : \E l \in before : l <= m}
  BY EndsFacts DEF Follow
<1>2. before \subseteq 0 .. Len(name)
  BY EndsWithin
<1> HIDE DEF before
<1>3. QED
  BY <1>0, <1>1, <1>2

(***************************************************************************)
(* What the scan has found so far.  The characters of the filter before f  *)
(* stand for those of the name before n, and so do those up to w.          *)
(***************************************************************************)
Found(filt, name, s) ==
  /\ s.n - 1 \in Ends(filt, name)[s.f - 1]
  /\ s.w > 0 => filt[s.w] = Wildcard /\ s.n - 1 \in Ends(filt, name)[s.w]
  /\ s.verdict = "selected" => Matches(filt, name)

LEMMA FoundIsKept ==
  ASSUME NEW filt \in Strings, NEW name \in Strings,
         NEW s \in Positions(filt, name), NEW t \in Positions(filt, name),
         Iterates(filt, name, s, t), Found(filt, name, s)
  PROVE  Found(filt, name, t)
<1> DEFINE ends == Ends(filt, name)
<1>0. /\ Len(filt) \in Nat /\ Len(name) \in Nat
      /\ s.f \in 1 .. Len(filt) + 1 /\ s.n \in 1 .. Len(name) + 1 /\ s.w \in 0 .. Len(filt)
      /\ s.f - 1 \in 0 .. Len(filt) /\ s.n - 1 \in 0 .. Len(name)
  BY PositionFacts
<1>1. CASE Rests(s, t)
  BY <1>1 DEF Rests
<1>2. CASE Decides(filt, name, s, t)
  <2> SUFFICES ASSUME t.verdict = "selected" PROVE Matches(filt, name)
    BY <1>2 DEF Decides, Found
  <2>1. /\ s.f = Len(filt) + 1
        /\ s.n = Len(name) + 1 \/ (s.f > 1 /\ filt[s.f - 1] = Wildcard)
    BY <1>2 DEF Decides
  <2>2. s.n - 1 \in ends[Len(filt)]
    <3>1. s.f - 1 = Len(filt)
      BY <1>0, <2>1
    <3>2. QED
      BY <3>1 DEF Found
  <2>3. CASE s.n = Len(name) + 1
    <3>1. s.n - 1 = Len(name)
      BY <1>0, <2>3
    <3>2. QED
      BY <2>2, <3>1 DEF Matches
  <2>4. CASE s.f > 1 /\ filt[s.f - 1] = Wildcard
    <3>1. Len(filt) \in 1 .. Len(filt) /\ filt[Len(filt)] = Wildcard
      <4>1. s.f - 1 = Len(filt) /\ Len(filt) >= 1
        BY <1>0, <2>1, <2>4
      <4>2. QED
        BY <1>0, <2>4, <4>1
    <3>2. Len(name) \in s.n - 1 .. Len(name)
      BY <1>0
    <3>3. QED
      BY <2>2, <3>1, <3>2, WildcardGoesOn DEF Matches
  <2>5. QED
    BY <2>1, <2>3, <2>4
<1>3. CASE EntersWildcard(filt, name, s, t)
  <2>1. /\ s.f \in 1 .. Len(filt) /\ filt[s.f] = Wildcard /\ t.verdict = "none"
        /\ t.f - 1 = s.f /\ t.n = s.n /\ t.w = s.f
    BY <1>0, <1>3 DEF EntersWildcard
  <2>2. ends[s.f] = {j \in 0 .. Len(name) : \E k \in ends[s.f - 1] : k <= j}
    <3>1. ends[s.f] = Follow(filt, name, s.f, ends[s.f - 1])
      BY <2>1, EndsFacts
    <3>2. QED
      BY <2>1, <3>1 DEF Follow
  <2>3. s.n - 1 \in ends[s.f]
    BY <1>0, <2>2 DEF Found
  <2>4. QED
    BY <2>1, <2>3 DEF Found
<1>4. ASSUME s.n <= Len(name), s.w > 0
      PROVE  filt[s.w] = Wildcard /\ s.n \in ends[s.w]
  <2>1. filt[s.w] = Wildcard /\ s.n - 1 \in ends[s.w] /\ s.w \in 1 .. Len(filt)
    BY <1>0, <1>4 DEF Found
  <2>2. s.n \in s.n - 1 .. Len(name)
    BY <1>0, <1>4
  <2>3. QED
    BY <2>1, <2>2, WildcardGoesOn
<1>5. CASE Agrees(filt, name, s, t)
  <2>1. /\ s.f <= Len(filt) /\ s.n <= Len(name)
        /\ filt[s.f] # Wildcard /\ filt[s.f] = name[s.n] /\ t.verdict = "none"
        /\ t.f = s.f + 1 /\ t.n = s.n + 1 /\ t.w = s.w
    BY <1>5 DEF Agrees
  <2>2. /\ s.f \in 1 .. Len(filt) /\ s.n \in 1 .. Len(name)
        /\ t.f - 1 = s.f /\ t.n - 1 = s.n
    <3>1. s.f \in 1 .. Len(filt) /\ s.n \in 1 .. Len(name)
      BY <1>0, <2>1
    <3>2. \A a \in Nat : (a + 1) - 1 = a
      OBVIOUS
    <3>3. s.f \in Nat /\ s.n \in Nat
      BY PositionFacts
    <3>4. QED
      BY <2>1, <3>1, <3>2, <3>3
  <2>3. ends[s.f] = Follow(filt, name, s.f, ends[s.f - 1])
    BY <2>2, EndsFacts
  <2>4. ends[s.f] = {j \in 1 .. Len(name) : j - 1 \in ends[s.f - 1] /\ name[j] = filt[s.f]}
    BY <2>1, <2>3 DEF Follow
  <2>5. s.n \in ends[s.f]
    BY <2>1, <2>4, <2>2 DEF Found
  <2>6. QED
    BY <1>0, <1>4, <2>1, <2>5, <2>2 DEF Found
<1>6. CASE StartsOver(filt, name, s, t)
  <2>1. /\ s.n <= Len(name) /\ s.w > 0 /\ t.verdict = "none"
        /\ t.f = s.w + 1 /\ t.n = s.n + 1 /\ t.w = s.w
    BY <1>6 DEF StartsOver
  <2>2. t.f - 1 = s.w /\ t.n - 1 = s.n
    <3>1. \A a \in Nat : (a + 1) - 1 = a
      OBVIOUS
    <3>2. s.w \in Nat /\ s.n \in Nat
      BY PositionFacts
    <3>3. QED
      BY <2>1, <3>1, <3>2
  <2>3. QED
    BY <1>4, <2>1, <2>2 DEF Found
<1>7. QED
  BY <1>1, <1>2, <1>3, <1>5, <1>6 DEF Iterates

(* A test that the scan selects is one that the filter matches: it goes on *)
(* to the right after a mismatch and never back, but what it has covered   *)
(* stays covered (utest.h:1212-1236).  The converse does not hold.         *)
THEOREM SelectedMatches ==
  ASSUME NEW filt \in Strings, NEW name \in Strings, Selects(filt, name)
  PROVE  Matches(filt, name)
<1> DEFINE N == Iterations(filt, name)
           scan == Scan(filt, name)
           T == {i \in 0 .. N : Found(filt, name, scan[i])}
<1>1. N \in Nat
  BY IterationsType
<1>2. 0 \in T
  <2>1. scan[0] = Start /\ Ends(filt, name)[0] = {0}
    BY ScanFacts, EndsFacts
  <2>2. QED
    BY <1>1, <2>1 DEF Found, Start
<1>3. ASSUME NEW i \in 1 .. N, i - 1 \in T PROVE i \in T
  <2>1. /\ scan[i - 1] \in Positions(filt, name) /\ scan[i] \in Positions(filt, name)
        /\ Iterates(filt, name, scan[i - 1], scan[i])
    BY ScanSteps
  <2>2. Found(filt, name, scan[i])
    BY <1>3, <2>1, FoundIsKept
  <2>3. QED
    BY <1>1, <2>2
<1>4. 0 .. N \subseteq T
  <2> HIDE DEF N, T
  <2>1. QED
    BY <1>1, <1>2, <1>3, UpTo
<1>5. Found(filt, name, scan[N])
  BY <1>1, <1>4
<1>6. QED
  BY <1>5 DEF Found, Selects

(***************************************************************************)
(* A filter without a wildcard is a name.                                  *)
(***************************************************************************)
Equal(filt, name, s) ==
  /\ s.w = 0 /\ s.f = s.n
  /\ \A i \in 1 .. s.f - 1 : i <= Len(name) /\ filt[i] = name[i]
  /\ s.verdict = "selected" => filt = name
  /\ s.verdict = "filtered" => filt # name

LEMMA EqualIsKept ==
  ASSUME NEW filt \in Strings, NEW name \in Strings, Wildcard \notin ToSet(filt),
         NEW s \in Positions(filt, name), NEW t \in Positions(filt, name),
         Iterates(filt, name, s, t), Equal(filt, name, s)
  PROVE  Equal(filt, name, t)
<1>0. /\ Len(filt) \in Nat /\ Len(name) \in Nat
      /\ s.f \in 1 .. Len(filt) + 1 /\ s.n \in 1 .. Len(name) + 1 /\ s.w = 0 /\ s.f = s.n
  BY PositionFacts DEF Equal
<1>1. \A i \in 1 .. Len(filt) : filt[i] # Wildcard
  BY LenProperties DEF ToSet, Strings
<1>2. CASE Rests(s, t)
  BY <1>2 DEF Rests
<1>3. CASE Decides(filt, name, s, t)
  <2>1. t.f = s.f /\ t.n = s.n /\ t.w = s.w /\ t.verdict \in {"selected", "filtered"}
    BY <1>3 DEF Decides
  <2>2. ASSUME t.verdict = "selected" PROVE filt = name
    <3>1. s.f = Len(filt) + 1 /\ s.n = Len(name) + 1
      <4>1. ~ (s.f = Len(filt) + 1 /\ s.f > 1 /\ filt[s.f - 1] = Wildcard)
        BY <1>0, <1>1
      <4>2. QED
        BY <1>3, <2>2, <4>1 DEF Decides
    <3>2. Len(filt) = Len(name)
      <4>1. Len(filt) + 1 = Len(name) + 1
        BY <1>0, <3>1
      <4>2. \A a, b \in Nat : a + 1 = b + 1 => a = b
        OBVIOUS
      <4>3. QED
        BY <1>0, <4>1, <4>2
    <3>3. \A i \in 1 .. Len(filt) : filt[i] = name[i]
      BY <1>0, <3>1 DEF Equal
    <3>4. filt \in Seq(STRING \ {End}) /\ name \in Seq(STRING \ {End})
      BY DEF Strings
    <3>5. QED
      BY <3>2, <3>3, <3>4, SeqEqual
  <2>3. ASSUME t.verdict = "filtered", filt = name PROVE FALSE
    <3>1. CASE s.f = Len(filt) + 1
      <4>1. s.n = Len(name) + 1
        BY <1>0, <2>3, <3>1
      <4>2. t.verdict = "selected"
        BY <1>3, <3>1, <4>1 DEF Decides
      <4>3. QED
        BY <2>3, <4>2
    <3>2. CASE s.f <= Len(filt)
      <4>1. s.n <= Len(name)
        BY <1>0, <2>3, <3>2
      <4>2. filt[s.f] # name[s.n]
        BY <1>3, <3>2, <4>1 DEF Decides
      <4>3. QED
        BY <1>0, <2>3, <4>2
    <3>3. QED
      BY <1>0, <3>1, <3>2
  <2>4. QED
    BY <2>1, <2>2, <2>3 DEF Equal
<1>4. CASE EntersWildcard(filt, name, s, t)
  BY <1>0, <1>1, <1>4 DEF EntersWildcard
<1>5. CASE Agrees(filt, name, s, t)
  <2>1. /\ s.f <= Len(filt) /\ s.n <= Len(name) /\ filt[s.f] = name[s.n] /\ t.verdict = "none"
        /\ t.f = s.f + 1 /\ t.n = s.n + 1 /\ t.w = s.w
    BY <1>5 DEF Agrees
  <2>2. \A i \in 1 .. t.f - 1 : i <= Len(name) /\ filt[i] = name[i]
    <3> SUFFICES ASSUME NEW i \in 1 .. t.f - 1 PROVE i <= Len(name) /\ filt[i] = name[i]
      OBVIOUS
    <3>1. i \in 1 .. s.f - 1 \/ i = s.f
      BY <1>0, <2>1
    <3>2. QED
      BY <1>0, <2>1, <3>1 DEF Equal
  <2>3. QED
    BY <1>0, <2>1, <2>2 DEF Equal
<1>6. CASE StartsOver(filt, name, s, t)
  BY <1>0, <1>6 DEF StartsOver
<1>7. QED
  BY <1>2, <1>3, <1>4, <1>5, <1>6 DEF Iterates

(* A filter without a wildcard selects the test of that name and no other  *)
(* (utest.h:1196-1253, 1311-1312).                                         *)
THEOREM PlainFilter ==
  ASSUME NEW filt \in Strings, NEW name \in Strings, Wildcard \notin ToSet(filt)
  PROVE  Selects(filt, name) <=> filt = name
<1> DEFINE N == Iterations(filt, name)
           scan == Scan(filt, name)
           T == {i \in 0 .. N : Equal(filt, name, scan[i])}
<1>1. N \in Nat
  BY IterationsType
<1>2. 0 \in T
  <2>1. scan[0] = Start
    BY ScanFacts
  <2>2. QED
    BY <1>1, <2>1 DEF Equal, Start
<1>3. ASSUME NEW i \in 1 .. N, i - 1 \in T PROVE i \in T
  <2>1. /\ scan[i - 1] \in Positions(filt, name) /\ scan[i] \in Positions(filt, name)
        /\ Iterates(filt, name, scan[i - 1], scan[i])
    BY ScanSteps
  <2>2. Equal(filt, name, scan[i])
    BY <1>3, <2>1, EqualIsKept
  <2>3. QED
    BY <1>1, <2>2
<1>4. 0 .. N \subseteq T
  <2> HIDE DEF N, T
  <2>1. QED
    BY <1>1, <1>2, <1>3, UpTo
<1>5. Equal(filt, name, scan[N]) /\ scan[N].verdict \in {"selected", "filtered"}
  BY <1>1, <1>4, ScanEnds
<1>6. QED
  BY <1>5 DEF Equal, Selects

(***************************************************************************)
(* A filter with one wildcard, at its end, is the begin of a name.         *)
(***************************************************************************)
EndsInWildcard(filt) ==
  /\ filt # <<>> /\ filt[Len(filt)] = Wildcard
  /\ \A i \in 1 .. Len(filt) - 1 : filt[i] # Wildcard

Begins(filt, name) ==
  Len(name) >= Len(filt) /\ \A i \in 1 .. Len(filt) - 1 : filt[i] = name[i]

Begun(filt, name, s) ==
  /\ s.verdict = "selected" => Begins(filt, name)
  /\ s.verdict = "filtered" => ~Begins(filt, name)
  /\ \A i \in 1 .. Len(filt) - 1 : i < s.f => i <= Len(name) /\ filt[i] = name[i]
  /\ \/ s.w = 0 /\ s.f = s.n /\ s.f <= Len(filt)
     \/ s.w > 0 /\ s.f = Len(filt) + 1 /\ s.n = Len(filt) /\ s.n <= Len(name)

LEMMA BegunIsKept ==
  ASSUME NEW filt \in Strings, NEW name \in Strings, EndsInWildcard(filt),
         NEW s \in Positions(filt, name), NEW t \in Positions(filt, name),
         Iterates(filt, name, s, t), Begun(filt, name, s)
  PROVE  Begun(filt, name, t)
<1> DEFINE l == Len(filt) - 1
<1>1. /\ l \in Nat /\ Len(name) \in Nat /\ Len(filt) = l + 1
      /\ \A i \in 1 .. l : filt[i] # Wildcard
      /\ filt[l + 1] = Wildcard
  <2>1. Len(filt) \in Nat \ {0} /\ Len(name) \in Nat
    BY IterationsType, EmptySeq DEF EndsInWildcard, Strings
  <2>2. l \in Nat /\ l + 1 = Len(filt)
    BY <2>1, LastIndex
  <2>3. QED
    BY <2>1, <2>2 DEF EndsInWildcard
<1>2. /\ s.f \in 1 .. l + 2 /\ s.n \in 1 .. Len(name) + 1 /\ s.f \in Nat /\ s.n \in Nat
      /\ s.w \in Nat
  <2>1. /\ s.f \in 1 .. Len(filt) + 1 /\ s.n \in 1 .. Len(name) + 1 /\ s.f \in Nat /\ s.n \in Nat
        /\ s.w \in Nat
    BY PositionFacts
  <2>2. Len(filt) + 1 = l + 2
    BY <1>1
  <2>3. QED
    BY <2>1, <2>2
<1> HIDE DEF l
<1>3. CASE Rests(s, t)
  BY <1>3 DEF Rests
<1>4. CASE Decides(filt, name, s, t)
  <2>1. t.f = s.f /\ t.n = s.n /\ t.w = s.w /\ t.verdict \in {"selected", "filtered"}
    BY <1>4 DEF Decides
  <2>2. CASE s.w = 0 /\ s.f = s.n /\ s.f <= l + 1
    <3>1. t.verdict # "selected"
      <4>1. s.f # Len(filt) + 1
        BY <1>1, <1>2, <2>2
      <4>2. QED
        BY <1>4, <4>1 DEF Decides
    <3>2. ASSUME Begins(filt, name) PROVE FALSE
      <4>1. Len(name) >= l + 1 /\ \A i \in 1 .. l : filt[i] = name[i]
        BY <3>2 DEF Begins, l
      <4>2. s.f <= Len(filt) /\ s.n <= Len(name)
        BY <1>1, <1>2, <2>2, <4>1
      <4>3. filt[s.f] # name[s.n] /\ filt[s.f] # Wildcard
        BY <1>4, <4>2 DEF Decides
      <4>4. s.f \in 1 .. l
        <5>1. s.f # l + 1
          BY <1>1, <4>3
        <5>2. QED
          BY <1>1, <1>2, <2>2, <5>1
      <4>5. QED
        BY <1>1, <2>2, <4>1, <4>3, <4>4
    <3>3. QED
      BY <2>1, <3>1, <3>2 DEF Begun
  <2>3. CASE s.w > 0 /\ s.f = l + 2 /\ s.n = l + 1 /\ s.n <= Len(name)
    <3>1. s.f = Len(filt) + 1 /\ s.f > 1 /\ s.f - 1 = l + 1
      BY <1>1, <2>3
    <3>2. t.verdict = "selected"
      BY <1>1, <1>4, <2>3, <3>1 DEF Decides
    <3>3. Begins(filt, name)
      <4>1. Len(name) >= l + 1
        BY <1>1, <2>3
      <4>2. \A i \in 1 .. l : i < s.f
        BY <1>1, <2>3
      <4>3. QED
        BY <4>1, <4>2 DEF Begins, Begun, l
    <3>4. QED
      BY <2>1, <3>2, <3>3 DEF Begun
  <2>4. QED
    BY <2>2, <2>3 DEF Begun, l
<1>5. CASE EntersWildcard(filt, name, s, t)
  <2>1. /\ s.f <= l + 1 /\ s.n <= Len(name) /\ filt[s.f] = Wildcard
        /\ t.f = s.f + 1 /\ t.n = s.n /\ t.w = s.f /\ t.verdict = "none"
    BY <1>1, <1>5 DEF EntersWildcard
  <2>2. s.f = l + 1
    BY <1>1, <1>2, <2>1
  <2>3. s.n = l + 1
    BY <1>1, <2>2 DEF Begun, l
  <2>4. t.w > 0 /\ t.f = l + 2 /\ t.n = l + 1 /\ t.n <= Len(name)
    BY <1>1, <2>1, <2>2, <2>3
  <2>5. \A i \in 1 .. l : i <= Len(name) /\ filt[i] = name[i]
    <3>1. \A i \in 1 .. l : i < s.f
      BY <1>1, <2>2
    <3>2. QED
      BY <3>1 DEF Begun, l
  <2>6. QED
    BY <2>1, <2>4, <2>5 DEF Begun, l
<1>6. CASE Agrees(filt, name, s, t)
  <2>1. /\ s.f <= l + 1 /\ s.n <= Len(name) /\ filt[s.f] # Wildcard /\ filt[s.f] = name[s.n]
        /\ t.f = s.f + 1 /\ t.n = s.n + 1 /\ t.w = s.w /\ t.verdict = "none"
    BY <1>1, <1>6 DEF Agrees
  <2>2. s.f \in 1 .. l
    <3>1. s.f # l + 1
      BY <1>1, <2>1
    <3>2. QED
      BY <1>1, <1>2, <2>1, <3>1
  <2>3. s.w = 0 /\ s.f = s.n
    <3>1. s.f # l + 2
      BY <1>1, <2>2
    <3>2. QED
      BY <3>1 DEF Begun, l
  <2>4. t.w = 0 /\ t.f = t.n /\ t.f <= l + 1
    BY <1>1, <2>1, <2>2, <2>3
  <2>5. ASSUME NEW i \in 1 .. l, i < t.f PROVE i <= Len(name) /\ filt[i] = name[i]
    <3>1. CASE i < s.f
      BY <3>1 DEF Begun, l
    <3>2. CASE i = s.f
      BY <1>1, <2>1, <2>2, <2>3, <3>2
    <3>3. i < s.f \/ i = s.f
      BY <1>2, <2>1, <2>5
    <3>4. QED
      BY <3>1, <3>2, <3>3
  <2>6. QED
    BY <2>1, <2>4, <2>5 DEF Begun, l
<1>7. CASE StartsOver(filt, name, s, t)
  <2>1. s.f <= l + 1 /\ s.w > 0
    BY <1>1, <1>7 DEF StartsOver
  <2>2. s.f = l + 2
    BY <2>1 DEF Begun, l
  <2>3. QED
    BY <1>1, <2>1, <2>2
<1>8. QED
  BY <1>3, <1>4, <1>5, <1>6, <1>7 DEF Iterates

(* A filter that ends in its only wildcard selects the tests whose names   *)
(* begin with what is before it, and go on: the wildcard at the end needs  *)
(* a character to stand for (utest.h:1203-1209, 1246).                     *)
THEOREM PrefixFilter ==
  ASSUME NEW filt \in Strings, NEW name \in Strings, EndsInWildcard(filt)
  PROVE  Selects(filt, name) <=> Begins(filt, name)
<1> DEFINE N == Iterations(filt, name)
           scan == Scan(filt, name)
           T == {i \in 0 .. N : Begun(filt, name, scan[i])}
<1>1. N \in Nat /\ Len(filt) \in Nat \ {0}
  BY IterationsType, EmptySeq DEF EndsInWildcard, Strings
<1>2. 0 \in T
  <2>1. scan[0] = Start
    BY ScanFacts
  <2>2. \A i \in 1 .. Len(filt) - 1 : ~(i < 1)
    BY <1>1
  <2>3. Begun(filt, name, Start)
    BY <1>1, <2>2 DEF Begun, Start
  <2>4. QED
    BY <1>1, <2>1, <2>3
<1>3. ASSUME NEW i \in 1 .. N, i - 1 \in T PROVE i \in T
  <2>1. /\ scan[i - 1] \in Positions(filt, name) /\ scan[i] \in Positions(filt, name)
        /\ Iterates(filt, name, scan[i - 1], scan[i])
    BY ScanSteps
  <2>2. Begun(filt, name, scan[i])
    BY <1>3, <2>1, BegunIsKept
  <2>3. QED
    BY <1>1, <2>2
<1>4. 0 .. N \subseteq T
  <2> HIDE DEF N, T
  <2>1. QED
    BY <1>1, <1>2, <1>3, UpTo
<1>5. Begun(filt, name, scan[N]) /\ scan[N].verdict \in {"selected", "filtered"}
  BY <1>1, <1>4, ScanEnds
<1>6. QED
  BY <1>5 DEF Begun, Selects

-----------------------------------------------------------------------------
(***************************************************************************)
(* The inductive invariant of the runner.                                  *)
(***************************************************************************)
Names   == ToSet(Registered)
Entries == [test : Names, broken : BOOLEAN, skipped : BOOLEAN]
PCs     == {"initializers", "arguments", "shuffle", "run", "body", "record",
            "stopped", "returned", "crashed"}

Types ==
  /\ tests \in Seq(Names \union {Garbage})
  /\ argv \in Seq(Arguments) /\ filter \in Filters \union {NoFilter}
  /\ random_order \in BOOLEAN /\ pc \in PCs
  /\ index \in 0 .. Len(Registered) + 1
  /\ ran_tests \in Nat /\ failed \in Nat /\ skipped \in Nat
  /\ lost \in Nat /\ status \in Nat
  /\ failed_testcases \in Seq(Nat \union {Garbage})
  /\ skipped_testcases \in Seq(Nat \union {Garbage})
  /\ result \in {"PASSED", "FAILURE", "SKIPPED"}
  /\ log \in Seq(Entries)

(* Before main, the tests that were registered are there or lost.          *)
Registering ==
  pc = "initializers" =>
    /\ Len(tests) <= Len(Registered)
    /\ \A i \in 1 .. Len(tests) : tests[i] \in {Registered[i], Garbage}

(* From main on they are there, in some order.                             *)
Permuted(array) ==
  Len(array) = Len(Registered) /\ IsInjective(array) /\ ToSet(array) = Names

AllThere == pc \notin {"initializers", "crashed"} => Permuted(tests)

(* The loop has not begun.                                                 *)
NotBegun ==
  pc \in {"initializers", "arguments", "shuffle"} =>
    /\ log = <<>> /\ failed = 0 /\ skipped = 0
    /\ failed_testcases = <<>>
    /\ pc = "shuffle" => index <= Len(tests) \/ index = 1

OnlySelected == \A i \in DOMAIN log : ToRun(log[i].test)

RunsUnder(value, test) == IF value = NoFilter THEN TRUE ELSE Selects(value, test)

SelectedIn(array, value, n) == {i \in 1 .. n : RunsUnder(value, array[i])}

FailedIn(entries, n)  == {i \in 1 .. n : entries[i].broken /\ ~entries[i].skipped}
SkippedIn(entries, n) == {i \in 1 .. n : entries[i].skipped}

(* What ran are the selected tests among the first n.                      *)
RanUpTo(array, value, n, entries) ==
  /\ Len(entries) = Cardinality(SelectedIn(array, value, n))
  /\ {entries[i].test : i \in DOMAIN entries} = {array[i] : i \in SelectedIn(array, value, n)}

(* The first n of them are counted, and listed unless the list is lost.    *)
Counted(entries, n, f, s) ==
  /\ f = Cardinality(FailedIn(entries, n))
  /\ s = Cardinality(SkippedIn(entries, n))

Listed(array, entries, n, list) ==
  ~Lost(list) =>
     {array[list[i]] : i \in DOMAIN list} = {entries[i].test : i \in FailedIn(entries, n)}

(* A test is running, or has run and is not counted yet.                   *)
InTest == pc \in {"body", "record"}

Looping == pc \in {"run", "body", "record", "returned"}

Position == IF InTest THEN index ELSE index - 1
Recorded == IF InTest THEN Len(log) - 1 ELSE Len(log)

LoopStarted ==
  Looping => index >= 1 /\ ran_tests = Cardinality(SelectedIn(tests, filter, Len(tests)))

AllRan     == Looping => RanUpTo(tests, filter, Position, log)
AllCounted == Looping => Counted(log, Recorded, failed, skipped)
AllListed  == Looping => Listed(tests, log, Recorded, failed_testcases)

(* The result tells what happened in the test that is running.             *)
ThisTest ==
  InTest =>
    LET entry == log[Len(log)]
    IN  /\ index <= Len(tests) /\ ToRun(tests[index])
        /\ log # <<>> /\ entry.test = tests[index]
        /\ pc = "body" => ~entry.skipped
        /\ result = IF entry.skipped THEN "SKIPPED"
                    ELSE IF entry.broken THEN "FAILURE" ELSE "PASSED"

AtTheEnd ==
  pc = "returned" => index = Len(tests) + 1 /\ status = failed % STATUS_LIMIT

IInv ==
  /\ Types /\ Registering /\ AllThere /\ NotBegun /\ OnlySelected
  /\ LoopStarted /\ AllRan /\ AllCounted /\ AllListed /\ ThisTest /\ AtTheEnd
-----------------------------------------------------------------------------
(***************************************************************************)
(* The sequences and sets it is made of.                                   *)
(***************************************************************************)
IsGrown(S, array, e, ok, grown) ==
  /\ Len(array) \in Nat
  /\ grown \in Seq(S) /\ Len(grown) = Len(array) + 1
  /\ ok  => /\ \A i \in 1 .. Len(array) : grown[i] = array[i]
            /\ grown[Len(array) + 1] = e
  /\ ~ok => \A i \in 1 .. Len(array) + 1 : grown[i] = Garbage

LEMMA GrownFacts ==
  ASSUME NEW S, Garbage \in S, NEW array \in Seq(S), NEW e \in S, NEW ok \in BOOLEAN
  PROVE  IsGrown(S, array, e, ok, Grown(array, e, ok))
<1>1. Len(array) \in Nat
  BY LenProperties
<1>2. CASE ok
  <2>1. Grown(array, e, ok) = Append(array, e)
    BY <1>2 DEF Grown
  <2>2. /\ Append(array, e) \in Seq(S) /\ Len(Append(array, e)) = Len(array) + 1
        /\ \A i \in 1 .. Len(array) : Append(array, e)[i] = array[i]
        /\ Append(array, e)[Len(array) + 1] = e
    BY AppendProperties
  <2>3. QED
    BY <1>1, <1>2, <2>1, <2>2 DEF IsGrown
<1>3. CASE ~ok
  <2> DEFINE g == [i \in 1 .. Len(array) + 1 |-> Garbage]
  <2>1. Grown(array, e, ok) = g
    BY <1>3 DEF Grown
  <2>2. g \in Seq(S) /\ Len(g) = Len(array) + 1
    BY <1>1
  <2>3. QED
    BY <1>1, <1>3, <2>1, <2>2 DEF IsGrown
<1>4. QED
  BY <1>2, <1>3

LEMMA SelectedInFacts ==
  ASSUME NEW array, NEW value, NEW n \in Nat
  PROVE  /\ IsFiniteSet(SelectedIn(array, value, n))
         /\ Cardinality(SelectedIn(array, value, n)) \in 0 .. n
         /\ SelectedIn(array, value, 0) = {}
<1> DEFINE I == 1 .. n
<1>1. IsFiniteSet(I) /\ Cardinality(I) = n
  BY FS_Interval
<1>2. SelectedIn(array, value, n) \in SUBSET I
  BY DEF SelectedIn
<1>3. /\ IsFiniteSet(SelectedIn(array, value, n))
      /\ Cardinality(SelectedIn(array, value, n)) <= n
  <2> HIDE DEF I
  <2>1. QED
    BY <1>1, <1>2, FS_Subset
<1>4. SelectedIn(array, value, 0) = {}
  BY DEF SelectedIn
<1>5. QED
  BY <1>3, <1>4, FS_CardinalityType

LEMMA SelectedInGrows ==
  ASSUME NEW array, NEW value, NEW n \in Nat
  PROVE  /\ RunsUnder(value, array[n + 1]) =>
              /\ SelectedIn(array, value, n + 1) = SelectedIn(array, value, n) \union {n + 1}
              /\ Cardinality(SelectedIn(array, value, n + 1))
                   = Cardinality(SelectedIn(array, value, n)) + 1
         /\ ~ RunsUnder(value, array[n + 1]) =>
              SelectedIn(array, value, n + 1) = SelectedIn(array, value, n)
<1>1. \A i : i \in 1 .. n + 1 <=> i \in 1 .. n \/ i = n + 1
  OBVIOUS
<1>2. n + 1 \notin SelectedIn(array, value, n)
  BY DEF SelectedIn
<1>3. CASE RunsUnder(value, array[n + 1])
  <2>1. SelectedIn(array, value, n + 1) = SelectedIn(array, value, n) \union {n + 1}
    BY <1>1, <1>3 DEF SelectedIn
  <2>2. QED
    BY <1>2, <1>3, <2>1, SelectedInFacts, FS_AddElement
<1>4. CASE ~ RunsUnder(value, array[n + 1])
  BY <1>1, <1>4 DEF SelectedIn
<1>5. QED
  BY <1>3, <1>4

LEMMA SelectedInMonotone ==
  ASSUME NEW array, NEW value, NEW n \in Nat, NEW m \in 0 .. n
  PROVE  Cardinality(SelectedIn(array, value, m)) <= Cardinality(SelectedIn(array, value, n))
<1>1. SelectedIn(array, value, m) \in SUBSET SelectedIn(array, value, n)
  BY DEF SelectedIn
<1>2. QED
  BY <1>1, SelectedInFacts, FS_Subset

(* The failed and the skipped tests among the first n.                     *)
LEMMA OutcomeFacts ==
  ASSUME NEW entries, NEW n \in Nat
  PROVE  /\ IsFiniteSet(FailedIn(entries, n)) /\ IsFiniteSet(SkippedIn(entries, n))
         /\ Cardinality(FailedIn(entries, n)) \in Nat
         /\ Cardinality(SkippedIn(entries, n)) \in Nat
         /\ Cardinality({i \in 1 .. n : ~entries[i].broken /\ ~entries[i].skipped})
              = n - Cardinality(FailedIn(entries, n)) - Cardinality(SkippedIn(entries, n))
         /\ Cardinality(FailedIn(entries, n)) + Cardinality(SkippedIn(entries, n)) <= n
<1> DEFINE I == 1 .. n
           F == FailedIn(entries, n)
           S == SkippedIn(entries, n)
           P == {i \in 1 .. n : ~entries[i].broken /\ ~entries[i].skipped}
<1>1. IsFiniteSet(I) /\ Cardinality(I) = n
  BY FS_Interval
<1>2. /\ F \in SUBSET I /\ S \in SUBSET I /\ P \in SUBSET I
      /\ F \intersect S = {} /\ (F \union S) \intersect P = {} /\ (F \union S) \union P = I
  BY DEF FailedIn, SkippedIn
<1> HIDE DEF I, F, S, P
<1>3. IsFiniteSet(F) /\ IsFiniteSet(S) /\ IsFiniteSet(P)
  BY <1>1, <1>2, FS_Subset
<1>4. Cardinality(F) \in Nat /\ Cardinality(S) \in Nat /\ Cardinality(P) \in Nat
  BY <1>3, FS_CardinalityType
<1>5. IsFiniteSet(F \union S)
      /\ Cardinality(F \union S) = Cardinality(F) + Cardinality(S) - Cardinality({})
  BY <1>2, <1>3, FS_Union
<1>6. Cardinality(I) = Cardinality(F \union S) + Cardinality(P) - Cardinality({})
  BY <1>2, <1>3, <1>5, FS_Union
<1>7. Cardinality({}) = 0
  BY FS_EmptySet
<1>8. n = Cardinality(F) + Cardinality(S) + Cardinality(P)
  BY <1>1, <1>4, <1>5, <1>6, <1>7
<1>9. /\ Cardinality(P) = n - Cardinality(F) - Cardinality(S)
      /\ Cardinality(F) + Cardinality(S) <= n
  BY <1>4, <1>8
<1>10. QED
  BY <1>3, <1>4, <1>9 DEF F, S, P

LEMMA OutcomesGrow ==
  ASSUME NEW entries, NEW n \in Nat
  PROVE  LET entry == entries[n + 1]
         IN  /\ entry.broken /\ ~entry.skipped =>
                  /\ FailedIn(entries, n + 1) = FailedIn(entries, n) \union {n + 1}
                  /\ Cardinality(FailedIn(entries, n + 1)) = Cardinality(FailedIn(entries, n)) + 1
             /\ ~ (entry.broken /\ ~entry.skipped) => FailedIn(entries, n + 1) = FailedIn(entries, n)
             /\ entry.skipped =>
                  Cardinality(SkippedIn(entries, n + 1)) = Cardinality(SkippedIn(entries, n)) + 1
             /\ ~entry.skipped => SkippedIn(entries, n + 1) = SkippedIn(entries, n)
<1> DEFINE entry == entries[n + 1]
<1>1. \A i : i \in 1 .. n + 1 <=> i \in 1 .. n \/ i = n + 1
  OBVIOUS
<1>2. n + 1 \notin FailedIn(entries, n) /\ n + 1 \notin SkippedIn(entries, n)
  BY DEF FailedIn, SkippedIn
<1>3. ASSUME entry.broken /\ ~entry.skipped
      PROVE  /\ FailedIn(entries, n + 1) = FailedIn(entries, n) \union {n + 1}
             /\ Cardinality(FailedIn(entries, n + 1)) = Cardinality(FailedIn(entries, n)) + 1
  <2>1. FailedIn(entries, n + 1) = FailedIn(entries, n) \union {n + 1}
    BY <1>1, <1>3 DEF FailedIn
  <2>2. QED
    BY <1>2, <2>1, OutcomeFacts, FS_AddElement
<1>4. ASSUME ~ (entry.broken /\ ~entry.skipped)
      PROVE  FailedIn(entries, n + 1) = FailedIn(entries, n)
  BY <1>1, <1>4 DEF FailedIn
<1>5. ASSUME entry.skipped
      PROVE  Cardinality(SkippedIn(entries, n + 1)) = Cardinality(SkippedIn(entries, n)) + 1
  <2>1. SkippedIn(entries, n + 1) = SkippedIn(entries, n) \union {n + 1}
    BY <1>1, <1>5 DEF SkippedIn
  <2>2. QED
    BY <1>2, <2>1, OutcomeFacts, FS_AddElement
<1>6. ASSUME ~entry.skipped PROVE SkippedIn(entries, n + 1) = SkippedIn(entries, n)
  BY <1>1, <1>6 DEF SkippedIn
<1>7. QED
  BY <1>3, <1>4, <1>5, <1>6

(* A swap leaves the tests what they are.                                  *)
LEMMA SwapFacts ==
  ASSUME NEW S, NEW array \in Seq(S), NEW i \in 1 .. Len(array), NEW j \in 1 .. Len(array)
  PROVE  LET swapped == [array EXCEPT ![i] = array[j], ![j] = array[i]]
         IN  /\ swapped \in Seq(S) /\ Len(swapped) = Len(array)
             /\ \A k \in 1 .. Len(array) :
                  swapped[k] = array[IF k = j THEN i ELSE IF k = i THEN j ELSE k]
<1> DEFINE b == [array EXCEPT ![i] = array[j]]
           g == [array EXCEPT ![i] = array[j], ![j] = array[i]]
<1>1. array[i] \in S /\ array[j] \in S
  BY ElementOfSeq
<1>2. g = [b EXCEPT ![j] = array[i]]
  OBVIOUS
<1>3. /\ b \in Seq(S) /\ Len(b) = Len(array)
      /\ \A k \in 1 .. Len(array) : b[k] = IF k = i THEN array[j] ELSE array[k]
  BY <1>1, ExceptSeq
<1> HIDE DEF b, g
<1>4. /\ g \in Seq(S) /\ Len(g) = Len(b)
      /\ \A k \in 1 .. Len(b) : g[k] = IF k = j THEN array[i] ELSE b[k]
  <2>1. j \in 1 .. Len(b)
    BY <1>3
  <2>2. QED
    BY <1>1, <1>2, <1>3, <2>1, ExceptSeq
<1>5. \A k \in 1 .. Len(array) :
        g[k] = array[IF k = j THEN i ELSE IF k = i THEN j ELSE k]
  BY <1>3, <1>4
<1>6. g \in Seq(S) /\ Len(g) = Len(array)
  BY <1>3, <1>4
<1>7. QED
  BY <1>5, <1>6 DEF g

LEMMA SwapPermutes ==
  ASSUME NEW S, NEW array \in Seq(S), Permuted(array),
         NEW i \in 1 .. Len(array), NEW j \in 1 .. Len(array)
  PROVE  Permuted([array EXCEPT ![i] = array[j], ![j] = array[i]])
<1> DEFINE g == [array EXCEPT ![i] = array[j], ![j] = array[i]]
           at(k) == IF k = j THEN i ELSE IF k = i THEN j ELSE k
<1>1. /\ g \in Seq(S) /\ Len(g) = Len(array)
      /\ \A k \in 1 .. Len(array) : g[k] = array[at(k)]
  BY SwapFacts
<1> HIDE DEF g
<1>2. DOMAIN g = 1 .. Len(array) /\ DOMAIN array = 1 .. Len(array)
  BY <1>1, LenProperties
<1>3. \A k \in 1 .. Len(array) : at(k) \in 1 .. Len(array) /\ at(at(k)) = k
  OBVIOUS
<1>4. IsInjective(g)
  <2>1. \A k, l \in 1 .. Len(array) : array[k] = array[l] => k = l
    BY <1>2 DEF Permuted, IsInjective
  <2> SUFFICES ASSUME NEW k \in 1 .. Len(array), NEW l \in 1 .. Len(array), g[k] = g[l]
               PROVE  k = l
    BY <1>2 DEF IsInjective
  <2>2. at(k) = at(l)
    BY <1>1, <1>3, <2>1
  <2>3. QED
    BY <1>3, <2>2
<1>5. ToSet(g) = ToSet(array)
  <2>1. ToSet(g) = {g[k] : k \in 1 .. Len(array)}
        /\ ToSet(array) = {array[k] : k \in 1 .. Len(array)}
    BY <1>2 DEF ToSet
  <2>2. ASSUME NEW k \in 1 .. Len(array)
        PROVE  /\ \E l \in 1 .. Len(array) : g[k] = array[l]
               /\ \E l \in 1 .. Len(array) : array[k] = g[l]
    <3>1. at(k) \in 1 .. Len(array) /\ g[k] = array[at(k)]
      BY <1>1, <1>3
    <3>2. g[at(k)] = array[k]
      BY <1>1, <1>3
    <3> HIDE DEF at
    <3>3. QED
      BY <3>1, <3>2
  <2> HIDE DEF at
  <2>3. \A x \in ToSet(g) : x \in ToSet(array)
    BY <2>1, <2>2
  <2>4. \A x \in ToSet(array) : x \in ToSet(g)
    BY <2>1, <2>2
  <2>5. QED
    BY <2>3, <2>4
<1>6. Permuted(g)
  BY <1>1, <1>4, <1>5 DEF Permuted
<1>7. QED
  BY <1>6 DEF g

(* As many tests are selected in one order as in another.                  *)
LEMMA SameSelection ==
  ASSUME NEW S, NEW array \in Seq(S), Permuted(array), NEW value
  PROVE  LET a == SelectedIn(array, value, Len(array))
             b == SelectedIn(Registered, value, Len(Registered))
         IN  /\ Cardinality(a) = Cardinality(b)
             /\ {array[i] : i \in a} = {Registered[i] : i \in b}
<1> DEFINE a == SelectedIn(array, value, Len(array))
           b == SelectedIn(Registered, value, Len(Registered))
           to == [i \in a |-> CHOOSE j \in DOMAIN Registered : Registered[j] = array[i]]
<1>1. /\ DOMAIN Registered = 1 .. Len(Registered) /\ IsInjective(Registered)
      /\ Len(Registered) \in Nat
  BY RunnerAssumption, LenProperties
<1>2. /\ DOMAIN array = 1 .. Len(array) /\ IsInjective(array) /\ Len(array) = Len(Registered)
      /\ {array[i] : i \in DOMAIN array} = {Registered[i] : i \in DOMAIN Registered}
  BY LenProperties DEF Permuted, ToSet, Names
<1>3. \A i \in a : /\ to[i] \in DOMAIN Registered /\ Registered[to[i]] = array[i]
                   /\ to[i] \in b
  <2> SUFFICES ASSUME NEW i \in a PROVE /\ to[i] \in DOMAIN Registered
                                        /\ Registered[to[i]] = array[i] /\ to[i] \in b
    OBVIOUS
  <2>1. i \in DOMAIN array /\ RunsUnder(value, array[i])
    BY <1>2 DEF SelectedIn
  <2>2. \E j \in DOMAIN Registered : Registered[j] = array[i]
    BY <1>2, <2>1
  <2>3. to[i] \in DOMAIN Registered /\ Registered[to[i]] = array[i]
    <3>1. to[i] = CHOOSE j \in DOMAIN Registered : Registered[j] = array[i]
      OBVIOUS
    <3> HIDE DEF to
    <3>2. QED
      BY <2>2, <3>1
  <2>4. to[i] \in b
    BY <1>1, <2>1, <2>3 DEF SelectedIn
  <2>5. QED
    BY <2>3, <2>4
<1>4. to \in [a -> b]
  <2>1. to = [i \in a |-> to[i]]
    OBVIOUS
  <2> HIDE DEF to, a, b
  <2>2. QED
    BY <1>3, <2>1
<1>5. \A k, l \in a : to[k] = to[l] => k = l
  <2>1. a \subseteq DOMAIN array
    BY <1>2 DEF SelectedIn
  <2> HIDE DEF to, a, b
  <2>2. QED
    BY <1>2, <1>3, <2>1 DEF IsInjective
<1>6. \A j \in b : \E i \in a : to[i] = j
  <2> SUFFICES ASSUME NEW j \in b PROVE \E i \in a : to[i] = j
    OBVIOUS
  <2>1. j \in DOMAIN Registered /\ RunsUnder(value, Registered[j])
    BY <1>1 DEF SelectedIn
  <2>2. PICK i \in DOMAIN array : array[i] = Registered[j]
    BY <1>2, <2>1
  <2>3. i \in a
    BY <1>2, <2>1, <2>2 DEF SelectedIn
  <2> HIDE DEF to, a, b
  <2>4. to[i] = j
    BY <1>1, <1>3, <2>1, <2>2, <2>3 DEF IsInjective
  <2>5. QED
    BY <2>3, <2>4
<1>7. IsFiniteSet(a)
  BY <1>1, <1>2, SelectedInFacts
<1> HIDE DEF to, a, b
<1>8. to \in Bijection(a, b)
  <2>1. to \in Injection(a, b)
    BY <1>4, <1>5, Fun_IsInj
  <2>2. to \in Surjection(a, b)
    BY <1>4, <1>6, Fun_IsSurj
  <2>3. QED
    BY <2>1, <2>2 DEF Bijection
<1>9. Cardinality(a) = Cardinality(b)
  BY <1>7, <1>8, FS_Bijection DEF ExistsBijection
<1>10. {array[i] : i \in a} = {Registered[i] : i \in b}
  BY <1>3, <1>6
<1>11. QED
  BY <1>9, <1>10 DEF a, b

(* Something happens in the test that is running.                          *)
IsMarked(entries, field, marked) ==
  LET n == Len(entries)
  IN  /\ n \in Nat \ {0} /\ marked \in Seq(Entries) /\ Len(marked) = n
      /\ \A i \in 1 .. n : i # n => marked[i] = entries[i]
      /\ \A i \in 1 .. n : marked[i].test = entries[i].test
      /\ marked[n].broken  = (entries[n].broken \/ field = "broken")
      /\ marked[n].skipped = (entries[n].skipped \/ field = "skipped")

LEMMA MarkFacts ==
  ASSUME NEW entries \in Seq(Entries), entries # <<>>, NEW field \in {"broken", "skipped"}
  PROVE  IsMarked(entries, field, [entries EXCEPT ![Len(entries)][field] = TRUE])
<1> DEFINE n == Len(entries)
           last == entries[n]
           e == [last EXCEPT ![field] = TRUE]
           marked == [entries EXCEPT ![Len(entries)][field] = TRUE]
<1>1. n \in Nat \ {0} /\ n \in 1 .. n /\ last \in Entries
  <2>1. n \in Nat \ {0}
    BY EmptySeq
  <2>2. QED
    BY <2>1, ElementOfSeq
<1>2. /\ e \in Entries /\ e.test = last.test
      /\ e.broken = (last.broken \/ field = "broken")
      /\ e.skipped = (last.skipped \/ field = "skipped")
  <2> HIDE DEF last
  <2>1. CASE field = "broken"
    <3>1. e = [last EXCEPT !.broken = TRUE]
      BY <2>1
    <3>2. QED
      BY <1>1, <2>1, <3>1 DEF Entries
  <2>2. CASE field = "skipped"
    <3>1. e = [last EXCEPT !.skipped = TRUE]
      BY <2>2
    <3>2. QED
      BY <1>1, <2>2, <3>1 DEF Entries
  <2>3. QED
    BY <2>1, <2>2
<1>3. marked = [entries EXCEPT ![n] = e]
  OBVIOUS
<1> HIDE DEF e, marked
<1>4. /\ marked \in Seq(Entries) /\ Len(marked) = n
      /\ \A j \in 1 .. n : marked[j] = IF j = n THEN e ELSE entries[j]
  BY <1>1, <1>2, <1>3, ExceptSeq
<1>5. marked[n] = e /\ \A i \in 1 .. n : i # n => marked[i] = entries[i]
  BY <1>1, <1>4
<1>6. \A i \in 1 .. n : marked[i].test = entries[i].test
  BY <1>2, <1>5
<1>7. QED
  BY <1>1, <1>2, <1>4, <1>5, <1>6 DEF IsMarked, marked

LEMMA InitialInvariant == Init => IInv
<1> SUFFICES ASSUME Init PROVE IInv
  OBVIOUS
<1>1. Types
  <2>1. \A S : <<>> \in Seq(S)
    BY EmptySeq
  <2>2. argv \in Seq(Arguments)
    BY RunnerAssumption DEF Init
  <2>3. 1 \in 0 .. Len(Registered) + 1
    BY RunnerAssumption, LenProperties
  <2>4. QED
    BY <2>1, <2>2, <2>3 DEF Init, Types, PCs
<1>2. Registering
  BY RunnerAssumption, LenProperties DEF Init, Registering
<1>3. NotBegun /\ OnlySelected
  BY DEF Init, NotBegun, OnlySelected
<1>4. QED
  BY <1>1, <1>2, <1>3
     DEF Init, IInv, AllThere, LoopStarted, AllRan, AllCounted, AllListed, ThisTest, AtTheEnd,
         Looping, InTest

(* What the steps before the loop leave to be shown.                       *)
LEMMA BeforeTheLoop ==
  ASSUME NotBegun, log' = log, failed' = failed, skipped' = skipped,
         failed_testcases' = failed_testcases,
         pc \in {"initializers", "arguments", "shuffle"},
         pc' \in {"initializers", "arguments", "shuffle", "stopped", "crashed"}
  PROVE  /\ OnlySelected' /\ LoopStarted' /\ AllRan' /\ AllCounted' /\ AllListed'
         /\ ThisTest' /\ AtTheEnd'
         /\ log' = <<>> /\ failed' = 0 /\ skipped' = 0 /\ failed_testcases' = <<>>
<1>1. log' = <<>> /\ failed' = 0 /\ skipped' = 0 /\ failed_testcases' = <<>>
  BY DEF NotBegun
<1>2. OnlySelected'
  BY <1>1 DEF OnlySelected
<1>3. QED
  BY <1>1, <1>2 DEF LoopStarted, AllRan, AllCounted, AllListed, ThisTest, AtTheEnd, Looping, InTest

LEMMA RegisterKeeps == IInv /\ Register => IInv'
<1> SUFFICES ASSUME IInv, Register PROVE IInv'
  OBVIOUS
<1>1. /\ pc = "initializers" /\ Len(tests) < Len(Registered) /\ pc' = pc
      /\ UNCHANGED <<options, pc, index, counts, result, log, status>>
  BY DEF Register
<1>2. PICK ok \in BOOLEAN :
        Allocation(ok) /\ tests' = Grown(tests, Registered[Len(tests) + 1], ok)
  BY DEF Register
<1> DEFINE S == Names \union {Garbage}
           e == Registered[Len(tests) + 1]
<1>3. Len(tests) \in Nat /\ Len(Registered) \in Nat /\ tests \in Seq(S)
  BY RunnerAssumption, LenProperties DEF IInv, Types
<1>4. e \in Names
  <2>1. Len(tests) + 1 \in 1 .. Len(Registered) /\ DOMAIN Registered = 1 .. Len(Registered)
    BY <1>1, <1>3, RunnerAssumption, LenProperties
  <2>2. QED
    BY <2>1 DEF Names, ToSet
<1>5. /\ tests' \in Seq(S) /\ Len(tests') = Len(tests) + 1
      /\ ok  => /\ \A i \in 1 .. Len(tests) : tests'[i] = tests[i]
                /\ tests'[Len(tests) + 1] = e
      /\ ~ok => \A i \in 1 .. Len(tests) + 1 : tests'[i] = Garbage
  <2>1. Garbage \in S /\ e \in S
    BY <1>4
  <2>2. tests' = Grown(tests, e, ok)
    BY <1>2
  <2> HIDE DEF S, e
  <2>3. IsGrown(S, tests, e, ok, Grown(tests, e, ok))
    BY <1>3, <2>1, GrownFacts
  <2>4. QED
    BY <2>2, <2>3 DEF IsGrown
<1>6. Types'
  <2>1. lost' \in Nat
    BY <1>2, RunnerAssumption DEF Allocation, IInv, Types
  <2>2. QED
    BY <1>1, <1>5, <2>1 DEF IInv, Types, options, counts
<1>7. Registering'
  <2>1. Len(tests') <= Len(Registered)
    BY <1>1, <1>3, <1>5
  <2>2. ASSUME NEW i \in 1 .. Len(tests) + 1 PROVE tests'[i] \in {Registered[i], Garbage}
    <3>1. i \in 1 .. Len(tests) \/ i = Len(tests) + 1
      BY <1>3
    <3>2. QED
      BY <1>1, <1>5, <3>1 DEF IInv, Registering
  <2>3. QED
    BY <1>5, <2>1, <2>2 DEF Registering
<1>8. AllThere'
  BY <1>1 DEF AllThere
<1>9. /\ OnlySelected' /\ LoopStarted' /\ AllRan' /\ AllCounted' /\ AllListed'
      /\ ThisTest' /\ AtTheEnd'
      /\ log' = <<>> /\ failed' = 0 /\ skipped' = 0 /\ failed_testcases' = <<>>
  BY <1>1, BeforeTheLoop DEF IInv, counts
<1>10. NotBegun'
  BY <1>1, <1>9 DEF NotBegun
<1>11. QED
  BY <1>6, <1>7, <1>8, <1>9, <1>10 DEF IInv

LEMMA MainKeeps == IInv /\ Main => IInv'
<1> SUFFICES ASSUME IInv, Main PROVE IInv'
  OBVIOUS
<1>1. /\ pc = "initializers" /\ Len(tests) = Len(Registered)
      /\ pc' = IF Lost(tests) THEN "crashed" ELSE "arguments"
      /\ UNCHANGED <<tests, options, index, counts, result, lost, log, status>>
  BY DEF Main
<1>2. Types'
  BY <1>1 DEF IInv, Types, options, counts, PCs
<1>3. AllThere'
  <2> SUFFICES ASSUME ~Lost(tests) PROVE Permuted(tests)
    BY <1>1 DEF AllThere
  <2>1. /\ DOMAIN tests = 1 .. Len(tests) /\ tests \in Seq(Names \union {Garbage})
        /\ Registered \in Seq(Strings) /\ IsInjective(Registered)
        /\ DOMAIN Registered = 1 .. Len(Registered)
    BY RunnerAssumption, LenProperties DEF IInv, Types
  <2>2. \A i \in 1 .. Len(tests) : tests[i] = Registered[i]
    BY <1>1, <2>1 DEF Lost, IInv, Registering
  <2>3. \A a, b \in DOMAIN Registered : Registered[a] = Registered[b] => a = b
    BY <2>1 DEF IsInjective
  <2>4. IsInjective(tests)
    BY <1>1, <2>1, <2>2, <2>3 DEF IsInjective
  <2>5. ToSet(tests) = Names
    BY <1>1, <2>1, <2>2 DEF ToSet, Names
  <2>6. QED
    BY <1>1, <2>4, <2>5 DEF Permuted
<1>4. pc' \in {"crashed", "arguments"}
  BY <1>1
<1>5. /\ OnlySelected' /\ LoopStarted' /\ AllRan' /\ AllCounted' /\ AllListed'
      /\ ThisTest' /\ AtTheEnd'
      /\ log' = <<>> /\ failed' = 0 /\ skipped' = 0 /\ failed_testcases' = <<>>
  BY <1>1, <1>4, BeforeTheLoop DEF IInv, counts
<1>6. Registering' /\ NotBegun'
  BY <1>4, <1>5 DEF NotBegun, Registering
<1>7. QED
  BY <1>2, <1>3, <1>5, <1>6 DEF IInv

LEMMA ArgumentKeeps == IInv /\ Argument => IInv'
<1> SUFFICES ASSUME IInv, Argument PROVE IInv'
  OBVIOUS
<1>1. /\ pc = "arguments" /\ argv # <<>> /\ argv' = Tail(argv)
      /\ filter' = IF Head(argv).option = "--filter" THEN Head(argv).value ELSE filter
      /\ random_order' = (random_order \/ Head(argv).option = "--random-order")
      /\ pc' = IF Head(argv).option \in {"--help", "--list-tests"} THEN "stopped" ELSE pc
      /\ UNCHANGED <<tests, index, counts, result, lost, log, status>>
  BY DEF Argument
<1>2. pc' \in {"arguments", "stopped"}
  BY <1>1
<1>3. Head(argv) \in Arguments /\ argv' \in Seq(Arguments)
  BY <1>1, HeadTailProperties DEF IInv, Types
<1>4. filter' \in Filters \union {NoFilter}
  <2>1. Head(argv).option = "--filter" => Head(argv).value \in Filters
    BY <1>3 DEF Arguments
  <2>2. QED
    BY <1>1, <2>1 DEF IInv, Types
<1>5. Types'
  <2>1. random_order' \in BOOLEAN
    BY <1>1
  <2>2. QED
    BY <1>1, <1>2, <1>3, <1>4, <2>1 DEF IInv, Types, counts, PCs
<1>6. AllThere'
  BY <1>1, <1>2 DEF IInv, AllThere
<1>7. /\ OnlySelected' /\ LoopStarted' /\ AllRan' /\ AllCounted' /\ AllListed'
      /\ ThisTest' /\ AtTheEnd'
      /\ log' = <<>> /\ failed' = 0 /\ skipped' = 0 /\ failed_testcases' = <<>>
  BY <1>1, <1>2, BeforeTheLoop DEF IInv, counts
<1>8. Registering' /\ NotBegun'
  BY <1>2, <1>7 DEF NotBegun, Registering
<1>9. QED
  BY <1>5, <1>6, <1>7, <1>8 DEF IInv

LEMMA EndOfArgumentsKeeps == IInv /\ EndOfArguments => IInv'
<1> SUFFICES ASSUME IInv, EndOfArguments PROVE IInv'
  OBVIOUS
<1>1. /\ pc = "arguments" /\ pc' = "shuffle"
      /\ index' = IF random_order THEN Len(tests) ELSE 1
      /\ UNCHANGED <<tests, options, counts, result, lost, log, status>>
  BY DEF EndOfArguments
<1>2. Permuted(tests) /\ Len(Registered) \in Nat
  BY <1>1, RunnerAssumption, LenProperties DEF IInv, AllThere
<1>3. index' \in 0 .. Len(Registered) + 1 /\ (index' <= Len(tests) \/ index' = 1)
  BY <1>1, <1>2 DEF Permuted
<1>4. Types'
  BY <1>1, <1>3 DEF IInv, Types, options, counts, PCs
<1>5. AllThere'
  BY <1>1, <1>2 DEF AllThere
<1>6. /\ OnlySelected' /\ LoopStarted' /\ AllRan' /\ AllCounted' /\ AllListed'
      /\ ThisTest' /\ AtTheEnd'
      /\ log' = <<>> /\ failed' = 0 /\ skipped' = 0 /\ failed_testcases' = <<>>
  BY <1>1, BeforeTheLoop DEF IInv, counts
<1>7. Registering' /\ NotBegun'
  BY <1>1, <1>3, <1>6 DEF NotBegun, Registering
<1>8. QED
  BY <1>4, <1>5, <1>6, <1>7 DEF IInv

LEMMA ShuffleKeeps == IInv /\ Shuffle => IInv'
<1> SUFFICES ASSUME IInv, Shuffle PROVE IInv'
  OBVIOUS
<1>1. /\ pc = "shuffle" /\ index > 1 /\ index' = index - 1
      /\ UNCHANGED <<options, pc, counts, result, lost, log, status>>
  BY DEF Shuffle
<1>2. PICK next \in 1 .. index :
        tests' = [tests EXCEPT ![index] = tests[next], ![next] = tests[index]]
  BY DEF Shuffle
<1> DEFINE S == Names \union {Garbage}
<1>3. /\ tests \in Seq(S) /\ Permuted(tests) /\ index \in 0 .. Len(Registered) + 1
      /\ index <= Len(tests) \/ index = 1
  BY <1>1 DEF IInv, Types, AllThere, NotBegun
<1>4. Len(Registered) \in Nat /\ Len(tests) \in Nat
  BY <1>3, RunnerAssumption, LenProperties
<1>5. index \in 1 .. Len(tests) /\ next \in 1 .. Len(tests)
  BY <1>1, <1>2, <1>3, <1>4
<1> HIDE DEF S
<1>6. Permuted(tests')
  BY <1>2, <1>3, <1>5, SwapPermutes
<1>7. tests' \in Seq(S) /\ Len(tests') = Len(tests)
  BY <1>2, <1>3, <1>5, SwapFacts
<1>8. index' \in 0 .. Len(Registered) + 1 /\ index' <= Len(tests')
  BY <1>1, <1>3, <1>4, <1>5, <1>7
<1>9. Types'
  BY <1>1, <1>7, <1>8 DEF IInv, Types, options, counts, S
<1>10. AllThere'
  BY <1>6 DEF AllThere
<1>11. /\ OnlySelected' /\ LoopStarted' /\ AllRan' /\ AllCounted' /\ AllListed'
       /\ ThisTest' /\ AtTheEnd'
       /\ log' = <<>> /\ failed' = 0 /\ skipped' = 0 /\ failed_testcases' = <<>>
  BY <1>1, BeforeTheLoop DEF IInv, counts
<1>12. Registering' /\ NotBegun'
  BY <1>1, <1>8, <1>11 DEF NotBegun, Registering
<1>13. QED
  BY <1>9, <1>10, <1>11, <1>12 DEF IInv

LEMMA CountKeeps == IInv /\ Count => IInv'
<1> SUFFICES ASSUME IInv, Count PROVE IInv'
  OBVIOUS
<1>1. /\ pc = "shuffle" /\ pc' = "run" /\ index' = 1
      /\ ran_tests' = Cardinality({i \in DOMAIN tests : ToRun(tests[i])})
      /\ UNCHANGED <<tests, options, failed, skipped, failed_testcases, skipped_testcases,
                     result, lost, log, status>>
  BY DEF Count
<1>2. /\ log' = <<>> /\ failed' = 0 /\ skipped' = 0 /\ failed_testcases' = <<>>
      /\ filter' = filter
  BY <1>1 DEF IInv, NotBegun, options
<1>3. /\ Permuted(tests) /\ Len(Registered) \in Nat
      /\ DOMAIN tests = 1 .. Len(tests) /\ Len(tests) \in Nat
  BY <1>1, RunnerAssumption, LenProperties DEF IInv, AllThere, Types
<1>4. ran_tests' = Cardinality(SelectedIn(tests, filter, Len(tests))) /\ ran_tests' \in Nat
  <2>1. {i \in DOMAIN tests : ToRun(tests[i])} = SelectedIn(tests, filter, Len(tests))
    BY <1>3 DEF ToRun, RunsUnder, SelectedIn
  <2>2. Cardinality(SelectedIn(tests, filter, Len(tests))) \in Nat
    BY <1>3, SelectedInFacts
  <2>3. QED
    BY <1>1, <2>1, <2>2
<1>5. Types'
  <2>1. 1 \in 0 .. Len(Registered) + 1
    BY <1>3
  <2>2. QED
    BY <1>1, <1>4, <2>1 DEF IInv, Types, options, PCs
<1>6. AllThere' /\ Registering' /\ NotBegun' /\ ThisTest' /\ AtTheEnd'
  BY <1>1, <1>3 DEF AllThere, Registering, NotBegun, ThisTest, AtTheEnd, InTest
<1>7. OnlySelected'
  BY <1>2 DEF OnlySelected
<1>8. Looping' /\ ~InTest' /\ Position' = 0 /\ Recorded' = 0
  <2>1. Len(<<>>) = 0
    BY EmptySeq
  <2>2. QED
    BY <1>1, <1>2, <2>1 DEF Looping, InTest, Position, Recorded
<1>9. LoopStarted'
  BY <1>1, <1>2, <1>4 DEF LoopStarted
<1>10. RanUpTo(tests', filter', 0, log')
  BY <1>2, SelectedInFacts, FS_EmptySet, EmptySeq DEF RanUpTo
<1>11. Counted(log', 0, failed', skipped') /\ Listed(tests', log', 0, failed_testcases')
  <2>1. FailedIn(log', 0) = {} /\ SkippedIn(log', 0) = {}
    BY DEF FailedIn, SkippedIn
  <2>2. QED
    BY <1>2, <2>1, FS_EmptySet DEF Counted, Listed
<1>12. QED
  BY <1>5, <1>6, <1>7, <1>8, <1>9, <1>10, <1>11 DEF IInv, AllRan, AllCounted, AllListed

(***************************************************************************)
(* The steps of the loop.                                                  *)
(***************************************************************************)
LEMMA LoopFacts ==
  ASSUME IInv, Looping
  PROVE  /\ Permuted(tests) /\ Len(tests) = Len(Registered)
         /\ DOMAIN tests = 1 .. Len(tests) /\ Len(tests) \in Nat
         /\ index \in 1 .. Len(tests) + 1
         /\ log \in Seq(Entries) /\ Len(log) \in Nat /\ DOMAIN log = 1 .. Len(log)
<1>1. Permuted(tests)
  BY DEF IInv, AllThere, Looping
<1>2. Len(Registered) \in Nat /\ DOMAIN tests = 1 .. Len(tests)
  BY RunnerAssumption, LenProperties DEF IInv, Types
<1>3. index \in 0 .. Len(Registered) + 1 /\ index >= 1
  BY DEF IInv, Types, LoopStarted
<1>4. log \in Seq(Entries)
  BY DEF IInv, Types
<1>5. QED
  BY <1>1, <1>2, <1>3, <1>4, LenProperties DEF Permuted

(* The outcomes of the first tests do not change with those that follow.   *)
LEMMA SamePrefix ==
  ASSUME NEW a, NEW b, NEW n \in Nat, \A i \in 1 .. n : a[i] = b[i]
  PROVE  /\ \A f, s : Counted(a, n, f, s) <=> Counted(b, n, f, s)
         /\ \A array, list : Listed(array, a, n, list) <=> Listed(array, b, n, list)
<1>1. FailedIn(a, n) = FailedIn(b, n) /\ SkippedIn(a, n) = SkippedIn(b, n)
  BY DEF FailedIn, SkippedIn
<1>2. \A i \in FailedIn(a, n) : i \in 1 .. n
  BY DEF FailedIn
<1>3. {a[i].test : i \in FailedIn(a, n)} = {b[i].test : i \in FailedIn(b, n)}
  BY <1>1, <1>2
<1>4. QED
  BY <1>1, <1>3 DEF Counted, Listed

LEMMA SkipFilteredKeeps == IInv /\ SkipFiltered => IInv'
<1> SUFFICES ASSUME IInv, SkipFiltered PROVE IInv'
  OBVIOUS
<1>1. /\ pc = "run" /\ index <= Len(tests) /\ ~ToRun(tests[index]) /\ index' = index + 1
      /\ UNCHANGED <<tests, options, pc, counts, result, lost, log, status>>
  BY DEF SkipFiltered
<1>2. /\ Looping /\ ~InTest /\ Looping' /\ ~InTest'
      /\ Position = index - 1 /\ Position' = index' - 1
      /\ Recorded = Len(log) /\ Recorded' = Len(log')
  BY <1>1 DEF Looping, InTest, Position, Recorded
<1>3. /\ Permuted(tests) /\ Len(tests) = Len(Registered) /\ Len(tests) \in Nat
      /\ index \in 1 .. Len(tests) + 1
  BY <1>2, LoopFacts
<1>4. index' \in 0 .. Len(Registered) + 1 /\ index' >= 1
      /\ index - 1 \in Nat /\ (index - 1) + 1 = index /\ index' - 1 = index
  BY <1>1, <1>3
<1>5. Types'
  BY <1>1, <1>4 DEF IInv, Types, options, counts
<1>6. AllThere' /\ Registering' /\ NotBegun' /\ ThisTest' /\ AtTheEnd'
  BY <1>1, <1>2, <1>3 DEF AllThere, Registering, NotBegun, ThisTest, AtTheEnd
<1>7. filter' = filter /\ ran_tests' = ran_tests
  BY <1>1 DEF options, counts
<1>8. OnlySelected'
  BY <1>1, <1>7 DEF IInv, OnlySelected, ToRun
<1>9. LoopStarted'
  BY <1>1, <1>2, <1>4, <1>7 DEF IInv, LoopStarted
<1>10. AllRan'
  <2>1. ~RunsUnder(filter, tests[index])
    BY <1>1 DEF ToRun, RunsUnder
  <2>2. SelectedIn(tests, filter, index) = SelectedIn(tests, filter, index - 1)
    BY <1>4, <2>1, SelectedInGrows
  <2>3. RanUpTo(tests, filter, index - 1, log)
    BY <1>2 DEF IInv, AllRan
  <2>4. RanUpTo(tests, filter, index, log)
    BY <2>2, <2>3 DEF RanUpTo
  <2>5. QED
    BY <1>1, <1>2, <1>4, <1>7, <2>4 DEF AllRan
<1>11. AllCounted' /\ AllListed'
  BY <1>1, <1>2 DEF IInv, AllCounted, AllListed, counts
<1>12. QED
  BY <1>5, <1>6, <1>8, <1>9, <1>10, <1>11 DEF IInv

LEMMA RunKeeps == IInv /\ Run => IInv'
<1> SUFFICES ASSUME IInv, Run PROVE IInv'
  OBVIOUS
<1> DEFINE entry == [test |-> tests[index], broken |-> FALSE, skipped |-> FALSE]
<1>1. /\ pc = "run" /\ index <= Len(tests) /\ ToRun(tests[index])
      /\ pc' = "body" /\ result' = "PASSED" /\ log' = Append(log, entry)
      /\ UNCHANGED <<tests, options, index, counts, lost, status>>
  BY DEF Run
<1>2. /\ Looping /\ ~InTest /\ Looping' /\ InTest'
      /\ Position = index - 1 /\ Position' = index
      /\ Recorded = Len(log) /\ Recorded' = Len(log') - 1
  BY <1>1 DEF Looping, InTest, Position, Recorded
<1>3. /\ Permuted(tests) /\ Len(tests) = Len(Registered) /\ Len(tests) \in Nat
      /\ DOMAIN tests = 1 .. Len(tests)
      /\ index \in 1 .. Len(tests) + 1 /\ log \in Seq(Entries) /\ Len(log) \in Nat
      /\ DOMAIN log = 1 .. Len(log)
  BY <1>2, LoopFacts
<1>4. index \in 1 .. Len(tests) /\ index - 1 \in Nat /\ (index - 1) + 1 = index
  BY <1>1, <1>3
<1>5. entry \in Entries
  <2>1. tests[index] \in Names
    BY <1>3, <1>4 DEF Permuted, ToSet
  <2>2. QED
    BY <2>1 DEF Entries
<1> HIDE DEF entry
<1>6. /\ log' \in Seq(Entries) /\ Len(log') = Len(log) + 1 /\ log' # <<>>
      /\ \A i \in 1 .. Len(log) : log'[i] = log[i]
      /\ log'[Len(log) + 1] = entry
  BY <1>1, <1>3, <1>5, AppendProperties
<1>7. DOMAIN log' = 1 .. Len(log) + 1 /\ \A i \in 1 .. Len(log) + 1 : i \in 1 .. Len(log) \/ i = Len(log) + 1
  BY <1>3, <1>6, LenProperties
<1>8. entry.test = tests[index] /\ ~entry.broken /\ ~entry.skipped
  BY DEF entry
<1>9. filter' = filter /\ ran_tests' = ran_tests
  BY <1>1 DEF options, counts
<1>10. Types'
  BY <1>1, <1>6 DEF IInv, Types, options, counts, PCs
<1>11. AllThere' /\ Registering' /\ NotBegun' /\ AtTheEnd'
  BY <1>1, <1>3 DEF AllThere, Registering, NotBegun, AtTheEnd
<1>12. OnlySelected'
  <2>1. \A i \in 1 .. Len(log) : ToRun(log[i].test)
    BY <1>3 DEF IInv, OnlySelected
  <2>2. \A i \in 1 .. Len(log) + 1 : ToRun(log'[i].test)
    BY <1>1, <1>6, <1>7, <1>8, <2>1
  <2>3. QED
    BY <1>7, <1>9, <2>2 DEF OnlySelected, ToRun
<1>13. LoopStarted'
  BY <1>1, <1>2, <1>9 DEF IInv, LoopStarted
<1>14. ThisTest'
  <2>1. log'[Len(log')] = entry
    BY <1>6
  <2>2. ToRun(tests[index])'
    BY <1>1, <1>9 DEF ToRun
  <2>3. QED
    BY <1>1, <1>4, <1>6, <1>8, <2>1, <2>2 DEF ThisTest
<1>15. AllRan'
  <2>1. RunsUnder(filter, tests[index])
    BY <1>1 DEF ToRun, RunsUnder
  <2>2. /\ SelectedIn(tests, filter, index) = SelectedIn(tests, filter, index - 1) \union {index}
        /\ Cardinality(SelectedIn(tests, filter, index))
             = Cardinality(SelectedIn(tests, filter, index - 1)) + 1
    BY <1>4, <2>1, SelectedInGrows
  <2>3. RanUpTo(tests, filter, index - 1, log)
    BY <1>2 DEF IInv, AllRan
  <2>4. Len(log') = Cardinality(SelectedIn(tests, filter, index))
    BY <1>6, <2>2, <2>3 DEF RanUpTo
  <2>5. {log'[i].test : i \in 1 .. Len(log) + 1} = {log[i].test : i \in 1 .. Len(log)} \union {tests[index]}
    <3>1. \A i \in 1 .. Len(log) : i \in 1 .. Len(log) + 1
      BY <1>3
    <3>2. Len(log) + 1 \in 1 .. Len(log) + 1
      BY <1>3
    <3>3. QED
      BY <1>6, <1>7, <1>8, <3>1, <3>2
  <2>6. {tests[i] : i \in SelectedIn(tests, filter, index)}
          = {tests[i] : i \in SelectedIn(tests, filter, index - 1)} \union {tests[index]}
    BY <2>2
  <2>7. {log'[i].test : i \in DOMAIN log'} = {tests[i] : i \in SelectedIn(tests, filter, index)}
    BY <1>3, <1>7, <2>3, <2>5, <2>6 DEF RanUpTo
  <2>8. RanUpTo(tests, filter, index, log')
    BY <2>4, <2>7 DEF RanUpTo
  <2>9. QED
    BY <1>1, <1>2, <1>9, <2>8 DEF AllRan
<1>16. AllCounted' /\ AllListed'
  <2>1. Recorded' = Len(log)
    BY <1>2, <1>3, <1>6
  <2>2. Counted(log, Len(log), failed, skipped) /\ Listed(tests, log, Len(log), failed_testcases)
    BY <1>2 DEF IInv, AllCounted, AllListed
  <2>3. Counted(log', Len(log), failed, skipped) /\ Listed(tests, log', Len(log), failed_testcases)
    BY <1>3, <1>6, <2>2, SamePrefix
  <2>4. failed' = failed /\ skipped' = skipped /\ failed_testcases' = failed_testcases /\ tests' = tests
    BY <1>1 DEF counts
  <2>5. QED
    BY <2>1, <2>3, <2>4 DEF AllCounted, AllListed
<1>17. QED
  BY <1>10, <1>11, <1>12, <1>13, <1>14, <1>15, <1>16 DEF IInv

(* A step of a test, of any of the five kinds.                             *)
LEMMA BodyKeeps ==
  ASSUME IInv, NEW value \in {"PASSED", "FAILURE", "SKIPPED"}, NEW goes_on \in BOOLEAN,
         NEW field \in {"", "broken", "skipped"}, Body(value, goes_on, field),
         \/ field = "" /\ value = result /\ ~goes_on
         \/ field = "broken" /\ value = "FAILURE"
         \/ field = "skipped" /\ value = "SKIPPED" /\ ~goes_on
  PROVE  IInv'
<1> DEFINE n == Len(log)
<1>1. /\ pc = "body" /\ pc' = IF goes_on THEN "body" ELSE "record"
      /\ result' = value
      /\ log' = IF field = "" THEN log ELSE [log EXCEPT ![Len(log)][field] = TRUE]
      /\ UNCHANGED <<tests, options, index, counts, lost, status>>
  BY DEF Body
<1>2. pc' \in {"body", "record"}
  BY <1>1
<1>3. /\ Looping /\ InTest /\ Looping' /\ InTest'
      /\ Position = index /\ Position' = index'
      /\ Recorded = Len(log) - 1 /\ Recorded' = Len(log') - 1
  BY <1>1, <1>2 DEF Looping, InTest, Position, Recorded
<1>4. /\ log \in Seq(Entries) /\ DOMAIN log = 1 .. n /\ Len(tests) \in Nat
      /\ index \in 1 .. Len(tests) + 1 /\ Len(tests) = Len(Registered) /\ Permuted(tests)
  BY <1>3, LoopFacts
<1>5. /\ index <= Len(tests) /\ ToRun(tests[index]) /\ log # <<>>
      /\ log[n].test = tests[index] /\ ~log[n].skipped
      /\ result = IF log[n].broken THEN "FAILURE" ELSE "PASSED"
  BY <1>1, <1>3 DEF IInv, ThisTest
<1>6. /\ n \in Nat \ {0} /\ log' \in Seq(Entries) /\ Len(log') = n
      /\ \A i \in 1 .. n : i # n => log'[i] = log[i]
      /\ \A i \in 1 .. n : log'[i].test = log[i].test
      /\ log'[n].broken  = (log[n].broken \/ field = "broken")
      /\ log'[n].skipped = (log[n].skipped \/ field = "skipped")
  <2>1. CASE field = ""
    <3>1. n \in Nat \ {0}
      BY <1>4, <1>5, EmptySeq
    <3>2. n \in 1 .. n
      BY <3>1, LastIndex
    <3>3. log[n] \in Entries
      BY <1>4, <3>2, ElementOfSeq
    <3>4. log' = log
      BY <1>1, <2>1
    <3>5. log'[n].broken = (log[n].broken \/ FALSE) /\ log'[n].skipped = (log[n].skipped \/ FALSE)
      BY <3>3, <3>4 DEF Entries
    <3>6. QED
      BY <1>4, <2>1, <3>1, <3>4, <3>5
  <2>2. CASE field # ""
    <3>1. field \in {"broken", "skipped"}
      BY <2>2
    <3>2. log' = [log EXCEPT ![Len(log)][field] = TRUE]
      BY <1>1, <2>2
    <3>3. IsMarked(log, field, log')
      BY <1>4, <1>5, <3>1, <3>2, MarkFacts
    <3>4. QED
      BY <3>3 DEF IsMarked
  <2>3. QED
    BY <2>1, <2>2
<1>7. filter' = filter /\ tests' = tests /\ index' = index
  BY <1>1 DEF options
<1>8. DOMAIN log' = 1 .. n /\ n \in 1 .. n /\ log' # <<>>
  <2>1. DOMAIN log' = 1 .. n /\ n \in 1 .. n
    <3>1. DOMAIN log' = 1 .. Len(log') /\ Len(log') = n
      BY <1>6, LenProperties
    <3>2. n \in 1 .. n
      BY <1>6, LastIndex
    <3>3. QED
      BY <3>1, <3>2
  <2>2. Len(<<>>) = 0
    BY EmptySeq
  <2>3. QED
    BY <1>6, <2>1, <2>2
<1>9. Types'
  BY <1>1, <1>2, <1>6 DEF IInv, Types, options, counts, PCs
<1>10. AllThere' /\ Registering' /\ NotBegun' /\ AtTheEnd'
  BY <1>1, <1>2, <1>4 DEF AllThere, Registering, NotBegun, AtTheEnd
<1>11. OnlySelected'
  <2>1. \A i \in 1 .. n : ToRun(log[i].test)
    BY <1>4 DEF IInv, OnlySelected
  <2>2. \A i \in 1 .. n : ToRun(log'[i].test)
    BY <1>6, <2>1
  <2>3. QED
    BY <1>7, <1>8, <2>2 DEF OnlySelected, ToRun
<1>12. LoopStarted'
  BY <1>1, <1>3, <1>7 DEF IInv, LoopStarted, counts
<1>13. ThisTest'
  <2>1. ToRun(tests[index])'
    BY <1>5, <1>7 DEF ToRun
  <2>2. log'[n].test = tests[index]
    BY <1>5, <1>6, <1>8
  <2>3. pc' = "body" => ~log'[n].skipped
    BY <1>1, <1>5, <1>6
  <2>4. value = IF log'[n].skipped THEN "SKIPPED"
                ELSE IF log'[n].broken THEN "FAILURE" ELSE "PASSED"
    <3>1. CASE field = "" /\ value = result
      BY <1>5, <1>6, <3>1
    <3>2. CASE field = "broken" /\ value = "FAILURE"
      BY <1>5, <1>6, <3>2
    <3>3. CASE field = "skipped" /\ value = "SKIPPED"
      BY <1>6, <3>3
    <3>4. QED
      BY <3>1, <3>2, <3>3
  <2>5. QED
    BY <1>1, <1>5, <1>6, <1>7, <1>8, <2>1, <2>2, <2>3, <2>4 DEF ThisTest
<1>14. AllRan'
  <2>1. RanUpTo(tests, filter, index, log)
    BY <1>3 DEF IInv, AllRan
  <2>2. {log'[i].test : i \in 1 .. n} = {log[i].test : i \in 1 .. n}
    BY <1>6
  <2>3. RanUpTo(tests, filter, index, log')
    BY <1>4, <1>6, <1>8, <2>1, <2>2 DEF RanUpTo
  <2>4. QED
    BY <1>3, <1>7, <2>3 DEF AllRan
<1>15. AllCounted' /\ AllListed'
  <2>1. n - 1 \in Nat /\ \A i \in 1 .. n - 1 : i \in 1 .. n /\ i # n
    BY <1>6, LastIndex
  <2>2. Counted(log, n - 1, failed, skipped) /\ Listed(tests, log, n - 1, failed_testcases)
    BY <1>3 DEF IInv, AllCounted, AllListed
  <2>3. \A i \in 1 .. n - 1 : log[i] = log'[i]
    BY <1>6, <2>1
  <2>4. Counted(log', n - 1, failed, skipped) /\ Listed(tests, log', n - 1, failed_testcases)
    BY <2>1, <2>2, <2>3, SamePrefix
  <2>5. failed' = failed /\ skipped' = skipped /\ failed_testcases' = failed_testcases
    BY <1>1 DEF counts
  <2>6. QED
    BY <1>3, <1>6, <1>7, <2>4, <2>5 DEF AllCounted, AllListed
<1>16. QED
  BY <1>9, <1>10, <1>11, <1>12, <1>13, <1>14, <1>15 DEF IInv

LEMMA TerminateKeeps == IInv /\ Terminate => IInv'
<1> SUFFICES ASSUME IInv, Terminate PROVE IInv'
  OBVIOUS
<1>1. pc' = "crashed" /\ UNCHANGED <<tests, options, index, counts, result, lost, log, status>>
  BY DEF Terminate
<1>2. Types'
  BY <1>1 DEF IInv, Types, options, counts, PCs
<1>3. OnlySelected'
  BY <1>1 DEF IInv, OnlySelected, ToRun, options
<1>4. /\ Registering' /\ AllThere' /\ NotBegun' /\ LoopStarted' /\ AllRan' /\ AllCounted'
      /\ AllListed' /\ ThisTest' /\ AtTheEnd'
  BY <1>1 DEF Registering, AllThere, NotBegun, LoopStarted, AllRan, AllCounted, AllListed,
              ThisTest, AtTheEnd, Looping, InTest
<1>5. QED
  BY <1>2, <1>3, <1>4 DEF IInv

(* The list of the failed tests grows with their number.                   *)
LEMMA ListGrows ==
  ASSUME NEW S, NEW array, NEW entries, NEW n \in Nat,
         NEW list \in Seq(S), Garbage \in S, NEW e \in S, NEW ok \in BOOLEAN,
         Listed(array, entries, n, list),
         entries[n + 1].broken /\ ~entries[n + 1].skipped, entries[n + 1].test = array[e]
  PROVE  Listed(array, entries, n + 1, Grown(list, e, ok))
<1> DEFINE g == Grown(list, e, ok)
<1>1. IsGrown(S, list, e, ok, g)
  BY GrownFacts
<1> HIDE DEF g
<1>2. /\ Len(list) \in Nat /\ g \in Seq(S) /\ Len(g) = Len(list) + 1
      /\ DOMAIN g = 1 .. Len(list) + 1 /\ DOMAIN list = 1 .. Len(list)
      /\ \A i \in 1 .. Len(list) : i \in 1 .. Len(list) + 1
      /\ Len(list) + 1 \in 1 .. Len(list) + 1
      /\ \A i \in 1 .. Len(list) + 1 : i \in 1 .. Len(list) \/ i = Len(list) + 1
  BY <1>1, LenProperties DEF IsGrown
<1>3. FailedIn(entries, n + 1) = FailedIn(entries, n) \union {n + 1}
  BY OutcomesGrow
<1>4. CASE ~ok
  <2>1. g[Len(list) + 1] = Garbage
    BY <1>1, <1>2, <1>4 DEF IsGrown
  <2>2. Lost(g)
    BY <1>2, <2>1 DEF Lost
  <2>3. QED
    BY <2>2 DEF Listed, g
<1>5. CASE ok
  <2>1. \A i \in 1 .. Len(list) : g[i] = list[i]
    BY <1>1, <1>5 DEF IsGrown
  <2>2. g[Len(list) + 1] = e
    BY <1>1, <1>5 DEF IsGrown
  <2> SUFFICES ASSUME ~Lost(g)
               PROVE  {array[g[i]] : i \in DOMAIN g}
                        = {entries[i].test : i \in FailedIn(entries, n + 1)}
    BY DEF Listed, g
  <2>3. ~Lost(list)
    BY <1>2, <2>1 DEF Lost
  <2>4. {array[list[i]] : i \in 1 .. Len(list)} = {entries[i].test : i \in FailedIn(entries, n)}
    BY <1>2, <2>3 DEF Listed
  <2>5. {array[g[i]] : i \in 1 .. Len(list) + 1}
          = {array[list[i]] : i \in 1 .. Len(list)} \union {array[e]}
    BY <1>2, <2>1, <2>2
  <2>6. {entries[i].test : i \in FailedIn(entries, n + 1)}
          = {entries[i].test : i \in FailedIn(entries, n)} \union {array[e]}
    BY <1>3
  <2>7. QED
    BY <1>2, <2>4, <2>5, <2>6
<1>6. QED
  BY <1>4, <1>5 DEF g

LEMMA RecordKeeps == IInv /\ Record => IInv'
<1> SUFFICES ASSUME IInv, Record PROVE IInv'
  OBVIOUS
<1> DEFINE n == Len(log)
           m == n - 1
           entry == log[n]
           S == Nat \union {Garbage}
<1>1. /\ pc = "record" /\ pc' = "run" /\ index' = index + 1
      /\ UNCHANGED <<tests, options, ran_tests, result, log, status>>
  BY DEF Record
<1>2. PICK ok \in BOOLEAN :
        /\ Allocation(ok)
        /\ \/ /\ result = "FAILURE"
              /\ failed' = failed + 1
              /\ failed_testcases' = Grown(failed_testcases, index, ok)
              /\ UNCHANGED <<skipped, skipped_testcases>>
           \/ /\ result = "SKIPPED"
              /\ skipped' = skipped + 1
              /\ skipped_testcases' = Grown(skipped_testcases, index, ok)
              /\ UNCHANGED <<failed, failed_testcases>>
           \/ /\ result = "PASSED" /\ ok
              /\ UNCHANGED <<failed, skipped, failed_testcases, skipped_testcases>>
  BY DEF Record
<1>3. /\ Looping /\ InTest /\ Looping' /\ ~InTest'
      /\ Position = index /\ Position' = index' - 1
      /\ Recorded = m /\ Recorded' = Len(log')
  BY <1>1 DEF Looping, InTest, Position, Recorded
<1>4. /\ log \in Seq(Entries) /\ DOMAIN log = 1 .. n /\ Len(tests) \in Nat
      /\ index \in 1 .. Len(tests) + 1 /\ Len(tests) = Len(Registered) /\ Permuted(tests)
  BY <1>3, LoopFacts
<1>5. /\ index <= Len(tests) /\ log # <<>> /\ entry.test = tests[index]
      /\ result = IF entry.skipped THEN "SKIPPED"
                  ELSE IF entry.broken THEN "FAILURE" ELSE "PASSED"
  BY <1>3 DEF IInv, ThisTest
<1>6. /\ n \in Nat \ {0} /\ m \in Nat /\ m + 1 = n /\ entry = log[m + 1]
  <2>1. n \in Nat \ {0}
    BY <1>4, <1>5, EmptySeq
  <2>2. m \in Nat /\ m + 1 = n
    BY <2>1, LastIndex
  <2>3. QED
    BY <2>1, <2>2
<1>7. filter' = filter /\ tests' = tests /\ log' = log /\ ran_tests' = ran_tests
  BY <1>1 DEF options
<1>8. /\ index' \in 0 .. Len(Registered) + 1 /\ index' >= 1 /\ index' - 1 = index
      /\ index \in Nat
  BY <1>1, <1>4, <1>5
<1>9. /\ failed \in Nat /\ skipped \in Nat
      /\ failed_testcases \in Seq(S) /\ skipped_testcases \in Seq(S)
  BY DEF IInv, Types
<1>10. index \in S /\ Garbage \in S
  BY <1>8
<1>11. Counted(log, m, failed, skipped) /\ Listed(tests, log, m, failed_testcases)
  BY <1>3 DEF IInv, AllCounted, AllListed
<1>12. failed = Cardinality(FailedIn(log, m)) /\ skipped = Cardinality(SkippedIn(log, m))
  BY <1>11 DEF Counted
<1> HIDE DEF n, m, entry, S
<1>13. /\ failed' \in Nat /\ skipped' \in Nat
       /\ failed_testcases' \in Seq(S) /\ skipped_testcases' \in Seq(S)
       /\ Counted(log, m + 1, failed', skipped')
       /\ Listed(tests, log, m + 1, failed_testcases')
  <2>1. CASE /\ result = "FAILURE"
             /\ failed' = failed + 1
             /\ failed_testcases' = Grown(failed_testcases, index, ok)
             /\ UNCHANGED <<skipped, skipped_testcases>>
    <3>1. entry.broken /\ ~entry.skipped
      BY <1>5, <2>1
    <3>2. log[m + 1].broken /\ ~log[m + 1].skipped /\ log[m + 1].test = tests[index]
      BY <1>5, <1>6, <3>1
    <3>3. /\ Cardinality(FailedIn(log, m + 1)) = Cardinality(FailedIn(log, m)) + 1
          /\ SkippedIn(log, m + 1) = SkippedIn(log, m)
      BY <1>6, <3>2, OutcomesGrow
    <3>4. Counted(log, m + 1, failed', skipped')
      BY <1>12, <2>1, <3>3 DEF Counted
    <3>5. IsGrown(S, failed_testcases, index, ok, failed_testcases')
      BY <1>9, <1>10, <2>1, GrownFacts
    <3>6. Listed(tests, log, m + 1, Grown(failed_testcases, index, ok))
      BY <1>6, <1>9, <1>10, <1>11, <3>2, ListGrows
    <3>7. QED
      BY <1>9, <2>1, <3>4, <3>5, <3>6 DEF IsGrown
  <2>2. CASE /\ result = "SKIPPED"
             /\ skipped' = skipped + 1
             /\ skipped_testcases' = Grown(skipped_testcases, index, ok)
             /\ UNCHANGED <<failed, failed_testcases>>
    <3>1. entry.skipped
      BY <1>5, <2>2
    <3>2. /\ FailedIn(log, m + 1) = FailedIn(log, m)
          /\ Cardinality(SkippedIn(log, m + 1)) = Cardinality(SkippedIn(log, m)) + 1
      BY <1>6, <3>1, OutcomesGrow
    <3>3. Counted(log, m + 1, failed', skipped')
      BY <1>12, <2>2, <3>2 DEF Counted
    <3>4. IsGrown(S, skipped_testcases, index, ok, skipped_testcases')
      BY <1>9, <1>10, <2>2, GrownFacts
    <3>5. Listed(tests, log, m + 1, failed_testcases')
      BY <1>11, <2>2, <3>2 DEF Listed
    <3>6. QED
      BY <1>9, <2>2, <3>3, <3>4, <3>5 DEF IsGrown
  <2>3. CASE /\ result = "PASSED"
             /\ UNCHANGED <<failed, skipped, failed_testcases, skipped_testcases>>
    <3>1. ~entry.broken /\ ~entry.skipped
      BY <1>5, <2>3
    <3>2. FailedIn(log, m + 1) = FailedIn(log, m) /\ SkippedIn(log, m + 1) = SkippedIn(log, m)
      BY <1>6, <3>1, OutcomesGrow
    <3>3. Counted(log, m + 1, failed', skipped')
      BY <1>12, <2>3, <3>2 DEF Counted
    <3>4. Listed(tests, log, m + 1, failed_testcases')
      BY <1>11, <2>3, <3>2 DEF Listed
    <3>5. QED
      BY <1>9, <2>3, <3>3, <3>4
  <2>4. QED
    BY <1>2, <2>1, <2>2, <2>3
<1>14. Types'
  <2>1. lost' \in Nat
    BY <1>2, RunnerAssumption DEF Allocation, IInv, Types
  <2>2. QED
    BY <1>1, <1>8, <1>13, <2>1 DEF IInv, Types, options, PCs, S
<1>15. AllThere' /\ Registering' /\ NotBegun' /\ ThisTest' /\ AtTheEnd'
  BY <1>1, <1>4 DEF AllThere, Registering, NotBegun, ThisTest, AtTheEnd, InTest
<1>16. OnlySelected'
  BY <1>7 DEF IInv, OnlySelected, ToRun
<1>17. LoopStarted'
  BY <1>3, <1>7, <1>8 DEF IInv, LoopStarted
<1>18. AllRan'
  <2>1. RanUpTo(tests, filter, index, log)
    BY <1>3 DEF IInv, AllRan
  <2>2. QED
    BY <1>3, <1>7, <1>8, <2>1 DEF AllRan
<1>19. AllCounted' /\ AllListed'
  <2>1. Recorded' = m + 1
    BY <1>3, <1>6, <1>7 DEF n
  <2>2. QED
    BY <1>7, <1>13, <2>1 DEF AllCounted, AllListed
<1>20. QED
  BY <1>14, <1>15, <1>16, <1>17, <1>18, <1>19 DEF IInv

LEMMA ReportKeeps == IInv /\ Report => IInv'
<1> SUFFICES ASSUME IInv, Report PROVE IInv'
  OBVIOUS
<1>1. /\ pc = "run" /\ index > Len(tests) /\ pc' \in {"crashed", "returned"}
      /\ status' = failed % STATUS_LIMIT
      /\ UNCHANGED <<tests, options, index, counts, result, lost, log>>
  BY DEF Report
<1>2. /\ Looping /\ ~InTest /\ ~InTest' /\ Position' = Position /\ Recorded' = Recorded
  BY <1>1 DEF Looping, InTest, Position, Recorded
<1>3. /\ index \in 1 .. Len(tests) + 1 /\ Len(tests) \in Nat /\ Permuted(tests)
  BY <1>2, LoopFacts
<1>4. index = Len(tests) + 1
  BY <1>1, <1>3
<1>5. Types'
  <2>1. failed % STATUS_LIMIT \in Nat
    BY DEF IInv, Types, STATUS_LIMIT
  <2>2. QED
    BY <1>1, <2>1 DEF IInv, Types, options, counts, PCs
<1>6. filter' = filter /\ ran_tests' = ran_tests /\ failed' = failed /\ skipped' = skipped
      /\ failed_testcases' = failed_testcases
  BY <1>1 DEF options, counts
<1>7. AllThere' /\ Registering' /\ NotBegun' /\ ThisTest'
  BY <1>1, <1>2, <1>3 DEF AllThere, Registering, NotBegun, ThisTest
<1>8. AtTheEnd'
  BY <1>1, <1>4, <1>6 DEF AtTheEnd
<1>9. OnlySelected'
  BY <1>1, <1>6 DEF IInv, OnlySelected, ToRun
<1>10. LoopStarted' /\ AllRan' /\ AllCounted' /\ AllListed'
  BY <1>1, <1>2, <1>6 DEF IInv, LoopStarted, AllRan, AllCounted, AllListed
<1>11. QED
  BY <1>5, <1>7, <1>8, <1>9, <1>10 DEF IInv

LEMMA StutterKeeps == IInv /\ UNCHANGED vars => IInv'
<1> SUFFICES ASSUME IInv, UNCHANGED vars PROVE IInv'
  OBVIOUS
<1>1. UNCHANGED <<tests, argv, filter, random_order, pc, index, ran_tests, failed, skipped,
                  failed_testcases, skipped_testcases, result, lost, log, status>>
  BY DEF vars, options, counts
<1>2. Types' /\ Registering' /\ AllThere' /\ NotBegun'
  BY <1>1 DEF IInv, Types, Registering, AllThere, NotBegun
<1>3. OnlySelected' /\ ThisTest'
  BY <1>1 DEF IInv, OnlySelected, ThisTest, ToRun, InTest
<1>4. LoopStarted' /\ AllRan' /\ AllCounted' /\ AllListed' /\ AtTheEnd'
  BY <1>1 DEF IInv, LoopStarted, AllRan, AllCounted, AllListed, AtTheEnd,
              Looping, InTest, Position, Recorded
<1>5. QED
  BY <1>2, <1>3, <1>4 DEF IInv

LEMMA NextKeeps == IInv /\ [Next]_vars => IInv'
<1> SUFFICES ASSUME IInv, [Next]_vars PROVE IInv'
  OBVIOUS
<1>1. CASE ExpectFails
  BY <1>1, BodyKeeps DEF ExpectFails
<1>2. CASE AssertFails
  BY <1>2, BodyKeeps DEF AssertFails
<1>3. CASE Throw
  BY <1>3, BodyKeeps DEF Throw
<1>4. CASE SkipTest
  BY <1>4, BodyKeeps DEF SkipTest
<1>5. CASE EndOfBody
  <2>1. result \in {"PASSED", "FAILURE", "SKIPPED"}
    BY DEF IInv, Types
  <2>2. QED
    BY <1>5, <2>1, BodyKeeps DEF EndOfBody
<1>6. CASE Ended \/ UNCHANGED vars
  BY <1>6, StutterKeeps DEF Ended
<1>7. CASE Register \/ Main \/ Argument \/ EndOfArguments \/ Shuffle \/ Count
  BY <1>7, RegisterKeeps, MainKeeps, ArgumentKeeps, EndOfArgumentsKeeps, ShuffleKeeps, CountKeeps
<1>8. CASE SkipFiltered \/ Run \/ Record \/ Report \/ Terminate
  BY <1>8, SkipFilteredKeeps, RunKeeps, RecordKeeps, ReportKeeps, TerminateKeeps
<1>9. QED
  BY <1>1, <1>2, <1>3, <1>4, <1>5, <1>6, <1>7, <1>8 DEF Next

(* IInv holds in every state of the runner (utest.h:1350-1489).            *)
THEOREM RunnerInvariant == Spec => []IInv
BY InitialInvariant, NextKeeps, PTL DEF Spec
-----------------------------------------------------------------------------
(***************************************************************************)
(* What the runner promises.                                               *)
(***************************************************************************)
LEMMA NamesAreStrings == \A name \in Names : name \in Strings
<1>1. Registered \in Seq(Strings) /\ DOMAIN Registered = 1 .. Len(Registered)
  BY RunnerAssumption, LenProperties
<1>2. \A i \in 1 .. Len(Registered) : Registered[i] \in Strings
  BY <1>1, ElementOfSeq
<1>3. Names = {Registered[i] : i \in 1 .. Len(Registered)}
  BY <1>1 DEF Names, ToSet
<1>4. QED
  BY <1>2, <1>3

LEMMA CountsFit == IInv /\ Looping => failed + skipped <= ran_tests
<1> SUFFICES ASSUME IInv, Looping PROVE failed + skipped <= ran_tests
  OBVIOUS
<1>1. /\ Len(tests) \in Nat /\ index \in 1 .. Len(tests) + 1
      /\ log \in Seq(Entries) /\ Len(log) \in Nat
  BY LoopFacts
<1>2. Position \in 0 .. Len(tests)
  <2>1. InTest => index <= Len(tests)
    BY DEF IInv, ThisTest
  <2>2. QED
    BY <1>1, <2>1 DEF Position
<1>3. Recorded \in Nat /\ Recorded <= Len(log)
  <2>1. InTest => log # <<>>
    BY DEF IInv, ThisTest
  <2>2. log # <<>> => Len(log) \in Nat \ {0}
    BY <1>1, EmptySeq
  <2>3. QED
    BY <1>1, <2>1, <2>2 DEF Recorded
<1>4. failed + skipped <= Recorded /\ failed \in Nat /\ skipped \in Nat
  <2>1. Counted(log, Recorded, failed, skipped)
    BY DEF IInv, AllCounted
  <2>2. QED
    BY <1>3, <2>1, OutcomeFacts DEF Counted
<1>5. Len(log) = Cardinality(SelectedIn(tests, filter, Position))
  BY DEF IInv, AllRan, RanUpTo
<1>6. /\ Cardinality(SelectedIn(tests, filter, Position))
           <= Cardinality(SelectedIn(tests, filter, Len(tests)))
      /\ Cardinality(SelectedIn(tests, filter, Len(tests))) \in Nat
  BY <1>1, <1>2, SelectedInMonotone, SelectedInFacts
<1>7. ran_tests = Cardinality(SelectedIn(tests, filter, Len(tests)))
  BY DEF IInv, LoopStarted
<1>8. QED
  BY <1>1, <1>3, <1>4, <1>5, <1>6, <1>7

(* The variables have their types, and the number of tests reported as     *)
(* passed, ran_tests - failed - skipped, never wraps (utest.h:1459).       *)
THEOREM TypeCorrectness == Spec => []TypeOK
<1>1. IInv => TypeOK
  <2> SUFFICES ASSUME IInv PROVE TypeOK
    OBVIOUS
  <2>1. \A i \in DOMAIN tests : tests[i] \in ToSet(Registered) \union {Garbage}
    BY LenProperties, ElementOfSeq DEF IInv, Types, Names
  <2>2. pc \in {"run", "body", "record", "returned"} => failed + skipped <= ran_tests
    BY CountsFit DEF Looping
  <2>3. QED
    BY <2>1, <2>2 DEF IInv, Types, TypeOK, PCs
<1>2. QED
  BY <1>1, RunnerInvariant, PTL

(* When the program returns, each test that the filter selects has run     *)
(* once and no other has, in whatever order, and they are as many as it    *)
(* says ran (utest.h:1350-1373, 1386-1456).                                *)
THEOREM TestsRunOnce == Spec => []EveryTestOnce
<1>1. IInv => EveryTestOnce
  <2> SUFFICES ASSUME IInv, pc = "returned"
               PROVE  LET chosen == {i \in DOMAIN Registered : ToRun(Registered[i])}
                      IN  /\ {log[i].test : i \in DOMAIN log} = {Registered[i] : i \in chosen}
                          /\ Len(log) = Cardinality(chosen) /\ ran_tests = Len(log)
    BY DEF EveryTestOnce
  <2> DEFINE a == SelectedIn(tests, filter, Len(tests))
             b == SelectedIn(Registered, filter, Len(Registered))
  <2>1. Looping /\ index = Len(tests) + 1 /\ Position = index - 1
    BY DEF IInv, AtTheEnd, Looping, Position, InTest
  <2>2. Permuted(tests) /\ Len(tests) \in Nat
    BY <2>1, LoopFacts
  <2>3. Position = Len(tests)
    BY <2>1, <2>2
  <2>4. Len(log) = Cardinality(a) /\ {log[i].test : i \in DOMAIN log} = {tests[i] : i \in a}
    BY <2>1, <2>3 DEF IInv, AllRan, RanUpTo
  <2>5. ran_tests = Cardinality(a)
    BY <2>1 DEF IInv, LoopStarted
  <2>6. Cardinality(a) = Cardinality(b) /\ {tests[i] : i \in a} = {Registered[i] : i \in b}
    BY <2>2, SameSelection DEF IInv, Types
  <2>7. b = {i \in DOMAIN Registered : ToRun(Registered[i])}
    BY RunnerAssumption, LenProperties DEF SelectedIn, RunsUnder, ToRun
  <2> HIDE DEF a, b
  <2>8. QED
    BY <2>4, <2>5, <2>6, <2>7
<1>2. QED
  BY <1>1, RunnerInvariant, PTL

(* The totals, the list of the failed tests and the exit status tell what  *)
(* happened in the tests: a test with a failed check or an exception has   *)
(* failed unless it was skipped after it, and with fewer than 256 tests    *)
(* the status is their number (utest.h:700-705, 1387, 1418-1430, 1489).    *)
THEOREM ReportsAreRight == Spec => []ReportIsRight
<1>1. IInv => ReportIsRight
  <2> SUFFICES ASSUME IInv, pc = "returned"
               PROVE  /\ status = Cardinality({i \in DOMAIN log : log[i].broken /\ ~log[i].skipped})
                      /\ ran_tests - failed - skipped
                           = Cardinality({i \in DOMAIN log : ~log[i].broken /\ ~log[i].skipped})
                      /\ Lost(failed_testcases) \/
                         {tests[failed_testcases[i]] : i \in DOMAIN failed_testcases}
                           = {log[i].test : i \in {j \in DOMAIN log : log[j].broken /\ ~log[j].skipped}}
    BY DEF ReportIsRight
  <2> DEFINE n == Len(log)
  <2>1. Looping /\ index = Len(tests) + 1 /\ Recorded = n /\ Position = index - 1
    BY DEF IInv, AtTheEnd, Looping, Position, Recorded, InTest
  <2>2. /\ Len(tests) = Len(Registered) /\ Len(tests) \in Nat
        /\ n \in Nat /\ DOMAIN log = 1 .. n
    BY <2>1, LoopFacts
  <2>3. FailedIn(log, n) = {i \in DOMAIN log : log[i].broken /\ ~log[i].skipped}
    BY <2>2 DEF FailedIn
  <2>4. /\ failed = Cardinality(FailedIn(log, n)) /\ skipped = Cardinality(SkippedIn(log, n))
    BY <2>1 DEF IInv, AllCounted, Counted
  <2>5. /\ failed \in Nat /\ skipped \in Nat /\ failed + skipped <= n
        /\ Cardinality({i \in 1 .. n : ~log[i].broken /\ ~log[i].skipped}) = n - failed - skipped
    BY <2>2, <2>4, OutcomeFacts
  <2>6. Position = Len(tests)
    BY <2>1, <2>2
  <2>7. ran_tests = n
    BY <2>1, <2>6 DEF IInv, AllRan, RanUpTo, LoopStarted
  <2>8. n <= Len(tests)
    <3>1. n = Cardinality(SelectedIn(tests, filter, Len(tests)))
      BY <2>1, <2>6 DEF IInv, AllRan, RanUpTo
    <3>2. QED
      BY <2>2, <3>1, SelectedInFacts
  <2>9. status = failed
    <3>1. Len(Registered) < 256
      BY RunnerAssumption DEF STATUS_LIMIT
    <3>2. status = failed % 256
      BY DEF IInv, AtTheEnd, STATUS_LIMIT
    <3> HIDE DEF n
    <3>3. failed < 256
      BY <2>2, <2>5, <2>8, <3>1
    <3>4. QED
      BY <2>5, <3>2, <3>3
  <2>10. Listed(tests, log, n, failed_testcases)
    BY <2>1 DEF IInv, AllListed
  <2>11. \/ Lost(failed_testcases)
         \/ {tests[failed_testcases[i]] : i \in DOMAIN failed_testcases}
              = {log[i].test : i \in FailedIn(log, n)}
    BY <2>10 DEF Listed
  <2>12. QED
    BY <2>2, <2>3, <2>4, <2>5, <2>7, <2>9, <2>11
<1>2. QED
  BY <1>1, RunnerInvariant, PTL

(* With a filter, no test runs whose name the filter does not match        *)
(* (utest.h:1196-1253, 1386).                                              *)
THEOREM FilterSound == Spec => []FilterIsSound
<1>1. IInv => FilterIsSound
  <2> SUFFICES ASSUME IInv, filter # NoFilter, NEW i \in DOMAIN log
               PROVE  Matches(filter, log[i].test)
    BY DEF FilterIsSound
  <2>1. filter \in Strings
    BY RunnerAssumption DEF IInv, Types
  <2>2. log[i].test \in Names
    <3>1. log[i] \in Entries
      BY LenProperties, ElementOfSeq DEF IInv, Types
    <3>2. QED
      BY <3>1 DEF Entries
  <2>3. log[i].test \in Strings
    BY <2>2, NamesAreStrings
  <2>4. Selects(filter, log[i].test)
    BY DEF IInv, OnlySelected, ToRun
  <2>5. QED
    BY <2>1, <2>3, <2>4, SelectedMatches
<1>2. QED
  BY <1>1, RunnerInvariant, PTL

(* A name as --list-tests prints it, given to --filter, runs that test and *)
(* nothing else (utest.h:1196-1253, 1311-1312).                            *)
THEOREM ListedNames == Spec => []ListedNameRunsItsTest
<1>1. IInv => ListedNameRunsItsTest
  <2> SUFFICES ASSUME IInv, pc = "returned", filter \in ToSet(Registered)
               PROVE  {log[i].test : i \in DOMAIN log} = {filter}
    BY DEF ListedNameRunsItsTest
  <2> DEFINE a == SelectedIn(tests, filter, Len(tests))
  <2>1. Looping /\ index = Len(tests) + 1 /\ Position = index - 1
    BY DEF IInv, AtTheEnd, Looping, Position, InTest
  <2>2. Permuted(tests) /\ Len(tests) \in Nat /\ DOMAIN tests = 1 .. Len(tests)
    BY <2>1, LoopFacts
  <2>3. Position = Len(tests)
    BY <2>1, <2>2
  <2>4. {log[i].test : i \in DOMAIN log} = {tests[i] : i \in a}
    BY <2>1, <2>3 DEF IInv, AllRan, RanUpTo
  <2>5. /\ filter # NoFilter /\ Wildcard \notin ToSet(filter)
        /\ \A name \in ToSet(Registered) : name \in Strings
    <3>1. \A name \in ToSet(Registered) : name \in Strings
      BY NamesAreStrings DEF Names
    <3>2. QED
      BY <3>1, RunnerAssumption
  <2>6. \A i \in 1 .. Len(tests) : tests[i] \in ToSet(Registered)
    BY <2>2 DEF Permuted, ToSet, Names
  <2>7. \A i \in 1 .. Len(tests) : RunsUnder(filter, tests[i]) <=> filter = tests[i]
    BY <2>5, <2>6, PlainFilter DEF RunsUnder
  <2>8. \E i \in 1 .. Len(tests) : tests[i] = filter
    BY <2>2 DEF Permuted, ToSet, Names
  <2>9. a = {i \in 1 .. Len(tests) : filter = tests[i]}
    BY <2>7 DEF SelectedIn
  <2> HIDE DEF a
  <2>10. QED
    BY <2>4, <2>8, <2>9
<1>2. QED
  BY <1>1, RunnerInvariant, PTL
=============================================================================
