----------------------------- MODULE TestFilter -----------------------------
(***************************************************************************)
(* utest_should_filter_test: which test cases a --filter leaves to run.    *)
(* Names and filters are sequences of characters; the 0 behind the last of *)
(* them is not part of the sequence.                                       *)
(***************************************************************************)
EXTENDS Integers, Sequences

Wildcard == "*"
End      == "\\0"

(* What a pointer to char points to. *)
Strings == Seq(STRING \ {End})

At(string, i) == IF i <= Len(string) THEN string[i] ELSE End

(* Mutant: whatever follows in the name is accepted. *)
AcceptPrefix(filter, f, c, d) == c = End

(* Mutant: a filter must end in a wildcard. *)
AcceptWildcardOnly(filter, f, c, d) == c = End /\ f > 1 /\ filter[f - 1] = Wildcard

(* Behind the loops, at position f: the filter is used up, and what is     *)
(* left of the name is covered by a wildcard at its end.                   *)
Accept(filter, f, c, d) ==
  c = End /\ (d = End \/ (f > 1 /\ filter[f - 1] = Wildcard))

(* The loops are at position f of the filter and n of the name; w is the   *)
(* wildcard whose loop they are in, or 0.                                  *)
Start == [f |-> 1, n |-> 1, w |-> 0, verdict |-> "none"]

(* An iteration of either loop.  After a mismatch behind a wildcard the    *)
(* scan goes on behind the wildcard and behind the character it is at.     *)
Iterate(filter, name, s) ==
  LET c == At(filter, s.f)
      d == At(name, s.n)
      Decide(selected) == [s EXCEPT !.verdict = IF selected THEN "selected" ELSE "filtered"]
      GoOn(f, n, w)    == [f |-> f, n |-> n, w |-> w, verdict |-> "none"]
  IN  IF s.verdict # "none"        THEN s
      ELSE IF s.w > 0 /\ d = End   THEN Decide(c = End)
      ELSE IF c = End \/ d = End   THEN Decide(Accept(filter, s.f, c, d))
      ELSE IF c = Wildcard         THEN GoOn(s.f + 1, s.n, s.f)
      ELSE IF c = d                THEN GoOn(s.f + 1, s.n + 1, s.w)
      ELSE IF s.w > 0              THEN GoOn(s.w + 1, s.n + 1, s.w)
      ELSE Decide(FALSE)

(* Each iteration but the last goes on in the filter or in the name.       *)
Iterations(filter, name) == (Len(filter) + 1) * (Len(name) + 1)

Scan(filter, name) ==
  LET scan[i \in 0 .. Iterations(filter, name)] ==
        IF i = 0 THEN Start ELSE Iterate(filter, name, scan[i - 1])
  IN  scan

Selects(filter, name) ==
  Scan(filter, name)[Iterations(filter, name)].verdict = "selected"

(* What a filter is meant to select: a wildcard stands for any characters. *)
(* Ends(filter, name)[i] are the positions in the name up to which the     *)
(* first i characters of the filter stand for all of it.                   *)
Ends(filter, name) ==
  LET ends[i \in 0 .. Len(filter)] ==
        IF i = 0 THEN {0}
        ELSE LET before == ends[i - 1]
             IN  IF filter[i] = Wildcard
                 THEN {j \in 0 .. Len(name) : \E k \in before : k <= j}
                 ELSE {j \in 1 .. Len(name) : j - 1 \in before /\ name[j] = filter[i]}
  IN  ends

Matches(filter, name) == Len(name) \in Ends(filter, name)[Len(filter)]
=============================================================================
