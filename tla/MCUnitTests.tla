---------------------------- MODULE MCUnitTests -----------------------------
(* An instance of UnitTests for TLC. *)
EXTENDS UnitTests

CONSTANT MaxFilter   (* The length of the filters. *)

Names == <<<<"a", "b", "a">>, <<"a", "b">>, <<"b", "a", "a", "b">>, <<"b">>>>

AnyFilter == UNION {[1 .. n -> {"a", "b", Wildcard}] : n \in 0 .. MaxFilter}

Option(o)    == [option |-> o]
FilterBy(f)  == [option |-> "--filter", value |-> f]

(* Every filter alone, and options in combination: a filter that a later   *)
(* one replaces, a shuffle with and without a filter, and the options that *)
(* end the program before and after others.                                *)
Lines ==
  {<<FilterBy(f)>> : f \in Filters}
  \union {<<>>, <<Option("--random-order")>>,
          <<FilterBy(<<"b">>), FilterBy(<<"*", "b">>)>>,
          <<FilterBy(<<"a", "*">>), Option("--random-order")>>,
          <<Option("--list-tests"), Option("--help")>>,
          <<Option("--random-order"), Option("--help")>>}
=============================================================================
