-------------------------- MODULE MCTraversalCache --------------------------
(* Values for TLC: f1, f2 and f3 are opened under one name, f3 after the   *)
(* directory was replaced there; f4 is opened under another name.          *)
EXTENDS TraversalCache

CONSTANTS f1, f2, f3, f4, src, lib, old, new, other

MCKeyOf == [f \in File |-> IF f = f4 THEN lib ELSE src]
MCIdOf  == [f \in File |-> CASE f \in {f1, f2} -> old [] f = f3 -> new [] OTHER -> other]

MCContent ==
  [i \in Identity |-> CASE i = old -> <<"a", "b", "c">> [] i = new -> <<"b", "d">>
                        [] OTHER -> <<"x", "y">>]
=============================================================================
