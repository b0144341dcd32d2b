------------------------------ MODULE MCRedactor ------------------------------
(***************************************************************************)
(* Redactor for TLC: texts around the caps, with matches that grow and     *)
(* that shrink them.                                                       *)
(***************************************************************************)
EXTENDS Redactor

SomeTexts ==
    {[raw |-> 0, red |-> 0, hits |-> 0],
     [raw |-> 1, red |-> 2, hits |-> 1],
     [raw |-> 2, red |-> 2, hits |-> 0],
     [raw |-> 2, red |-> 3, hits |-> 2],
     [raw |-> 3, red |-> 1, hits |-> 1],
     [raw |-> 3, red |-> 3, hits |-> 0]}

===============================================================================
