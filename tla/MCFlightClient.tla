--------------------------- MODULE MCFlightClient ---------------------------
(***************************************************************************)
(* Small responses.  An object refers to at most two chunks, in any order, *)
(* itself included; one row of a response may be an error or a module.     *)
(***************************************************************************)
EXTENDS FlightClient

MCIds == 0..2

Object(refs) == [kind |-> "model", refs |-> refs]
Direct1(i) == [to |-> i, lazy |-> FALSE]
Objects ==
  {Object(<<>>)} \cup {Object(<<r>>) : r \in [to : MCIds, lazy : BOOLEAN]}
  \cup {Object(<<Direct1(i), Direct1(j)>>) : i, j \in MCIds}

Others == {[kind |-> k, refs |-> <<>>] : k \in {"error", "module", "broken_module"}}

MCResponses ==
  [MCIds -> Objects]
  \cup {[r EXCEPT ![2] = o] : r \in [MCIds -> Objects], o \in Others}
=============================================================================
