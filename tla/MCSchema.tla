------------------------------ MODULE MCSchema -------------------------------
(***************************************************************************)
(* A table of at most two fields with lengths 2 and 4 and one index of at  *)
(* most two segments, over three names, where another program may have     *)
(* stored a table with an index of the old kind.                           *)
(***************************************************************************)
EXTENDS Schema

CONSTANTS a, b, c

MCLegacy ==
  {[fields  |-> <<[name |-> a, length |-> 4], [name |-> b, length |-> 2]>>,
    indexes |-> <<[name |-> a, dups |-> TRUE,
                   segments |-> <<[field |-> 1, mode |-> "REGSEG"],
                                  [field |-> 2, mode |-> "SCHSEG"]>>]>>]}
=============================================================================
