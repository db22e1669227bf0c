------------------------------ MODULE Traversal ------------------------------
(***************************************************************************)
(* What CT::Query#each (lib/ctdb/query.rb) promises to a program that goes *)
(* through the records of a table while others insert and delete some: in  *)
(* the order of an index it is given records that are there, none twice,   *)
(* and, unless it is told of an exception, none is passed over that is     *)
(* there all the time.  The record's buffer and position, the filter and   *)
(* the set are not seen here.                                              *)
(***************************************************************************)
EXTENDS Sequences

CONSTANTS
  Items,   \* what the table may hold
  Orders   \* sets of pairs of items, an earlier one and a later one

VARIABLES
  there,    \* what the table holds
  running,  \* a traversal is in progress
  kept,     \* and keeps its promise: the program has left the record alone
  raised,   \* the program's last call ended with an exception
  order,    \* the order it follows
  given,    \* what it has given, in sequence
  owed      \* what it still has to give

vars == <<there, running, kept, raised, order, given, owed>>

Init == /\ there \in SUBSET Items
        /\ running = FALSE /\ kept = FALSE /\ raised = FALSE /\ order = {} /\ given = <<>> /\ owed = {}

Nothing == kept' = FALSE /\ order' = {} /\ given' = <<>> /\ owed' = {}

\* It owes all that is wanted and there, and gives the first of it; where there is nothing, it
\* gives something all the same.
Begin(o, wanted, x) ==
  /\ ~running /\ running' = TRUE
  /\ wanted # {} => x \in wanted
  /\ \A y \in wanted \ {x} : <<x, y>> \in o
  /\ kept' = TRUE /\ order' = o /\ given' = <<x>> /\ owed' = wanted \ {x}
  /\ UNCHANGED <<there, raised>>

\* A traversal that begins in the middle promises nothing.
BeginAnywhere == ~running /\ running' = TRUE /\ Nothing /\ UNCHANGED <<there, raised>>

\* What is given is there, comes after all that was given, and before all still owed.
Give(x) ==
  /\ running /\ kept
  /\ x \in there
  /\ \A k \in DOMAIN given : <<given[k], x>> \in order
  /\ \A y \in owed \ {x} : <<x, y>> \in order
  /\ given' = Append(given, x) /\ owed' = owed \ {x}
  /\ UNCHANGED <<there, running, kept, raised, order>>

\* Where the traversal returns, nothing is owed.
End == running /\ running' = FALSE /\ raised' = FALSE /\ owed = {} /\ Nothing /\ UNCHANGED there

\* An exception ends it anywhere, and is not kept from the program.
Break == running /\ running' = FALSE /\ raised' = TRUE /\ Nothing /\ UNCHANGED there

\* The program moves the record itself.
Disturb == raised' \in BOOLEAN /\ Nothing /\ UNCHANGED <<there, running>>

Insert(x) ==
  /\ x \notin there /\ there' = there \cup {x}
  /\ UNCHANGED <<running, kept, raised, order, given, owed>>

\* What is no longer there is no longer owed.
Delete(x) ==
  /\ x \in there /\ there' = there \ {x} /\ owed' = owed \ {x}
  /\ UNCHANGED <<running, kept, raised, order, given>>

Next ==
  \/ Disturb \/ BeginAnywhere \/ End \/ Break
  \/ \E x \in Items : Give(x) \/ Insert(x) \/ Delete(x)
  \/ \E o \in Orders, wanted \in SUBSET there, x \in Items : Begin(o, wanted, x)

Spec == Init /\ [][Next]_vars
=============================================================================
