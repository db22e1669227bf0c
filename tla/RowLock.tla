------------------------------- MODULE RowLock -------------------------------
(***************************************************************************)
(* What with_write_lock! (lib/ctdb/record.rb) promises to processes that   *)
(* use it: while one is inside a block on a row, no other is.  How often   *)
(* it asks, whom the server refuses and what an exception does are not     *)
(* seen here.                                                              *)
(***************************************************************************)
CONSTANTS Clients, Rows

VARIABLE inside   \* the processes that have each row to themselves

Init == inside = [r \in Rows |-> {}]

Enter(c, r) == inside[r] = {} /\ inside' = [inside EXCEPT ![r] = {c}]

\* The end of the block, of the process, or of its lock.
Leave(c, S) == inside' = [r \in Rows |-> IF r \in S THEN inside[r] \ {c} ELSE inside[r]]

Next == \E c \in Clients : \/ \E r \in Rows : Enter(c, r)
                           \/ \E S \in SUBSET Rows : Leave(c, S)

Spec == Init /\ [][Next]_inside
=============================================================================
