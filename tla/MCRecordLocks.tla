---------------------------- MODULE MCRecordLocks ----------------------------
(* Small instances of RecordLocks for TLC. *)
EXTENDS RecordLocks

CONSTANTS a, b, a1, a2, b1, r1, r2

MCClients == {a, b}
MCHandles == {a1, a2, b1}
MCRows    == {r1, r2}
MCOwner   == [h \in MCHandles |-> IF h = b1 THEN b ELSE a]

\* One process locks records by hand, the other its whole session.
MCHandModes    == [c \in MCClients |-> IF c = a THEN {"read"} ELSE {}]
MCSessionModes == [c \in MCClients |-> IF c = a THEN {} ELSE {"read", "write"}]
MCMaxDepth     == [c \in MCClients |-> IF c = a THEN 2 ELSE 1]

\* One record handle moves between rows; the two others meet it on the first.
MCVisits == [h \in MCHandles |-> IF h = a1 THEN MCRows ELSE {r1}]
=============================================================================
