----------------------------- MODULE AtomicSaves -----------------------------
(***************************************************************************)
(* What save and destroy of CT::Model promise to the program that calls    *)
(* them, with no locks, buffers or positions: a call changes at most one   *)
(* row, once and at one instant; save ends without an exception only after *)
(* the row took every pending change; an exception means that nothing was  *)
(* changed and that the pending changes are still there.                   *)
(***************************************************************************)
CONSTANTS Clients, Slots, Fields, Row, Values, None, Any, Key(_)

VARIABLES
  rows,      \* the table
  call,      \* "gone" (no instance), "idle", or the call in progress
  pending,   \* what the next save has to store, Any where nothing changed
  isNew,     \* the instance has no row yet
  applied    \* the clients whose call in progress has taken effect

vars == <<rows, call, pending, isNew, applied>>

NothingPending == [f \in Fields |-> Any]
Pendings == [Fields -> Values \cup {Any}]

Agrees(r, p) == \A f \in Fields : p[f] = Any \/ r[f] = p[f]
KeyUnused(key, s) == \A t \in Slots \ {s} : rows[t] = None \/ Key(rows[t]) # key

Init ==
  /\ rows = [s \in Slots |-> None]
  /\ call = [c \in Clients |-> "gone"]
  /\ pending = [c \in Clients |-> NothingPending]
  /\ isNew = [c \in Clients |-> FALSE]
  /\ applied = {}

\* The program replaces its instance or changes it: never during a call.
Edit(c) ==
  /\ call[c] \in {"gone", "idle"}
  /\ pending'[c] \in Pendings
  /\ pending' = [pending EXCEPT ![c] = pending'[c]]
  /\ \/ call[c] = "gone" /\ \E new \in BOOLEAN : isNew' = [isNew EXCEPT ![c] = new]
     \/ call[c] = "idle" /\ UNCHANGED isNew
  /\ call' = [call EXCEPT ![c] = "idle"]
  /\ UNCHANGED <<rows, applied>>

Start(c, kind) ==
  /\ call[c] = "idle"
  /\ kind = "create" => isNew[c]
  /\ kind \in {"update", "destroy"} => ~isNew[c]
  /\ call' = [call EXCEPT ![c] = kind]
  /\ UNCHANGED <<rows, pending, isNew, applied>>

Change(c, s, r) ==
  /\ c \notin applied
  /\ rows' = [rows EXCEPT ![s] = r]
  /\ applied' = applied \cup {c}
  /\ UNCHANGED <<call, pending, isNew>>

Create(c) ==
  /\ call[c] = "create"
  /\ \E s \in Slots, r \in Row :
       rows[s] = None /\ Agrees(r, pending[c]) /\ KeyUnused(Key(r), s) /\ Change(c, s, r)

Update(c) ==
  /\ call[c] = "update"
  /\ \E s \in Slots, r \in Row :
       rows[s] # None /\ Agrees(r, pending[c]) /\ KeyUnused(Key(r), s) /\ Change(c, s, r)

Remove(c) ==
  /\ call[c] = "destroy"
  /\ \E s \in Slots : rows[s] # None /\ Change(c, s, None)

\* The call ends without an exception.
Return(c) ==
  /\ call[c] \in {"create", "update"} /\ c \in applied
  /\ call' = [call EXCEPT ![c] = "idle"]
  /\ pending' = [pending EXCEPT ![c] = NothingPending]
  /\ isNew' = [isNew EXCEPT ![c] = FALSE]
  /\ applied' = applied \ {c}
  /\ UNCHANGED rows

\* The call ends with an exception; destroy also ends so without one.
GiveUp(c) ==
  /\ \/ call[c] \in {"create", "update"} /\ c \notin applied
     \/ call[c] = "destroy"
  /\ call' = [call EXCEPT ![c] = "idle"]
  /\ applied' = applied \ {c}
  /\ UNCHANGED <<rows, pending, isNew>>

\* The instance is dropped, or its process ends at any point of a call.
Vanish(c) ==
  /\ call' = [call EXCEPT ![c] = "gone"]
  /\ pending' = [pending EXCEPT ![c] = NothingPending]
  /\ isNew' = [isNew EXCEPT ![c] = FALSE]
  /\ applied' = applied \ {c}
  /\ UNCHANGED rows

Next ==
  \E c \in Clients :
    \/ Edit(c)
    \/ \E kind \in {"create", "update", "destroy"} : Start(c, kind)
    \/ Create(c)
    \/ Update(c)
    \/ Remove(c)
    \/ Return(c)
    \/ GiveUp(c)
    \/ Vanish(c)

Spec == Init /\ [][Next]_vars
=============================================================================
