------------------------ MODULE PersistenceRefinement ------------------------
(***************************************************************************)
(* Proofs that Persistence implements AtomicSaves and RowLock: the initial *)
(* states map to initial states, and every step of a client to a step or a *)
(* stutter.                                                                *)
(***************************************************************************)
EXTENDS PersistenceProofs

\* create_record runs for a new instance, update_record and destroy for another.
CallFitsInstance ==
  \A c \in Clients :
    /\ pc[c] \in {"next_key", "insert", "inserted"} => newRecord[c]
    /\ pc[c] \in {"update", "lock", "write", "written", "failed", "destroy", "delete", "deleted"}
         => ~newRecord[c]

RInv == IInv /\ CallFitsInstance

\* The steps of a call in progress.
LEMMA CallAtSteps ==
  /\ CallAt("none") = "gone"
  /\ CallAt("idle") = "idle"
  /\ \A p \in {"next_key", "insert", "inserted"} : CallAt(p) = "create"
  /\ \A p \in {"update", "lock", "write", "written", "failed"} : CallAt(p) = "update"
  /\ \A p \in {"destroy", "delete", "deleted"} : CallAt(p) = "destroy"
  BY DEF CallAt

\* An instance without assignments has nothing pending.
LEMMA NothingPendingIn ==
  ASSUME NEW m, NEW new
  PROVE  PendingIn(m, AllClean, new) = Promise!NothingPending
  BY DEF PendingIn, AllClean, Promise!NothingPending

\* What is pending is what AtomicSaves allows to be pending.
LEMMA PendingTyped ==
  ASSUME NEW m \in Attributes, NEW d \in AttrMaps({Nil, Clean}), NEW new
  PROVE  PendingIn(m, d, new) \in Promise!Pendings
  BY MaxSeqIsPositive DEF PendingIn, Attributes, AttrMaps, Fields, Promise!Pendings

\* A step changes what AtomicSaves sees of its own client only.
LEMMA OneCall ==
  ASSUME TypeOK, NEW c \in Clients, Step(c)
  PROVE  /\ Calls' = [Calls EXCEPT ![c] = Calls'[c]]
         /\ Pendings' = [Pendings EXCEPT ![c] = Pendings'[c]]
         /\ Calls'[c] = Calls[c] => Calls' = Calls
         /\ Applied' = IF c \in Applied' THEN Applied \cup {c} ELSE Applied \ {c}
         /\ (c \in Applied' <=> c \in Applied) => Applied' = Applied
<1>1. \A d \in Clients \ {c} : Untouched(d)
  BY OnlyOwnState
<1>2. Calls' = [Calls EXCEPT ![c] = Calls'[c]] /\ (Calls'[c] = Calls[c] => Calls' = Calls)
  BY <1>1 DEF Untouched, Calls
<1>3. Pendings' = [Pendings EXCEPT ![c] = Pendings'[c]]
  BY <1>1 DEF Untouched, Pendings
<1>4. Applied' = IF c \in Applied' THEN Applied \cup {c} ELSE Applied \ {c}
  BY <1>1 DEF Untouched, Applied
<1>5. (c \in Applied' <=> c \in Applied) => Applied' = Applied
  BY <1>4
<1> QED
  BY <1>2, <1>3, <1>4, <1>5

\* Init implements Init.
LEMMA MapInit == Init => Promise!Init
<1> SUFFICES ASSUME Init PROVE Promise!Init
  OBVIOUS
<1>1. Calls = [c \in Clients |-> "gone"]
  BY CallAtSteps DEF Init, Calls
<1>2. Pendings = [c \in Clients |-> Promise!NothingPending]
  BY NothingPendingIn DEF Init, Pendings
<1>3. Applied = {}
  BY DEF Init, Applied
<1> QED
  BY <1>1, <1>2, <1>3 DEF Init, Promise!Init

\* A call runs for the kind of instance it was started for.
LEMMA CallFitsStep ==
  ASSUME TypeOK, CallFitsInstance, NEW c \in Clients, Step(c)
  PROVE  CallFitsInstance'
<1> USE DEF TypeOK, Goto, server, model, record
<1> DEFINE Fits(d) ==
      /\ pc[d] \in {"next_key", "insert", "inserted"} => newRecord[d]
      /\ pc[d] \in {"update", "lock", "write", "written", "failed",
                    "destroy", "delete", "deleted"} => ~newRecord[d]
<1> SUFFICES ASSUME NEW d \in Clients PROVE Fits(d)'
  BY DEF CallFitsInstance
<1>1. Fits(d)
  BY DEF CallFitsInstance
<1>2. CASE d # c
  <2>1. Untouched(d)
    BY <1>2, OnlyOwnState
  <2>2. newRecord'[d] = newRecord[d] /\ pc'[d] = pc[d]
    BY <2>1 DEF Untouched
  <2> QED  BY <1>1, <2>2, Zenon
<1>3. CASE d = c /\ Request(c)
  <2>1. CASE Save(c)
    BY <1>3, <2>1 DEF Save
  <2>2. CASE Destroy(c)
    BY <1>3, <2>2 DEF Destroy, Persisted, MarkDestroyed
  <2> QED
    BY <1>1, <1>3, <2>1, <2>2 DEF Request, New, Load, LoadNothing, InitWith, WriteAttribute,
                                  Forget, Crash
<1>4. CASE d = c /\ CreateStep(c)
  BY <1>1, <1>4 DEF CreateStep, ReadLast, ReadLastFails, Number, Raise, Finish, Insert,
                    InsertFails, Created
<1>5. CASE d = c /\ UpdateStep(c)
  BY <1>1, <1>5 DEF UpdateStep, UpdateFind, Find, UpdateNotFound, Raise, Finish, Lock,
                    LockRefused, Write, WriteFails, Updated, UpdateRaises
<1>6. CASE d = c /\ DestroyStep(c)
  BY <1>1, <1>6 DEF DestroyStep, DestroyFind, Find, DestroyNotFound, DestroyRaises, Raise,
                    Finish, MarkDestroyed, Delete, DeleteFails, Deleted
<1> QED
  BY <1>2, <1>3, <1>4, <1>5, <1>6 DEF Step, CallStep

-----------------------------------------------------------------------------
(* Every step implements a step of AtomicSaves, or a stutter *)

\* A call that ends and changes no row.
LEMMA MapGiveUp ==
  ASSUME RInv, NEW c \in Clients, Step(c), Finish(c), rows' = rows,
         attributes' = attributes, dirty' = dirty, newRecord' = newRecord,
         \/ pc[c] \in {"next_key", "insert", "update", "failed"}
         \/ pc[c] \in {"destroy", "delete", "deleted"}
  PROVE  Promise!GiveUp(c)
<1> USE DEF RInv, IInv, TypeOK
<1>1. pc'[c] = "idle"
  BY DEF Finish, Goto
<1>2. Calls'[c] = "idle" /\ c \notin Applied' /\ Pendings' = Pendings
  BY <1>1, CallAtSteps DEF Calls, Applied, Pendings
<1>3. Calls' = [Calls EXCEPT ![c] = "idle"] /\ Applied' = Applied \ {c}
  BY <1>2, OneCall
<1>4. \/ Calls[c] \in {"create", "update"} /\ c \notin Applied
      \/ Calls[c] = "destroy"
  BY CallAtSteps DEF Calls, Applied
<1> QED
  BY <1>2, <1>3, <1>4 DEF Promise!GiveUp

\* save returns after its row was written.
LEMMA MapReturn ==
  ASSUME RInv, NEW c \in Clients, Step(c), Created(c) \/ Updated(c)
  PROVE  Promise!Return(c)
<1> USE DEF RInv, IInv, TypeOK
<1>1. /\ pc[c] \in {"inserted", "written"} /\ pc'[c] = "idle"
      /\ dirty'[c] = AllClean /\ newRecord' = [newRecord EXCEPT ![c] = FALSE] /\ rows' = rows
  BY DEF Created, Updated, Finish, Goto, server
<1>2. /\ Calls[c] \in {"create", "update"} /\ c \in Applied
      /\ Calls'[c] = "idle" /\ c \notin Applied'
  BY <1>1, CallAtSteps DEF Calls, Applied
<1>3. Pendings'[c] = Promise!NothingPending
  BY <1>1, NothingPendingIn DEF Pendings
<1> QED
  BY <1>1, <1>2, <1>3, OneCall DEF Promise!Return

\* The instance goes, with or without a call in progress.
LEMMA MapVanish ==
  ASSUME RInv, NEW c \in Clients, Step(c), Forget(c) \/ Crash(c)
  PROVE  Promise!Vanish(c)
<1> USE DEF RInv, IInv, TypeOK
<1>1. /\ pc'[c] = "none" /\ dirty'[c] = AllClean
      /\ newRecord' = [newRecord EXCEPT ![c] = FALSE] /\ rows' = rows
  BY DEF Forget, Crash, Goto, server
<1>2. Calls'[c] = "gone" /\ c \notin Applied'
  BY <1>1, CallAtSteps DEF Calls, Applied
<1>3. Pendings'[c] = Promise!NothingPending
  BY <1>1, NothingPendingIn DEF Pendings
<1> QED
  BY <1>1, <1>2, <1>3, OneCall DEF Promise!Vanish

\* A new instance, or another value in it.
LEMMA MapEdit ==
  ASSUME RInv, RInv', NEW c \in Clients, Step(c), rows' = rows, pc'[c] = "idle",
         \/ pc[c] = "none" /\ \E new \in BOOLEAN : newRecord' = [newRecord EXCEPT ![c] = new]
         \/ pc[c] = "idle" /\ newRecord' = newRecord
  PROVE  Promise!Edit(c)
<1> USE DEF RInv, IInv, TypeOK
<1>1. Pendings'[c] \in Promise!Pendings
  BY PendingTyped DEF Pendings
<1>2. /\ Calls[c] = (IF pc[c] = "none" THEN "gone" ELSE "idle") /\ Calls'[c] = "idle"
      /\ c \notin Applied /\ c \notin Applied'
  BY CallAtSteps DEF Calls, Applied
<1>3. Applied' = Applied
  BY <1>2, OneCall
<1> QED
  BY <1>1, <1>2, <1>3, OneCall DEF Promise!Edit

\* A new row takes what is pending, and a key no row has.
LEMMA MapCreate ==
  ASSUME RInv, NEW c \in Clients, Step(c), NEW s \in Slots, Insert(c, s)
  PROVE  Promise!Create(c)
<1> USE DEF RInv, IInv, TypeOK
<1> DEFINE r == attributes[c]
<1>1. /\ rows[s] = None /\ rows' = [rows EXCEPT ![s] = r]
      /\ pc[c] = "insert" /\ pc' = [pc EXCEPT ![c] = "inserted"] /\ UNCHANGED model
  BY DEF Insert, Goto
<1>2. r \in Row
  BY SettableIsRow DEF Insert, AllSettable
<1>3. newRecord[c]
  BY <1>1 DEF CallFitsInstance
<1>4. Promise!Agrees(r, Pendings[c])
  BY DEF Promise!Agrees, Pendings, PendingIn
<1>5. Promise!KeyUnused(Key(r), s)
  BY DEF Insert, KeyFree, Present, Promise!KeyUnused
<1>6. Calls[c] = "create" /\ Calls'[c] = "create" /\ c \notin Applied /\ c \in Applied'
  BY <1>1, CallAtSteps DEF Calls, Applied
<1>7. Calls' = Calls /\ Pendings' = Pendings /\ Applied' = Applied \cup {c}
  <2>1. Pendings' = Pendings
    BY <1>1 DEF Pendings, model
  <2> QED  BY <1>6, <2>1, OneCall
<1>8. Promise!Change(c, s, r)
  BY <1>1, <1>6, <1>7 DEF Promise!Change, model
<1> QED
  BY <1>1, <1>2, <1>4, <1>5, <1>6, <1>8 DEF Promise!Create

\* So does the row that is updated.
LEMMA MapUpdate ==
  ASSUME RInv, NEW c \in Clients, Step(c), Write(c)
  PROVE  Promise!Update(c)
<1> USE DEF RInv, IInv, TypeOK
<1> DEFINE r == Overlay(c)
           s == offset[c]
<1>1. /\ rows[s] # None /\ rows' = [rows EXCEPT ![s] = r]
      /\ pc[c] = "write" /\ pc' = [pc EXCEPT ![c] = "written"] /\ UNCHANGED model
  BY DEF Write, Goto
<1>2. r \in Row /\ s \in Slots
  BY <1>1, WrittenIsRow DEF Positioned
<1>3. Promise!Agrees(r, Pendings[c])
  BY DEF Promise!Agrees, Pendings, PendingIn, Overlay
<1>4. Promise!KeyUnused(Key(r), s)
  BY DEF Write, KeyFree, Present, Promise!KeyUnused
<1>5. Calls[c] = "update" /\ Calls'[c] = "update" /\ c \notin Applied /\ c \in Applied'
  BY <1>1, CallAtSteps DEF Calls, Applied
<1>6. Calls' = Calls /\ Pendings' = Pendings /\ Applied' = Applied \cup {c}
  <2>1. Pendings' = Pendings
    BY <1>1 DEF Pendings, model
  <2> QED  BY <1>5, <2>1, OneCall
<1>7. Promise!Change(c, s, r)
  BY <1>1, <1>5, <1>6 DEF Promise!Change, model
<1> QED
  BY <1>1, <1>2, <1>3, <1>4, <1>5, <1>7 DEF Promise!Update

\* delete! removes one row.
LEMMA MapRemove ==
  ASSUME RInv, NEW c \in Clients, Step(c), Delete(c)
  PROVE  Promise!Remove(c)
<1> USE DEF RInv, IInv, TypeOK
<1> DEFINE s == offset[c]
<1>1. /\ rows[s] # None /\ rows' = [rows EXCEPT ![s] = None]
      /\ pc[c] = "delete" /\ pc' = [pc EXCEPT ![c] = "deleted"] /\ UNCHANGED model
  BY DEF Delete, Unlocked, Goto
<1>2. s \in Slots
  BY <1>1 DEF Positioned
<1>3. Calls[c] = "destroy" /\ Calls'[c] = "destroy" /\ c \notin Applied /\ c \in Applied'
  BY <1>1, CallAtSteps DEF Calls, Applied
<1>4. Calls' = Calls /\ Pendings' = Pendings /\ Applied' = Applied \cup {c}
  <2>1. Pendings' = Pendings
    BY <1>1 DEF Pendings, model
  <2> QED  BY <1>3, <2>1, OneCall
<1>5. Promise!Change(c, s, None)
  BY <1>1, <1>3, <1>4 DEF Promise!Change, model
<1> QED
  BY <1>1, <1>2, <1>3, <1>5 DEF Promise!Remove

\* save and destroy start with the kind of instance they are for.
LEMMA MapStart ==
  ASSUME RInv, NEW c \in Clients, Step(c), Save(c) \/ Destroy(c), pc'[c] # "idle"
  PROVE  \E kind \in {"create", "update", "destroy"} : Promise!Start(c, kind)
<1> USE DEF RInv, IInv, TypeOK
<1> DEFINE kind == Calls'[c]
<1>1. pc[c] = "idle" /\ UNCHANGED <<rows, model>>
  BY DEF Save, Destroy, server
<1>2. \/ pc'[c] \in {"next_key", "insert"} /\ newRecord[c]
      \/ pc'[c] = "update" /\ ~newRecord[c]
      \/ pc'[c] = "destroy" /\ ~newRecord[c]
  BY DEF Save, Destroy, Goto, Persisted
<1>3. Calls[c] = "idle" /\ c \notin Applied /\ c \notin Applied'
  BY <1>1, <1>2, CallAtSteps DEF Calls, Applied
<1>4. \/ kind = "create" /\ newRecord[c]
      \/ kind \in {"update", "destroy"} /\ ~newRecord[c]
  BY <1>2, CallAtSteps DEF Calls
<1>5. Calls' = [Calls EXCEPT ![c] = kind] /\ Pendings' = Pendings /\ Applied' = Applied
  <2>1. Pendings' = Pendings
    BY <1>1 DEF Pendings, model
  <2> QED  BY <1>3, <2>1, OneCall
<1>6. Promise!Start(c, kind)
  BY <1>1, <1>3, <1>4, <1>5 DEF Promise!Start, model
<1> QED
  BY <1>4, <1>6

\* A step of a call that AtomicSaves does not see.
LEMMA MapStutter ==
  ASSUME RInv, NEW c \in Clients, Step(c), rows' = rows, newRecord' = newRecord,
         Calls'[c] = Calls[c], c \in Applied' <=> c \in Applied, Pendings' = Pendings
  PROVE  UNCHANGED Promise!vars
<1> QED
  BY OneCall DEF Promise!vars, RInv, IInv

\* What the program asks of the instance.
LEMMA MapRequest ==
  ASSUME RInv, RInv', NEW c \in Clients, Step(c), Request(c)
  PROVE  Promise!Next \/ UNCHANGED Promise!vars
<1> USE DEF RInv, IInv, TypeOK, server, model, Goto
<1>1. ASSUME NEW a \in NewAttribs, New(c, a) PROVE Promise!Edit(c)
  <2>1. /\ rows' = rows /\ pc[c] = "none" /\ pc'[c] = "idle"
        /\ newRecord' = [newRecord EXCEPT ![c] = TRUE]
    BY <1>1 DEF New
  <2> QED  BY <2>1, MapEdit
<1>2. ASSUME NEW a, InitWith(c, a) PROVE Promise!Edit(c)
  <2>1. /\ rows' = rows /\ pc[c] = "none" /\ pc'[c] = "idle"
        /\ newRecord' = [newRecord EXCEPT ![c] = FALSE]
    BY <1>2 DEF InitWith
  <2> QED  BY <2>1, MapEdit
<1>3. ASSUME NEW a \in Assignments, WriteAttribute(c, a[1], a[2]) PROVE Promise!Edit(c)
  <2>1. rows' = rows /\ pc[c] = "idle" /\ pc'[c] = "idle" /\ newRecord' = newRecord
    BY <1>3 DEF WriteAttribute
  <2> QED  BY <2>1, MapEdit
<1>4. CASE Forget(c) \/ Crash(c)
  BY <1>4, MapVanish DEF Promise!Next
<1>5. CASE (Save(c) \/ Destroy(c)) /\ pc'[c] # "idle"
  BY <1>5, MapStart DEF Promise!Next
<1>6. CASE (Save(c) \/ Destroy(c)) /\ pc'[c] = "idle"
  <2>1. UNCHANGED <<rows, pc, attributes, dirty, newRecord>>
    BY <1>6 DEF Save, Destroy, MarkDestroyed
  <2>2. Calls' = Calls /\ Pendings' = Pendings /\ Applied' = Applied
    BY <2>1 DEF Calls, Pendings, Applied
  <2> QED  BY <2>1, <2>2 DEF Promise!vars
<1> QED
  BY <1>1, <1>2, <1>3, <1>4, <1>5, <1>6 DEF Request, Load, LoadNothing, Promise!Next

\* The number of a new row is create_record's own choice: nothing pending changes.
LEMMA MapNumber ==
  ASSUME RInv, NEW c \in Clients, Step(c), NEW n, NEW i, pc[c] = "next_key", Number(c, n, i)
  PROVE  UNCHANGED Promise!vars
<1> USE DEF RInv, IInv, TypeOK
<1>1. /\ rows' = rows /\ newRecord' = newRecord /\ dirty' = dirty /\ pc'[c] = "insert"
      /\ attributes' = [attributes EXCEPT ![c]["seq"] = n]
  BY DEF Number, Goto, server
<1>2. Calls'[c] = Calls[c] /\ c \notin Applied /\ c \notin Applied'
  BY <1>1, CallAtSteps DEF Calls, Applied
<1>3. Pendings'[c] = Pendings[c]
  <2>1. newRecord[c]
    BY DEF CallFitsInstance
  <2>2. \A f \in Fields : f # "seq" => attributes'[c][f] = attributes[c][f]
    BY <1>1 DEF Attributes, AttrMaps, Fields
  <2> QED  BY <1>1, <2>1, <2>2 DEF Pendings, PendingIn
<1>4. Pendings' = Pendings
  BY <1>3, OneCall DEF Pendings
<1> QED
  BY <1>1, <1>2, <1>4, MapStutter

\* The steps of create_record.
LEMMA MapCreateStep ==
  ASSUME RInv, NEW c \in Clients, Step(c), CreateStep(c)
  PROVE  Promise!Next \/ UNCHANGED Promise!vars
<1>1. ASSUME NEW s \in Slots, ReadLast(c, s) PROVE UNCHANGED Promise!vars
  BY <1>1, MapNumber DEF ReadLast
<1>2. CASE ReadLastFails(c) /\ ~Raise(c)
  BY <1>2, MapNumber DEF ReadLastFails
<1>3. CASE (ReadLastFails(c) \/ InsertFails(c)) /\ Raise(c)
  BY <1>3, MapGiveUp DEF ReadLastFails, InsertFails, Raise, server, model, Promise!Next
<1>4. ASSUME NEW s \in Slots, Insert(c, s) PROVE Promise!Next
  BY <1>4, MapCreate DEF Promise!Next
<1>5. CASE Created(c)
  BY <1>5, MapReturn DEF Promise!Next
<1> QED
  BY <1>1, <1>2, <1>3, <1>4, <1>5 DEF CreateStep, InsertFails

\* Steps that only move a call on.
LEMMA MapMove ==
  ASSUME RInv, NEW c \in Clients, Step(c), rows' = rows, UNCHANGED model,
         \/ pc[c] = "update" /\ pc'[c] = "lock"
         \/ pc[c] = "lock" /\ pc'[c] \in {"write", "failed"}
         \/ pc[c] = "write" /\ pc'[c] = "failed"
         \/ pc[c] = "destroy" /\ pc'[c] = "delete"
  PROVE  UNCHANGED Promise!vars
<1>1. Calls'[c] = Calls[c] /\ c \notin Applied /\ c \notin Applied'
  BY CallAtSteps DEF Calls, Applied
<1>2. Pendings' = Pendings
  BY DEF Pendings, model
<1> QED
  BY <1>1, <1>2, MapStutter DEF model

\* The steps of update_record.
LEMMA MapUpdateStep ==
  ASSUME RInv, NEW c \in Clients, Step(c), UpdateStep(c)
  PROVE  Promise!Next \/ UNCHANGED Promise!vars
<1> USE DEF RInv, IInv, TypeOK, server, Goto
<1>1. ASSUME NEW s \in Slots, UpdateFind(c, s) PROVE UNCHANGED Promise!vars
  BY <1>1, MapMove DEF UpdateFind, Find
<1>2. CASE UpdateNotFound(c)
  BY <1>2, MapGiveUp DEF UpdateNotFound, Raise, model, Promise!Next
<1>3. CASE Lock(c) \/ LockRefused(c) \/ WriteFails(c)
  BY <1>3, MapMove DEF Lock, LockRefused, WriteFails
<1>4. CASE Write(c)
  BY <1>4, MapUpdate DEF Promise!Next
<1>5. CASE Updated(c)
  BY <1>5, MapReturn DEF Promise!Next
<1>6. CASE UpdateRaises(c)
  BY <1>6, MapGiveUp DEF UpdateRaises, model, Promise!Next
<1> QED
  BY <1>1, <1>2, <1>3, <1>4, <1>5, <1>6 DEF UpdateStep

\* The steps of destroy.
LEMMA MapDestroyStep ==
  ASSUME RInv, NEW c \in Clients, Step(c), DestroyStep(c)
  PROVE  Promise!Next \/ UNCHANGED Promise!vars
<1> USE DEF RInv, IInv, TypeOK, server, Goto
<1>1. ASSUME NEW s \in Slots, DestroyFind(c, s) PROVE UNCHANGED Promise!vars
  BY <1>1, MapMove DEF DestroyFind, Find
<1>2. CASE DestroyRaises(c) \/ DeleteFails(c)
  BY <1>2, MapGiveUp DEF DestroyRaises, DeleteFails, Raise, model, Promise!Next
<1>3. CASE DestroyNotFound(c) \/ Deleted(c)
  BY <1>3, MapGiveUp DEF DestroyNotFound, Deleted, MarkDestroyed, Promise!Next
<1>4. CASE Delete(c)
  BY <1>4, MapRemove DEF Promise!Next
<1> QED
  BY <1>1, <1>2, <1>3, <1>4 DEF DestroyStep

-----------------------------------------------------------------------------
\* The invariant the mapping needs.
LEMMA RInvariance == Spec => []RInv
<1>1. Init => RInv
  BY InitInv DEF Init, RInv, CallFitsInstance
<1>2. RInv /\ [Next]_vars => RInv'
  <2> SUFFICES ASSUME RInv, [Next]_vars PROVE CallFitsInstance'
    BY NextInv DEF RInv
  <2>1. CASE Next
    BY <2>1, CallFitsStep DEF RInv, IInv, Next, Step
  <2>2. CASE UNCHANGED vars
    BY <2>2 DEF RInv, CallFitsInstance, vars
  <2> QED  BY <2>1, <2>2
<1> QED
  BY <1>1, <1>2, PTL DEF Spec

\* save and destroy, with their locks, buffers, server errors and crashes, implement
\* AtomicSaves: one call changes at most one row at one instant, save returns only after
\* the row took everything that was pending, and an exception leaves the table and the
\* pending changes alone.
THEOREM Refines == Spec => KeepsPromise
<1>1. RInv /\ RInv' /\ [Next]_vars => [Promise!Next]_Promise!vars
  <2> SUFFICES ASSUME RInv, RInv', [Next]_vars
               PROVE  Promise!Next \/ UNCHANGED Promise!vars
    OBVIOUS
  <2>1. ASSUME NEW c \in Clients, Step(c)
        PROVE  Promise!Next \/ UNCHANGED Promise!vars
    BY <2>1, MapRequest, MapCreateStep, MapUpdateStep, MapDestroyStep DEF Step, CallStep
  <2>2. CASE UNCHANGED vars
    BY <2>2 DEF vars, Promise!vars, Calls, Pendings, Applied
  <2> QED  BY <2>1, <2>2 DEF Next, Step
<1> QED
  BY <1>1, MapInit, RInvariance, PTL DEF Spec, KeepsPromise, Promise!Spec

-----------------------------------------------------------------------------
(* The block on a row *)

\* Another client's place in blocks is its own.
LEMMA OthersStay ==
  ASSUME TypeOK, NEW c \in Clients, Step(c), NEW d \in Clients, d # c, NEW s \in Slots
  PROVE  d \in Writing'[s] <=> d \in Writing[s]
  BY OnlyOwnState DEF Writing, Untouched

\* The lock is granted when no client is in the block on its row: each one in it would own
\* the lock.
LEMMA BlockEntered ==
  ASSUME IInv, NEW c \in Clients, Step(c), Lock(c)
  PROVE  Block!Enter(c, offset[c]) /\ offset[c] \in Slots
<1> USE DEF IInv, TypeOK
<1> DEFINE s == offset[c]
<1>1. /\ pc[c] = "lock" /\ pc' = [pc EXCEPT ![c] = "write"] /\ offset' = offset
      /\ locks[s] = None
  BY DEF Lock, Goto, Unlocked, record
<1>2. s \in Slots
  BY <1>1 DEF Positioned
<1>3. Writing[s] = {}
  BY <1>1, <1>2, NoneIsNoValue DEF Writing, LockedInsideBlock
<1>4. ASSUME NEW t \in Slots
      PROVE  Writing'[t] = IF t = s THEN {c} ELSE Writing[t]
  <2>1. c \in Writing'[t] <=> t = s
    BY <1>1 DEF Writing
  <2>2. c \notin Writing[t]
    BY <1>1 DEF Writing
  <2>3. Writing[t] \subseteq Clients /\ Writing'[t] \subseteq Clients
    BY DEF Writing
  <2>4. \A d \in Clients : d # c => (d \in Writing'[t] <=> d \in Writing[t])
    BY OthersStay
  <2>5. CASE t = s
    BY <1>3, <2>1, <2>3, <2>4, <2>5
  <2>6. CASE t # s
    <3>1. \A d \in Clients : d \in Writing'[t] <=> d \in Writing[t]
      BY <2>1, <2>2, <2>4, <2>6, Zenon
    <3>2. Writing'[t] = Writing[t]
      BY <2>3, <3>1, Zenon
    <3> QED  BY <2>6, <3>2
  <2> QED  BY <2>5, <2>6
<1>5. Writing' = [Writing EXCEPT ![s] = {c}]
  BY <1>4 DEF Writing
<1> QED
  BY <1>2, <1>3, <1>5 DEF Block!Enter

\* write! changes no client's place.
LEMMA BlockKept ==
  ASSUME IInv, NEW c \in Clients, Step(c), Write(c)
  PROVE  Writing' = Writing
<1>1. pc[c] = "write" /\ pc' = [pc EXCEPT ![c] = "written"] /\ offset' = offset
  BY DEF Write, Goto
<1> QED
  BY <1>1 DEF Writing, IInv, TypeOK

\* Any other step leaves its client outside: of a block it was in, or had never entered.
LEMMA BlockLeft ==
  ASSUME IInv, NEW c \in Clients, Step(c), pc'[c] \notin {"write", "written"}
  PROVE  Block!Leave(c, Slots)
<1>1. ASSUME NEW s \in Slots PROVE Writing'[s] = Writing[s] \ {c}
  <2>1. c \notin Writing'[s] /\ Writing[s] \subseteq Clients /\ Writing'[s] \subseteq Clients
    BY DEF Writing
  <2> QED  BY <2>1, OthersStay DEF IInv
<1> QED
  BY <1>1 DEF Block!Leave, Writing

\* The saves of any number of clients use with_write_lock! (record.rb) as RowLock promises:
\* a client enters the block on a row only when no other is in it, and every refusal,
\* exception, end of a save and crash leaves the blocks of the others as they are.
THEOREM LocksRows == Spec => SavesLockRows
<1>1. Init => Block!Init
  BY DEF Init, Block!Init, Writing
<1>2. IInv /\ [Next]_vars => [Block!Next]_Writing
  <2> SUFFICES ASSUME IInv, [Next]_vars
               PROVE  Block!Next \/ UNCHANGED Writing
    OBVIOUS
  <2>1. ASSUME NEW c \in Clients, Step(c)
        PROVE  Block!Next \/ UNCHANGED Writing
    <3>1. Lock(c) => Block!Next
      BY <2>1, BlockEntered DEF Block!Next
    <3>2. Write(c) => UNCHANGED Writing
      BY <2>1, BlockKept
    <3>3. pc'[c] \notin {"write", "written"} => Block!Next
      BY <2>1, BlockLeft DEF Block!Next
    <3> QED  BY <2>1, <3>1, <3>2, <3>3, EntersBy DEF IInv
  <2>2. CASE UNCHANGED vars
    BY <2>2 DEF vars, Writing
  <2> QED  BY <2>1, <2>2 DEF Next, Step
<1> QED
  BY <1>1, <1>2, Invariance, PTL DEF Spec, SavesLockRows, Block!Spec
=============================================================================
