----------------------------- MODULE Persistence -----------------------------
(***************************************************************************)
(* CT::Model's save and destroy (lib/ctdb/model.rb) as several client      *)
(* processes run them against one table: the query that finds the record   *)
(* (lib/ctdb/query.rb), the write lock around the update                   *)
(* (lib/ctdb/record.rb) and the calls of the C extension                   *)
(* (ext/ctdb_ext/ct_record.c).  One step of a client is one call to the    *)
(* server, or the Ruby code between two of them.                           *)
(*                                                                         *)
(* The table has a unique primary index on the fields group and seq, and   *)
(* one more field, data, that stands for the rest of the row.  seq is the  *)
(* model's increment segment when Increment is TRUE.  No field is          *)
(* nullable.  The server (c-tree) is external: it keeps the index unique,  *)
(* it grants one write lock per record, it deletes no locked record, and   *)
(* it may refuse any call but the unlock by a lock's owner.  It is not     *)
(* assumed to refuse a write without a lock, or one of a record that has   *)
(* changed since it was read.                                              *)
(*                                                                         *)
(* A definition whose name ends in Bug is the one below it with a mistake  *)
(* in it; Next uses none of them.  Each one breaks a property, which shows *)
(* that the property depends on the code the right definition models.      *)
(***************************************************************************)
EXTENDS Naturals

CONSTANTS
  Clients,      \* processes, each with one model instance at a time
  Slots,        \* record positions of the table; freed ones are used again
  Groups,       \* values of the leading segment of the primary index
  MaxSeq,       \* largest seq set_field_as_unsigned accepts (2^30-1 or 2^31-1)
  Data,         \* values of the remaining field
  Increment,    \* whether the primary index has an increment segment
  NewAttribs,   \* attribute maps passed to Model.new (Nil: not given)
  Assignments,  \* <<field, value>> pairs the program assigns
  Nil,          \* Ruby's nil
  Clean,        \* "no entry" in @dirty_attributes
  None          \* no row, no position, no lock owner

Fields   == {"group", "seq", "data"}
Segments == {"group", "seq"}

\* What set_field stores in a column of the table.
Domain == [group |-> Groups, seq |-> 1 .. MaxSeq, data |-> Data]
Row    == [group : Groups, seq : 1 .. MaxSeq, data : Data]

\* What a model's @attributes can hold: seq runs one past what can be stored.
AttrMaps(extra) == [group : Groups \cup extra,
                    seq   : (1 .. MaxSeq + 1) \cup extra,
                    data  : Data \cup extra]
Attributes == AttrMaps({Nil})

ASSUME GroupsAreNumbers == Groups \subseteq Nat
ASSUME MaxSeqIsPositive == MaxSeq \in Nat \ {0}
ASSUME IncrementIsFlag  == Increment \in BOOLEAN
ASSUME NewAttribsTyped  == NewAttribs \subseteq Attributes
ASSUME AssignmentsTyped ==
  \A a \in Assignments : /\ a[1] \in Fields
                         /\ \A m \in Attributes : [m EXCEPT ![a[1]] = a[2]] \in Attributes
ASSUME NoneIsNoValue    == None \notin Row \cup Clients \cup Slots
ASSUME NilIsNoValue     == Nil \notin Groups \cup Nat \cup Data
ASSUME CleanIsNoValue   == Clean \notin Groups \cup Nat \cup Data \cup {Nil}

VARIABLES
  rows,        \* the table: row or None at each position
  locks,       \* owner of the write lock on each position
  pc,          \* where each client is
  attributes,  \* @attributes of the client's model
  dirty,       \* @dirty_attributes: the value before the first assignment
  newRecord,   \* @new_record
  destroyed,   \* @destroyed
  buffer,      \* record buffer of the CT::Record in use
  offset,      \* its position in the table
  stale        \* history: what this operation read has changed since

server == <<rows, locks>>
model  == <<attributes, dirty, newRecord, destroyed>>
record == <<buffer, offset>>
vars   == <<rows, locks, pc, attributes, dirty, newRecord, destroyed, buffer, offset, stale>>

Steps == {"none", "idle",                                    \* no call in progress
          "next_key", "insert", "inserted",                  \* create_record
          "update", "lock", "write", "written", "failed",    \* update_record
          "destroy", "delete", "deleted"}                    \* destroy

AllNil   == [f \in Fields |-> Nil]
AllClean == [f \in Fields |-> Clean]
Key(r)   == <<r["group"], r["seq"]>>

-----------------------------------------------------------------------------
(* The server (external) *)

Present == {s \in Slots : rows[s] # None}

\* The key is in no row but the one at s.
KeyFree(key, s) == \A t \in Present \ {s} : Key(rows[t]) # key

\* The row at s is there and nobody has it locked.
Unlocked(s) == rows[s] # None /\ locks[s] = None

\* Order of the primary index.
Before(r, q) == r["group"] < q["group"] \/ (r["group"] = q["group"] /\ r["seq"] < q["seq"])
IsLast(s)    == s \in Present /\ \A t \in Present \ {s} : Before(rows[t], rows[s])

\* History only: who read something that c's change of position s makes stale.
Touch(c, s) ==
  stale' = [d \in Clients |-> stale[d] \/ (d # c /\ (offset[d] = s \/ pc[d] = "insert"))]

\* An unlock that frees the record whoever owns the lock.
ReleaseBug(c) == locks' = [locks EXCEPT ![offset[c]] = None]

\* ctdbUnlockRecord: the caller's own lock, if it has one.
Release(c) == locks' = [locks EXCEPT ![offset[c]] = IF @ = c THEN None ELSE @]

-----------------------------------------------------------------------------
(* The model instance *)

Goto(c, step) == pc' = [pc EXCEPT ![c] = step]

Persisted(c) == ~(newRecord[c] \/ destroyed[c])
Settable(f, v) == v \in Domain[f]
\* No range check on the number.
AllSettableBug(c) == \A f \in Fields \ {"seq"} : Settable(f, attributes[c][f])

AllSettable(c) == \A f \in Fields : Settable(f, attributes[c][f])
DirtySettable(c) == \A f \in Fields : dirty[c][f] # Clean => Settable(f, attributes[c][f])

\* prepare can store the segments it is given: nil ones are dropped.
SegmentsSettable(c) ==
  \A f \in Segments : attributes[c][f] # Nil => Settable(f, attributes[c][f])

\* A target key made of the leading segment only.
MatchesBug(c, s) == s \in Present /\ rows[s]["group"] = attributes[c]["group"]

\* The row eq positions on.
Matches(c, s) == s \in Present /\ Key(rows[s]) = Key(attributes[c])

\* Every attribute is set, dirty or not.
OverlayBug(c) == attributes[c]

\* The record buffer after set_field of every dirty attribute.
Overlay(c) == [f \in Fields |-> IF dirty[c][f] = Clean THEN buffer[c][f] ELSE attributes[c][f]]

\* A new, unsaved instance: Model.new(attribs).
New(c, attribs) ==
  /\ pc[c] = "none"
  /\ attributes' = [attributes EXCEPT ![c] = attribs]
  /\ dirty' = [dirty EXCEPT ![c] = [f \in Fields |-> IF attribs[f] = Nil THEN Clean ELSE Nil]]
  /\ newRecord' = [newRecord EXCEPT ![c] = TRUE]
  /\ destroyed' = [destroyed EXCEPT ![c] = FALSE]
  /\ Goto(c, "idle")
  /\ UNCHANGED <<server, record, stale>>

\* An instance from a record buffer: find_by, first, last, each, all (init_with).
InitWith(c, attribs) ==
  /\ pc[c] = "none"
  /\ attributes' = [attributes EXCEPT ![c] = attribs]
  /\ dirty' = [dirty EXCEPT ![c] = AllClean]
  /\ newRecord' = [newRecord EXCEPT ![c] = FALSE]
  /\ destroyed' = [destroyed EXCEPT ![c] = FALSE]
  /\ Goto(c, "idle")
  /\ UNCHANGED <<server, record, stale>>

Load(c, s) == rows[s] # None /\ InitWith(c, rows[s])

\* first, last and each ignore a nil from the record (an empty table, or any error): the
\* cleared buffer becomes an instance.
LoadNothing(c) == InitWith(c, AllNil)

\* write_attribute: only the first assignment records the old value.
WriteAttribute(c, f, v) ==
  /\ pc[c] = "idle"
  /\ dirty' = [dirty EXCEPT ![c][f] = IF @ = Clean THEN attributes[c][f] ELSE @]
  /\ attributes' = [attributes EXCEPT ![c][f] = v]
  /\ UNCHANGED <<server, pc, newRecord, destroyed, record, stale>>

\* The program drops the instance.
Forget(c) ==
  /\ pc[c] = "idle"
  /\ attributes' = [attributes EXCEPT ![c] = AllNil]
  /\ dirty' = [dirty EXCEPT ![c] = AllClean]
  /\ newRecord' = [newRecord EXCEPT ![c] = FALSE]
  /\ destroyed' = [destroyed EXCEPT ![c] = FALSE]
  /\ Goto(c, "none")
  /\ UNCHANGED <<server, record, stale>>

-----------------------------------------------------------------------------
(* save *)

NeedsNumber(c) == Increment /\ attributes[c]["seq"] = Nil

\* The call ends and the CT::Record it used is out of reach.
Finish(c) ==
  /\ Goto(c, "idle")
  /\ buffer' = [buffer EXCEPT ![c] = None]
  /\ offset' = [offset EXCEPT ![c] = None]
  /\ stale' = [stale EXCEPT ![c] = FALSE]

\* An exception leaves save or destroy.
Raise(c) == Finish(c) /\ UNCHANGED <<server, model>>

Save(c) ==
  /\ pc[c] = "idle"
  /\ \/ /\ newRecord[c] /\ NeedsNumber(c)
        /\ Goto(c, "next_key")
        /\ UNCHANGED stale
     \/ /\ newRecord[c] /\ ~NeedsNumber(c)
        /\ Goto(c, "insert")
        /\ stale' = [stale EXCEPT ![c] = TRUE]
     \/ /\ ~newRecord[c]
        /\ Goto(c, "update")
        /\ UNCHANGED stale
  /\ UNCHANGED <<server, model, record>>

\* The increment segment's value, set behind write_attribute's back.
Number(c, n, isStale) ==
  /\ attributes' = [attributes EXCEPT ![c]["seq"] = n]
  /\ Goto(c, "insert")
  /\ stale' = [stale EXCEPT ![c] = isStale]
  /\ UNCHANGED <<server, dirty, newRecord, destroyed, record>>

\* The last number instead of the one after it.
ReadLastBug(c, s) == pc[c] = "next_key" /\ IsLast(s) /\ Number(c, rows[s]["seq"], FALSE)

\* Query#last positions on the last row of the whole index, whatever the segments say.
ReadLast(c, s) ==
  /\ pc[c] = "next_key"
  /\ IsLast(s)
  /\ Number(c, rows[s]["seq"] + 1, FALSE)

\* Query#last ignores a nil from record.last: the field is read from the cleared
\* buffer, where it is null (nil + 1 raises) or zero.
ReadLastFails(c) ==
  /\ pc[c] = "next_key"
  /\ Raise(c) \/ Number(c, 1, TRUE)

\* The record that Query#last positioned is written, not a cleared one.
InsertBug(c, s) ==
  /\ pc[c] = "insert"
  /\ AllSettable(c)
  /\ rows[s] = None \/ IsLast(s)
  /\ KeyFree(Key(attributes[c]), s)
  /\ rows' = [rows EXCEPT ![s] = attributes[c]]
  /\ Touch(c, s)
  /\ Goto(c, "inserted")
  /\ UNCHANGED <<locks, model, record>>

\* A cleared record takes every attribute and is written.
Insert(c, s) ==
  /\ pc[c] = "insert"
  /\ AllSettable(c)
  /\ rows[s] = None
  /\ KeyFree(Key(attributes[c]), s)
  /\ rows' = [rows EXCEPT ![s] = attributes[c]]
  /\ Touch(c, s)
  /\ Goto(c, "inserted")
  /\ UNCHANGED <<locks, model, record>>

\* set_field or write! raises: a value the field cannot hold, a taken key, a server error.
InsertFails(c) == pc[c] = "insert" /\ Raise(c)

\* save returns true.
Created(c) ==
  /\ pc[c] = "inserted"
  /\ dirty' = [dirty EXCEPT ![c] = AllClean]
  /\ newRecord' = [newRecord EXCEPT ![c] = FALSE]
  /\ Finish(c)
  /\ UNCHANGED <<server, attributes, destroyed>>

\* Query#eq, without a lock: the row is copied into the record buffer.
Find(c, s, step, next) ==
  /\ pc[c] = step
  /\ SegmentsSettable(c)
  /\ Matches(c, s)
  /\ buffer' = [buffer EXCEPT ![c] = rows[s]]
  /\ offset' = [offset EXCEPT ![c] = s]
  /\ stale' = [stale EXCEPT ![c] = FALSE]
  /\ Goto(c, next)
  /\ UNCHANGED <<server, model>>

UpdateFind(c, s) == Find(c, s, "update", "lock")

\* eq turns every CT::Error into nil, and nil has no with_write_lock!.
UpdateNotFound(c) == pc[c] = "update" /\ Raise(c)

\* with_write_lock!: the lock is granted ...
Lock(c) ==
  /\ pc[c] = "lock"
  /\ Unlocked(offset[c])
  /\ locks' = [locks EXCEPT ![offset[c]] = c]
  /\ Goto(c, "write")
  /\ UNCHANGED <<rows, model, record, stale>>

\* The result of the lock call is not looked at.
LockRefusedBug(c) ==
  /\ pc[c] = "lock"
  /\ Goto(c, "write")
  /\ UNCHANGED <<server, model, record, stale>>

\* The loop goes round until the lock is granted.
LockWaitBug(c) == pc[c] = "lock" /\ UNCHANGED vars

\* ... or refused: the loop raises on its first turn, no retry and no timeout.
LockRefused(c) ==
  /\ pc[c] = "lock"
  /\ Goto(c, "failed")
  /\ UNCHANGED <<server, model, record, stale>>

\* The dirty attributes go over the buffer read before the lock; write! rewrites the row.
Write(c) ==
  /\ pc[c] = "write"
  /\ DirtySettable(c)
  /\ rows[offset[c]] # None
  /\ KeyFree(Key(Overlay(c)), offset[c])
  /\ rows' = [rows EXCEPT ![offset[c]] = Overlay(c)]
  /\ buffer' = [buffer EXCEPT ![c] = Overlay(c)]
  /\ Touch(c, offset[c])
  /\ Goto(c, "written")
  /\ UNCHANGED <<locks, model, offset>>

WriteFails(c) ==
  /\ pc[c] = "write"
  /\ Goto(c, "failed")
  /\ UNCHANGED <<server, model, record, stale>>

\* The ensure clause, then the rest of update_record: save returns true.
Updated(c) ==
  /\ pc[c] = "written"
  /\ Release(c)
  /\ dirty' = [dirty EXCEPT ![c] = AllClean]
  /\ newRecord' = [newRecord EXCEPT ![c] = FALSE]
  /\ Finish(c)
  /\ UNCHANGED <<rows, attributes, destroyed>>

\* The lock is released on success only.
UpdateRaisesBug(c) == pc[c] = "failed" /\ Finish(c) /\ UNCHANGED <<server, model>>

\* The dirty attributes are forgotten although the write failed.
UpdateRaisesCleanBug(c) ==
  /\ pc[c] = "failed"
  /\ Release(c)
  /\ dirty' = [dirty EXCEPT ![c] = AllClean]
  /\ Finish(c)
  /\ UNCHANGED <<rows, attributes, newRecord, destroyed>>

\* The ensure clause while an exception leaves save.
UpdateRaises(c) ==
  /\ pc[c] = "failed"
  /\ Release(c)
  /\ Finish(c)
  /\ UNCHANGED <<rows, model>>

-----------------------------------------------------------------------------
(* destroy *)

MarkDestroyed(c) ==
  /\ destroyed' = [destroyed EXCEPT ![c] = TRUE]
  /\ UNCHANGED <<attributes, dirty, newRecord>>

\* An instance that was never saved, or was destroyed before, is only marked.
Destroy(c) ==
  /\ pc[c] = "idle"
  /\ \/ /\ Persisted(c)
        /\ Goto(c, "destroy")
        /\ UNCHANGED model
     \/ /\ ~Persisted(c)
        /\ MarkDestroyed(c)
        /\ UNCHANGED pc
  /\ UNCHANGED <<server, record, stale>>

DestroyFind(c, s) == Find(c, s, "destroy", "delete")

\* eq is nil, for a missing row and for any CT::Error: nothing is deleted.
DestroyNotFound(c) ==
  /\ pc[c] = "destroy"
  /\ SegmentsSettable(c)
  /\ MarkDestroyed(c)
  /\ Finish(c)
  /\ UNCHANGED server

\* A segment value set_field rejects raises RangeError, which eq does not rescue.
DestroyRaises(c) == pc[c] = "destroy" /\ ~SegmentsSettable(c) /\ Raise(c)

Delete(c) ==
  /\ pc[c] = "delete"
  /\ Unlocked(offset[c])
  /\ rows' = [rows EXCEPT ![offset[c]] = None]
  /\ Touch(c, offset[c])
  /\ Goto(c, "deleted")
  /\ UNCHANGED <<locks, model, record>>

DeleteFails(c) == pc[c] = "delete" /\ Raise(c)

Deleted(c) ==
  /\ pc[c] = "deleted"
  /\ MarkDestroyed(c)
  /\ Finish(c)
  /\ UNCHANGED server

\* The process ends: the server drops its locks, its instance is gone.
Crash(c) ==
  /\ pc[c] # "none"
  /\ locks' = [s \in Slots |-> IF locks[s] = c THEN None ELSE locks[s]]
  /\ attributes' = [attributes EXCEPT ![c] = AllNil]
  /\ dirty' = [dirty EXCEPT ![c] = AllClean]
  /\ newRecord' = [newRecord EXCEPT ![c] = FALSE]
  /\ destroyed' = [destroyed EXCEPT ![c] = FALSE]
  /\ pc' = [pc EXCEPT ![c] = "none"]
  /\ buffer' = [buffer EXCEPT ![c] = None]
  /\ offset' = [offset EXCEPT ![c] = None]
  /\ stale' = [stale EXCEPT ![c] = FALSE]
  /\ UNCHANGED rows

-----------------------------------------------------------------------------
Init ==
  /\ rows = [s \in Slots |-> None]
  /\ locks = [s \in Slots |-> None]
  /\ pc = [c \in Clients |-> "none"]
  /\ attributes = [c \in Clients |-> AllNil]
  /\ dirty = [c \in Clients |-> AllClean]
  /\ newRecord = [c \in Clients |-> FALSE]
  /\ destroyed = [c \in Clients |-> FALSE]
  /\ buffer = [c \in Clients |-> None]
  /\ offset = [c \in Clients |-> None]
  /\ stale = [c \in Clients |-> FALSE]

\* What the program asks of the instance, and the end of its process.
Request(c) ==
  \/ \E a \in NewAttribs : New(c, a)
  \/ \E s \in Slots : Load(c, s)
  \/ LoadNothing(c)
  \/ \E a \in Assignments : WriteAttribute(c, a[1], a[2])
  \/ Forget(c)
  \/ Save(c)
  \/ Destroy(c)
  \/ Crash(c)

\* The steps of a call in progress.
CreateStep(c) ==
  \/ \E s \in Slots : ReadLast(c, s)
  \/ ReadLastFails(c)
  \/ \E s \in Slots : Insert(c, s)
  \/ InsertFails(c)
  \/ Created(c)

UpdateStep(c) ==
  \/ \E s \in Slots : UpdateFind(c, s)
  \/ UpdateNotFound(c)
  \/ Lock(c)
  \/ LockRefused(c)
  \/ Write(c)
  \/ WriteFails(c)
  \/ Updated(c)
  \/ UpdateRaises(c)

DestroyStep(c) ==
  \/ \E s \in Slots : DestroyFind(c, s)
  \/ DestroyNotFound(c)
  \/ DestroyRaises(c)
  \/ Delete(c)
  \/ DeleteFails(c)
  \/ Deleted(c)

CallStep(c) == CreateStep(c) \/ UpdateStep(c) \/ DestroyStep(c)

Next == \E c \in Clients : Request(c) \/ CallStep(c)

Spec == Init /\ [][Next]_vars

\* A started call goes on: every server call it makes returns.
FairSpec == Spec /\ \A c \in Clients : WF_vars(CallStep(c))
-----------------------------------------------------------------------------
(* Properties *)

\* Every variable has its type.
TypeOK ==
  /\ rows \in [Slots -> Row \cup {None}]
  /\ locks \in [Slots -> Clients \cup {None}]
  /\ pc \in [Clients -> Steps]
  /\ attributes \in [Clients -> Attributes]
  /\ dirty \in [Clients -> AttrMaps({Nil, Clean})]
  /\ newRecord \in [Clients -> BOOLEAN]
  /\ destroyed \in [Clients -> BOOLEAN]
  /\ buffer \in [Clients -> Row \cup {None}]
  /\ offset \in [Clients -> Slots \cup {None}]
  /\ stale \in [Clients -> BOOLEAN]

\* with_write_lock!: a client owns a lock only inside the block of a save in
\* progress, on the record of that save; and it owns that lock throughout the block.
\* So no way out of a save leaves a lock behind, and two saves never write one row
\* at the same time.
LockedInsideBlock ==
  \A c \in Clients :
    /\ \A s \in Slots : locks[s] = c => offset[c] = s /\ pc[c] \in {"write", "written", "failed"}
    /\ pc[c] \in {"write", "written"} => offset[c] \in Slots /\ locks[offset[c]] = c

\* Between write! and the unlock in the ensure clause nobody else changes the row: it
\* holds every value save reports as stored.
StoredUntilUnlock ==
  \A c \in Clients : pc[c] = "written" =>
    /\ rows[offset[c]] # None
    /\ \A f \in Fields : dirty[c][f] # Clean => rows[offset[c]][f] = attributes[c][f]

\* update_record and destroy act on the row whose primary key the instance has, as it
\* was read, unless another client changed that row after eq read it.
ActsOnOwnRow ==
  \A c \in Clients : pc[c] \in {"lock", "write", "delete"} /\ ~stale[c] =>
    /\ offset[c] \in Present
    /\ rows[offset[c]] = buffer[c]
    /\ Key(buffer[c]) = Key(attributes[c])

\* The number create_record takes is free when no other client wrote since the last
\* row was read and no group sorts after the instance's own.
FreshNumber ==
  \A c \in Clients :
    (/\ pc[c] = "insert"
     /\ ~stale[c]
     /\ \A s \in Present : rows[s]["group"] <= attributes[c]["group"])
    => \A s \in Present : Key(rows[s]) # Key(attributes[c])

\* A row under a write lock is changed by the owner of the lock only.
OnlyOwnerChanges ==
  [][\A s \in Slots : \A c \in Clients :
       locks[s] = c /\ rows'[s] # rows[s] => pc[c] = "write" /\ pc'[c] = "written"]_vars

\* save of a new instance never touches a row that is already there.
CreateOnlyAdds ==
  [][\A c \in Clients : pc[c] \in {"next_key", "insert"} /\ pc'[c] # pc[c] =>
       \A s \in Present : rows'[s] = rows[s]]_vars

\* An update that is not racing with another client changes no field the program did
\* not assign.
UpdateKeepsOtherFields ==
  [][\A c \in Clients : pc[c] = "write" /\ pc'[c] = "written" /\ ~stale[c] =>
       \A f \in Fields : dirty[c][f] = Clean => rows'[offset[c]][f] = rows[offset[c]][f]]_vars

\* persisted? is documented as "has been saved to the table": an instance that a finder
\* returns and that calls itself persisted is a row of the table.  The code breaks this:
\* LoadNothing.
FoundIsStored ==
  [][\A c \in Clients : pc[c] = "none" /\ pc'[c] = "idle" /\ ~newRecord'[c] =>
       \E s \in Present : rows[s] = attributes'[c]]_vars

\* eq is documented to return nil "if no record is found": a destroy that ends without an
\* exception and deleted nothing had no row to delete.  The code breaks this: eq
\* returns nil for every CT::Error, and destroy then marks the instance destroyed.
NilMeansNoRow ==
  [][\A c \in Clients : pc[c] = "destroy" /\ destroyed'[c] # destroyed[c] /\ pc'[c] = "idle" =>
       \A s \in Slots : ~Matches(c, s)]_vars

\* No save and no destroy waits for another client: each ends.
CallsEnd == \A c \in Clients : (pc[c] \notin {"none", "idle"}) ~> (pc[c] \in {"none", "idle"})

-----------------------------------------------------------------------------
(* Refinement of AtomicSaves *)

\* The call a client at this step is in.
CallAt(step) ==
  CASE step = "none" -> "gone"
    [] step = "idle" -> "idle"
    [] step \in {"next_key", "insert", "inserted"} -> "create"
    [] step \in {"update", "lock", "write", "written", "failed"} -> "update"
    [] step \in {"destroy", "delete", "deleted"} -> "destroy"

\* create_record may choose the seq of a new instance itself.
PendingIn(attribs, changed, new) ==
  [f \in Fields |-> IF changed[f] = Clean \/ (f = "seq" /\ new) THEN Clean ELSE attribs[f]]

Calls    == [c \in Clients |-> CallAt(pc[c])]
Pendings == [c \in Clients |-> PendingIn(attributes[c], dirty[c], newRecord[c])]
Applied  == {c \in Clients : pc[c] \in {"inserted", "written", "deleted"}}

Promise ==
  INSTANCE AtomicSaves WITH
    Values  <- Groups \cup (1 .. MaxSeq + 1) \cup Data \cup {Nil},
    Any     <- Clean,
    call    <- Calls,
    pending <- Pendings,
    isNew   <- newRecord,
    applied <- Applied

\* Every behaviour of the clients is one AtomicSaves allows.
KeepsPromise == Promise!Spec

-----------------------------------------------------------------------------
(* Refinement of RowLock *)

\* The clients inside with_write_lock!'s block on each row.
Writing == [s \in Slots |-> {c \in Clients : pc[c] \in {"write", "written"} /\ offset[c] = s}]

Block == INSTANCE RowLock WITH Rows <- Slots, inside <- Writing

\* Saves enter and leave the block as with_write_lock! promises: one client at a time on a
\* row, whatever the server refuses and whoever crashes.
SavesLockRows == Block!Spec
=============================================================================
