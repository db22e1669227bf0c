-------------------------- MODULE PersistenceProofs --------------------------
(***************************************************************************)
(* Proofs that every behaviour of Persistence, with any number of clients, *)
(* positions and groups, keeps its invariants.  The inductive invariant    *)
(* IInv adds two facts to the checked ones: a client that works on a       *)
(* record has a position and a buffer, and no locked position is empty.    *)
(***************************************************************************)
EXTENDS Persistence, TLAPS

\* A client past Query#eq has a record.
Positioned ==
  \A c \in Clients :
    pc[c] \in {"lock", "write", "written", "failed", "delete", "deleted"} =>
      offset[c] \in Slots /\ buffer[c] \in Row

\* Only a row that is there is locked.
LockedIsPresent == \A s \in Slots : locks[s] # None => rows[s] # None

IInv ==
  /\ TypeOK
  /\ Positioned
  /\ LockedIsPresent
  /\ LockedInsideBlock
  /\ StoredUntilUnlock
  /\ ActsOnOwnRow
  /\ FreshNumber

Step(c) == Request(c) \/ CallStep(c)

-----------------------------------------------------------------------------
(* Attribute maps and rows *)

\* Finders build a well-typed instance from a row.
LEMMA RowIsAttributes == Row \subseteq Attributes
  BY MaxSeqIsPositive DEF Row, Attributes, AttrMaps

\* The index compares natural numbers.
LEMMA RowHasNumbers ==
  ASSUME NEW r \in Row
  PROVE  r["group"] \in Nat /\ r["seq"] \in Nat
<1>1. r["group"] \in Groups /\ r["seq"] \in 1 .. MaxSeq
  BY DEF Row
<1>2. 1 .. MaxSeq \subseteq Nat
  BY MaxSeqIsPositive
<1> QED
  BY <1>1, <1>2, GroupsAreNumbers

\* Dropping the instance leaves one too.
LEMMA ClearedTyped == AllNil \in Attributes /\ AllClean \in AttrMaps({Nil, Clean})
  BY DEF Fields, Attributes, AttrMaps, AllNil, AllClean

\* The dirty map after Model.new.
LEMMA NewDirtyTyped ==
  ASSUME NEW m \in Attributes
  PROVE  [f \in Fields |-> IF m[f] = Nil THEN Clean ELSE Nil] \in AttrMaps({Nil, Clean})
  BY DEF Fields, Attributes, AttrMaps

\* The dirty map after write_attribute.
LEMMA AssignedDirtyTyped ==
  ASSUME NEW m \in Attributes, NEW d \in AttrMaps({Nil, Clean}), NEW f \in Fields
  PROVE  [d EXCEPT ![f] = IF @ = Clean THEN m[f] ELSE @] \in AttrMaps({Nil, Clean})
  BY DEF Fields, Attributes, AttrMaps

\* The attributes after create_record numbered them.
LEMMA NumberedTyped ==
  ASSUME NEW m \in Attributes, NEW n \in 1 .. MaxSeq + 1
  PROVE  [m EXCEPT !["seq"] = n] \in Attributes
  BY DEF Fields, Attributes, AttrMaps

\* Attributes that set_field accepts make a row.
LEMMA SettableIsRow ==
  ASSUME NEW m \in Attributes, \A f \in Fields : Settable(f, m[f])
  PROVE  m \in Row
  BY DEF Fields, Attributes, AttrMaps, Row, Settable, Domain

\* So do dirty attributes over a row.
LEMMA OverlayIsRow ==
  ASSUME NEW b \in Row, NEW m \in Attributes, NEW d \in AttrMaps({Nil, Clean}),
         \A f \in Fields : d[f] # Clean => Settable(f, m[f])
  PROVE  [f \in Fields |-> IF d[f] = Clean THEN b[f] ELSE m[f]] \in Row
  BY DEF Fields, Attributes, AttrMaps, Row, Settable, Domain

\* What an update writes is a row.
LEMMA WrittenIsRow ==
  ASSUME TypeOK, Positioned, NEW c \in Clients, Write(c)
  PROVE  Overlay(c) \in Row
<1>1. buffer[c] \in Row
  BY DEF Write, Positioned
<1>2. \A f \in Fields : dirty[c][f] # Clean => Settable(f, attributes[c][f])
  BY DEF Write, DirtySettable
<1> QED
  BY <1>1, <1>2, OverlayIsRow DEF Overlay, TypeOK

-----------------------------------------------------------------------------
(* Types *)

\* The type invariant is inductive, given Positioned.
LEMMA TypeStep ==
  ASSUME TypeOK, Positioned, NEW c \in Clients, Step(c)
  PROVE  TypeOK'
<1> USE DEF TypeOK, Goto, server, model, record
<1>1. ASSUME NEW a \in NewAttribs, New(c, a) PROVE TypeOK'
  BY <1>1, NewAttribsTyped, NewDirtyTyped DEF New, Steps
<1>2. ASSUME NEW a \in Attributes, InitWith(c, a) PROVE TypeOK'
  BY <1>2, ClearedTyped DEF InitWith, Steps
<1>3. ASSUME NEW s \in Slots, Load(c, s) PROVE TypeOK'
  BY <1>2, <1>3, RowIsAttributes DEF Load
<1>4. CASE LoadNothing(c)
  BY <1>2, <1>4, ClearedTyped DEF LoadNothing
<1>5. ASSUME NEW a \in Assignments, WriteAttribute(c, a[1], a[2]) PROVE TypeOK'
  <2>1. a[1] \in Fields /\ [attributes[c] EXCEPT ![a[1]] = a[2]] \in Attributes
    BY AssignmentsTyped
  <2>2. [dirty[c] EXCEPT ![a[1]] = IF @ = Clean THEN attributes[c][a[1]] ELSE @]
          \in AttrMaps({Nil, Clean})
    BY <2>1, AssignedDirtyTyped
  <2> QED  BY <1>5, <2>1, <2>2 DEF WriteAttribute
<1>6. CASE Forget(c)
  BY <1>6, ClearedTyped DEF Forget, Steps
<1>7. CASE Save(c)
  BY <1>7 DEF Save, Steps
<1>8. CASE Destroy(c)
  BY <1>8 DEF Destroy, MarkDestroyed, Steps
<1>9. CASE Crash(c)
  BY <1>9, ClearedTyped DEF Crash, Steps
<1>10. ASSUME NEW n \in 1 .. MaxSeq + 1, NEW i \in BOOLEAN, Number(c, n, i) PROVE TypeOK'
  BY <1>10, NumberedTyped DEF Number, Steps
<1>11. ASSUME NEW s \in Slots, ReadLast(c, s) PROVE TypeOK'
  <2>1. rows[s] \in Row
    BY <1>11 DEF ReadLast, IsLast, Present
  <2>2. rows[s]["seq"] + 1 \in 1 .. MaxSeq + 1
    BY <2>1, MaxSeqIsPositive DEF Row
  <2> QED  BY <1>10, <1>11, <2>2 DEF ReadLast
<1>12. CASE Raise(c)
  BY <1>12 DEF Raise, Finish, Steps
<1>13. CASE ReadLastFails(c)
  <2>1. 1 \in 1 .. MaxSeq + 1
    BY MaxSeqIsPositive
  <2> QED  BY <1>10, <1>12, <1>13, <2>1 DEF ReadLastFails
<1>14. ASSUME NEW s \in Slots, Insert(c, s) PROVE TypeOK'
  <2>1. attributes[c] \in Row
    BY <1>14, SettableIsRow DEF Insert, AllSettable
  <2> QED  BY <1>14, <2>1 DEF Insert, Touch, Steps
<1>15. CASE InsertFails(c)
  BY <1>12, <1>15 DEF InsertFails
<1>16. CASE Created(c)
  BY <1>16, ClearedTyped DEF Created, Finish, Steps
<1>17. ASSUME NEW s \in Slots, NEW p \in Steps, NEW q \in Steps, Find(c, s, p, q)
       PROVE  TypeOK'
  BY <1>17 DEF Find, Steps
<1>18. ASSUME NEW s \in Slots, UpdateFind(c, s) PROVE TypeOK'
  BY <1>17, <1>18 DEF UpdateFind, Steps
<1>19. CASE UpdateNotFound(c)
  BY <1>12, <1>19 DEF UpdateNotFound
<1>20. CASE Lock(c)
  BY <1>20 DEF Lock, Steps
<1>21. CASE LockRefused(c)
  BY <1>21 DEF LockRefused, Steps
<1>22. CASE Write(c)
  BY <1>22, WrittenIsRow DEF Write, Touch, Steps
<1>23. CASE WriteFails(c)
  BY <1>23 DEF WriteFails, Steps
<1>24. CASE Updated(c)
  BY <1>24, ClearedTyped DEF Updated, Release, Finish, Steps
<1>25. CASE UpdateRaises(c)
  BY <1>25 DEF UpdateRaises, Release, Finish, Steps
<1>26. ASSUME NEW s \in Slots, DestroyFind(c, s) PROVE TypeOK'
  BY <1>17, <1>26 DEF DestroyFind, Steps
<1>27. CASE DestroyNotFound(c)
  BY <1>27 DEF DestroyNotFound, MarkDestroyed, Finish, Steps
<1>28. CASE DestroyRaises(c)
  BY <1>12, <1>28 DEF DestroyRaises
<1>29. CASE Delete(c)
  BY <1>29 DEF Delete, Touch, Steps
<1>30. CASE DeleteFails(c)
  BY <1>12, <1>30 DEF DeleteFails
<1>31. CASE Deleted(c)
  BY <1>31 DEF Deleted, MarkDestroyed, Finish, Steps
<1> QED
  BY <1>1, <1>3, <1>4, <1>5, <1>6, <1>7, <1>8, <1>9, <1>11, <1>13, <1>14, <1>15, <1>16,
     <1>18, <1>19, <1>20, <1>21, <1>22, <1>23, <1>24, <1>25, <1>26, <1>27, <1>28, <1>29,
     <1>30, <1>31
  DEF Step, Request, CallStep, CreateStep, UpdateStep, DestroyStep
-----------------------------------------------------------------------------
(* What a step of one client leaves alone *)

Untouched(d) ==
  /\ pc'[d] = pc[d]
  /\ attributes'[d] = attributes[d]
  /\ dirty'[d] = dirty[d]
  /\ newRecord'[d] = newRecord[d]
  /\ buffer'[d] = buffer[d]
  /\ offset'[d] = offset[d]
  /\ stale[d] => stale'[d]

\* A client's instance and record are its own.
LEMMA OnlyOwnState ==
  ASSUME TypeOK, NEW c \in Clients, Step(c), NEW d \in Clients \ {c}
  PROVE  Untouched(d)
<1> USE DEF TypeOK, Untouched, Goto, server, model, record
<1>1. CASE Request(c)
  BY <1>1 DEF Request, New, Load, LoadNothing, InitWith, WriteAttribute, Forget, Save, Destroy,
              MarkDestroyed, Crash
<1>2. CASE CreateStep(c)
  BY <1>2 DEF CreateStep, ReadLast, ReadLastFails, Number, Raise, Finish, Insert, InsertFails,
              Created, Touch
<1>3. CASE UpdateStep(c)
  BY <1>3 DEF UpdateStep, UpdateFind, Find, UpdateNotFound, Raise, Finish, Lock, LockRefused,
              Write, WriteFails, Updated, UpdateRaises, Touch
<1>4. CASE DestroyStep(c)
  BY <1>4 DEF DestroyStep, DestroyFind, Find, DestroyNotFound, DestroyRaises, Raise, Finish,
              MarkDestroyed, Delete, DeleteFails, Deleted, Touch
<1> QED
  BY <1>1, <1>2, <1>3, <1>4 DEF Step, CallStep

\* Only write! and delete! change rows: an insert fills an empty position, an update
\* rewrites the record's own, a delete empties one that is not locked; and every client
\* this concerns is marked stale.
LEMMA RowsChange ==
  ASSUME TypeOK, Positioned, NEW c \in Clients, Step(c), NEW s \in Slots, rows'[s] # rows[s]
  PROVE  /\ \/ pc[c] = "insert" /\ pc'[c] = "inserted" /\ rows[s] = None /\ rows'[s] # None
            \/ /\ pc[c] = "write" /\ pc'[c] = "written" /\ offset[c] = s
               /\ rows[s] # None /\ rows'[s] # None
            \/ pc[c] = "delete" /\ pc'[c] = "deleted" /\ offset[c] = s /\ Unlocked(s)
         /\ \A d \in Clients \ {c} : offset[d] = s \/ pc[d] = "insert" => stale'[d]
<1> USE DEF TypeOK, Goto, server, model, record
<1>1. ~Request(c)
  BY DEF Request, New, Load, LoadNothing, InitWith, WriteAttribute, Forget, Save, Destroy, Crash
<1>2. ASSUME NEW t \in Slots, Insert(c, t)
      PROVE  /\ pc[c] = "insert" /\ pc'[c] = "inserted" /\ rows[s] = None /\ rows'[s] # None
             /\ \A d \in Clients \ {c} : offset[d] = s \/ pc[d] = "insert" => stale'[d]
  <2>1. s = t
    BY <1>2 DEF Insert
  <2>2. attributes[c] # None
    BY <1>2, SettableIsRow, NoneIsNoValue DEF Insert, AllSettable
  <2> QED  BY <1>2, <2>1, <2>2 DEF Insert, Touch
<1>3. CASE CreateStep(c)
  BY <1>2, <1>3 DEF CreateStep, ReadLast, ReadLastFails, Number, Raise, InsertFails, Created
<1>4. CASE UpdateStep(c)
  <2>1. Write(c)
    BY <1>4 DEF UpdateStep, UpdateFind, Find, UpdateNotFound, Raise, Lock, LockRefused,
                WriteFails, Updated, UpdateRaises
  <2>2. offset[c] = s
    BY <2>1 DEF Write
  <2>3. Overlay(c) \in Row
    BY <2>1, WrittenIsRow
  <2>4. Overlay(c) # None
    BY <2>3, NoneIsNoValue
  <2>5. rows'[s] = Overlay(c)
    BY <2>1, <2>2 DEF Write
  <2> QED  BY <2>1, <2>2, <2>4, <2>5 DEF Write, Touch
<1>5. CASE DestroyStep(c)
  <2>1. Delete(c)
    BY <1>5 DEF DestroyStep, DestroyFind, Find, DestroyNotFound, DestroyRaises, Raise,
                DeleteFails, Deleted
  <2> QED  BY <2>1 DEF Delete, Touch
<1> QED
  BY <1>1, <1>3, <1>4, <1>5 DEF Step, CallStep

\* No row that concerns a client changes behind its back.
LEMMA KeptUnlessStale ==
  ASSUME TypeOK, Positioned, NEW c \in Clients, Step(c), NEW d \in Clients, d # c, ~stale'[d],
         NEW s \in Slots, offset[d] = s \/ pc[d] = "insert"
  PROVE  rows'[s] = rows[s]
<1> SUFFICES ASSUME rows'[s] # rows[s] PROVE FALSE
  OBVIOUS
<1> QED
  BY RowsChange

\* A lock is taken by with_write_lock! on its own record, where nobody has one, and only
\* its owner gives it back.
LEMMA LocksChange ==
  ASSUME TypeOK, NEW c \in Clients, Step(c), NEW s \in Slots, locks'[s] # locks[s]
  PROVE  \/ locks[s] = c /\ locks'[s] = None
         \/ /\ pc[c] = "lock" /\ offset[c] = s /\ Unlocked(s)
            /\ locks'[s] = c /\ rows' = rows
<1> USE DEF TypeOK, Goto, server, model, record
<1>1. CASE Request(c)
  BY <1>1 DEF Request, New, Load, LoadNothing, InitWith, WriteAttribute, Forget, Save, Destroy,
              Crash
<1>2. CASE CreateStep(c)
  BY <1>2 DEF CreateStep, ReadLast, ReadLastFails, Number, Raise, Insert, InsertFails, Created
<1>3. CASE UpdateStep(c)
  BY <1>3 DEF UpdateStep, UpdateFind, Find, UpdateNotFound, Raise, Lock, LockRefused,
              Write, WriteFails, Updated, UpdateRaises, Release
<1>4. CASE DestroyStep(c)
  BY <1>4 DEF DestroyStep, DestroyFind, Find, DestroyNotFound, DestroyRaises, Raise,
              Delete, DeleteFails, Deleted
<1> QED
  BY <1>1, <1>2, <1>3, <1>4 DEF Step, CallStep
\* The only way to each of these steps.
LEMMA EntersBy ==
  ASSUME TypeOK, NEW c \in Clients, Step(c)
  PROVE  /\ pc'[c] = "insert" => Save(c) \/ (\E s \in Slots : ReadLast(c, s)) \/ Number(c, 1, TRUE)
         /\ pc'[c] = "lock" => \E s \in Slots : UpdateFind(c, s)
         /\ pc'[c] = "write" => Lock(c)
         /\ pc'[c] = "written" => Write(c)
         /\ pc'[c] = "delete" => \E s \in Slots : DestroyFind(c, s)
<1> USE DEF TypeOK, Goto
<1>1. CASE Request(c)
  BY <1>1 DEF Request, New, Load, LoadNothing, InitWith, WriteAttribute, Forget, Save, Destroy,
              Crash
<1>2. CASE CreateStep(c)
  BY <1>2 DEF CreateStep, ReadLastFails, Raise, Finish, Insert, InsertFails, Created, ReadLast,
              Number
<1>3. CASE UpdateStep(c)
  BY <1>3 DEF UpdateStep, UpdateFind, Find, UpdateNotFound, Raise, Finish, Lock, LockRefused,
              Write, WriteFails, Updated, UpdateRaises
<1>4. CASE DestroyStep(c)
  BY <1>4 DEF DestroyStep, DestroyFind, Find, DestroyNotFound, DestroyRaises, Raise, Finish,
              Delete, DeleteFails, Deleted
<1> QED
  BY <1>1, <1>2, <1>3, <1>4 DEF Step, CallStep

-----------------------------------------------------------------------------
(* The parts of the inductive invariant *)

\* Query#eq gives a position and a row; every later step keeps them until the call ends.
LEMMA PositionedStep ==
  ASSUME TypeOK, Positioned, NEW c \in Clients, Step(c)
  PROVE  Positioned'
<1> USE DEF TypeOK, Goto, server, model, record
<1> SUFFICES ASSUME NEW d \in Clients,
                    pc'[d] \in {"lock", "write", "written", "failed", "delete", "deleted"}
             PROVE  offset'[d] \in Slots /\ buffer'[d] \in Row
  BY DEF Positioned
<1>1. CASE d # c
  <2>1. pc'[d] = pc[d] /\ offset'[d] = offset[d] /\ buffer'[d] = buffer[d]
    BY <1>1, OnlyOwnState, Zenon DEF Untouched
  <2> QED
    BY <2>1 DEF Positioned
<1>2. CASE d = c /\ Request(c)
  BY <1>2 DEF Request, New, Load, LoadNothing, InitWith, WriteAttribute, Forget, Save, Destroy,
              Crash
<1>3. CASE d = c /\ CreateStep(c)
  BY <1>3 DEF CreateStep, ReadLast, ReadLastFails, Number, Raise, Finish, Insert, InsertFails,
              Created
<1>4. CASE d = c /\ UpdateStep(c)
  <2>1. ASSUME NEW s \in Slots, UpdateFind(c, s)
        PROVE  offset'[c] = s /\ buffer'[c] = rows[s] /\ rows[s] \in Row
    BY <2>1 DEF UpdateFind, Find, Matches, Present
  <2>2. CASE Write(c)
    BY <1>4, <2>2, WrittenIsRow DEF Write, Positioned
  <2> QED
    BY <1>4, <2>1, <2>2 DEF UpdateStep, UpdateNotFound, Raise, Finish, Lock, LockRefused,
                            WriteFails, Updated, UpdateRaises, Positioned
<1>5. CASE d = c /\ DestroyStep(c)
  <2>1. ASSUME NEW s \in Slots, DestroyFind(c, s)
        PROVE  offset'[c] = s /\ buffer'[c] = rows[s] /\ rows[s] \in Row
    BY <2>1 DEF DestroyFind, Find, Matches, Present
  <2> QED
    BY <1>5, <2>1 DEF DestroyStep, DestroyNotFound, DestroyRaises, Raise, Finish, Delete,
                      DeleteFails, Deleted, Positioned
<1> QED
  BY <1>1, <1>2, <1>3, <1>4, <1>5 DEF Step, CallStep

\* The server deletes no locked row and locks no empty position.
LEMMA LockedIsPresentStep ==
  ASSUME TypeOK, Positioned, LockedIsPresent, NEW c \in Clients, Step(c)
  PROVE  LockedIsPresent'
<1> SUFFICES ASSUME NEW s \in Slots, locks'[s] # None
             PROVE  rows'[s] # None
  BY DEF LockedIsPresent
<1>1. CASE locks'[s] # locks[s]
  BY <1>1, LocksChange DEF Unlocked
<1>2. CASE locks'[s] = locks[s]
  BY <1>2, RowsChange DEF LockedIsPresent, Unlocked
<1> QED
  BY <1>1, <1>2

\* A lock is owned inside the block of a save only, and throughout the block.
LEMMA LockedInsideBlockStep ==
  ASSUME TypeOK, Positioned, LockedInsideBlock, NEW c \in Clients, Step(c)
  PROVE  LockedInsideBlock'
<1> USE DEF TypeOK, Goto, server, model, record
<1> DEFINE Inside(d) ==
      /\ \A s \in Slots : locks[s] = d => offset[d] = s /\ pc[d] \in {"write", "written", "failed"}
      /\ pc[d] \in {"write", "written"} => offset[d] \in Slots /\ locks[offset[d]] = d
<1> SUFFICES ASSUME NEW d \in Clients PROVE Inside(d)'
  BY DEF LockedInsideBlock
<1>1. Inside(d)
  BY DEF LockedInsideBlock
<1>2. CASE d # c
  <2>1. Untouched(d)
    BY <1>2, OnlyOwnState
  <2>2. ASSUME NEW s \in Slots PROVE locks'[s] = d <=> locks[s] = d
    <3>1. CASE locks'[s] # locks[s]
      <4>1. locks[s] \in {c, None} /\ locks'[s] \in {c, None}
        BY <3>1, LocksChange DEF Unlocked
      <4> QED  BY <1>2, <4>1, NoneIsNoValue
    <3> QED  BY <3>1
  <2> QED  BY <1>1, <2>1, <2>2 DEF Untouched
<1>3. CASE d = c /\ Request(c)
  BY <1>1, <1>3, NoneIsNoValue
  DEF Request, New, Load, LoadNothing, InitWith, WriteAttribute, Forget, Save, Destroy, Crash
<1>4. CASE d = c /\ CreateStep(c)
  BY <1>1, <1>4
  DEF CreateStep, ReadLast, ReadLastFails, Number, Raise, Finish, Insert, InsertFails, Created
<1>5. CASE d = c /\ UpdateStep(c)
  <2>1. CASE Lock(c)
    <3>1. offset[c] \in Slots /\ pc[c] = "lock"
      BY <2>1 DEF Lock, Positioned
    <3>2. \A s \in Slots : locks[s] # c
      BY <1>1, <1>5, <3>1
    <3> QED  BY <1>5, <2>1, <3>1, <3>2 DEF Lock
  <2>2. CASE Updated(c) \/ UpdateRaises(c)
    BY <1>1, <1>5, <2>2, NoneIsNoValue DEF Updated, UpdateRaises, Release, Finish
  <2> QED
    BY <1>1, <1>5, <2>1, <2>2 DEF UpdateStep, UpdateFind, Find, UpdateNotFound, Raise, Finish,
                                  LockRefused, Write, WriteFails
<1>6. CASE d = c /\ DestroyStep(c)
  BY <1>1, <1>6 DEF DestroyStep, DestroyFind, Find, DestroyNotFound, DestroyRaises, Raise,
                    Finish, Delete, DeleteFails, Deleted
<1> QED
  BY <1>2, <1>3, <1>4, <1>5, <1>6 DEF Step, CallStep

\* While c is between write! and the unlock, no step of another client changes its row.
LEMMA LockedRowIsKept ==
  ASSUME TypeOK, Positioned, LockedIsPresent, LockedInsideBlock, NEW c \in Clients, Step(c),
         NEW d \in Clients, d # c, NEW s \in Slots, locks[s] = d
  PROVE  rows'[s] = rows[s]
<1> SUFFICES ASSUME rows'[s] # rows[s] PROVE FALSE
  OBVIOUS
<1>1. d # None
  BY NoneIsNoValue
<1>2. rows[s] # None /\ ~Unlocked(s)
  BY <1>1 DEF LockedIsPresent, Unlocked
<1>3. pc[c] = "write" /\ offset[c] = s
  BY <1>2, RowsChange
<1> QED
  BY <1>3 DEF LockedInsideBlock

\* The row that write! stored is still the one the instance describes.
LEMMA StoredUntilUnlockStep ==
  ASSUME TypeOK, Positioned, LockedIsPresent, LockedInsideBlock, StoredUntilUnlock,
         NEW c \in Clients, Step(c)
  PROVE  StoredUntilUnlock'
<1> USE DEF TypeOK, Goto, server, model, record
<1> SUFFICES ASSUME NEW d \in Clients, pc'[d] = "written"
             PROVE  /\ rows'[offset'[d]] # None
                    /\ \A f \in Fields :
                         dirty'[d][f] # Clean => rows'[offset'[d]][f] = attributes'[d][f]
  BY DEF StoredUntilUnlock
<1>1. CASE d # c
  <2>1. Untouched(d)
    BY <1>1, OnlyOwnState
  <2>2. offset[d] \in Slots /\ locks[offset[d]] = d
    BY <2>1 DEF Untouched, LockedInsideBlock
  <2>3. rows'[offset[d]] = rows[offset[d]]
    BY <1>1, <2>2, LockedRowIsKept
  <2> QED  BY <2>1, <2>3 DEF Untouched, StoredUntilUnlock
<1>2. CASE d = c
  <2>1. Write(c)
    BY <1>2, EntersBy
  <2>2. offset[c] \in Slots /\ Overlay(c) \in Row /\ Overlay(c) # None
    <3>1. offset[c] \in Slots
      BY <2>1 DEF Write, Positioned
    <3>2. Overlay(c) \in Row
      BY <2>1, WrittenIsRow
    <3> QED  BY <3>1, <3>2, NoneIsNoValue
  <2>3. rows'[offset[c]] = Overlay(c) /\ offset' = offset /\ dirty' = dirty
          /\ attributes' = attributes
    BY <2>1, <2>2 DEF Write
  <2>4. \A f \in Fields : dirty[c][f] # Clean => Overlay(c)[f] = attributes[c][f]
    BY DEF Overlay
  <2> QED  BY <1>2, <2>2, <2>3, <2>4
<1> QED
  BY <1>1, <1>2

\* What eq found is still there and still the instance's own, or the client is stale.
LEMMA ActsOnOwnRowStep ==
  ASSUME TypeOK, Positioned, ActsOnOwnRow, NEW c \in Clients, Step(c)
  PROVE  ActsOnOwnRow'
<1> USE DEF TypeOK, Goto, server, model, record
<1> SUFFICES ASSUME NEW d \in Clients, pc'[d] \in {"lock", "write", "delete"}, ~stale'[d]
             PROVE  /\ offset'[d] \in Slots
                    /\ rows'[offset'[d]] # None
                    /\ rows'[offset'[d]] = buffer'[d]
                    /\ Key(buffer'[d]) = Key(attributes'[d])
  BY DEF ActsOnOwnRow, Present, Key
<1>1. CASE d # c
  <2>1. Untouched(d)
    BY <1>1, OnlyOwnState
  <2>2. /\ offset[d] \in Slots /\ rows[offset[d]] # None /\ rows[offset[d]] = buffer[d]
        /\ Key(buffer[d]) = Key(attributes[d])
    BY <2>1 DEF Untouched, ActsOnOwnRow, Present
  <2>3. rows'[offset[d]] = rows[offset[d]]
    BY <1>1, <2>2, KeptUnlessStale
  <2> QED  BY <2>1, <2>2, <2>3 DEF Untouched
<1>2. CASE d = c /\ pc'[c] \in {"lock", "delete"}
  <2>1. PICK s \in Slots : UpdateFind(c, s) \/ DestroyFind(c, s)
    BY <1>2, EntersBy
  <2> QED  BY <1>2, <2>1 DEF UpdateFind, DestroyFind, Find, Matches, Present, Key
<1>3. CASE d = c /\ pc'[c] = "write"
  <2>1. Lock(c)
    BY <1>3, EntersBy
  <2> QED  BY <1>3, <2>1 DEF Lock, ActsOnOwnRow, Present
<1> QED
  BY <1>1, <1>2, <1>3

\* The number after the last row's is free, as long as nobody writes.
LEMMA FreshNumberStep ==
  ASSUME TypeOK, Positioned, FreshNumber, NEW c \in Clients, Step(c)
  PROVE  FreshNumber'
<1> USE DEF TypeOK, Goto, server, model, record
<1> SUFFICES ASSUME NEW d \in Clients, pc'[d] = "insert", ~stale'[d],
                    \A s \in Present' : rows'[s]["group"] <= attributes'[d]["group"],
                    NEW t \in Present', Key(rows'[t]) = Key(attributes'[d])
             PROVE  FALSE
  BY DEF FreshNumber, Key
<1>1. CASE d # c
  <2>1. Untouched(d)
    BY <1>1, OnlyOwnState
  <2>2. ASSUME NEW s \in Slots PROVE rows'[s] = rows[s]
    <3>1. pc[d] = "insert"
      BY <2>1 DEF Untouched
    <3> QED  BY <1>1, <3>1, KeptUnlessStale
  <2> QED  BY <2>1, <2>2 DEF Untouched, FreshNumber, Present, Key
<1>2. CASE d = c
  <2>1. PICK s \in Slots : ReadLast(c, s)
    BY <1>2, EntersBy DEF Save, Number
  <2>2. /\ s \in Present /\ t \in Slots /\ rows' = rows
        /\ attributes'[c]["group"] = attributes[c]["group"]
        /\ attributes'[c]["seq"] = rows[s]["seq"] + 1
    BY <2>1 DEF ReadLast, Number, IsLast, Present, Attributes, AttrMaps
  <2>3. rows[s] \in Row /\ rows[t] \in Row
    BY <2>2 DEF Present
  <2>4. rows[t]["group"] = attributes'[c]["group"] /\ rows[t]["seq"] = rows[s]["seq"] + 1
    BY <1>2, <2>2 DEF Key
  <2>5. rows[s]["group"] <= rows[t]["group"]
    BY <1>2, <2>2, <2>4 DEF Present
  <2>6. t = s \/ Before(rows[t], rows[s])
    BY <2>1, <2>2 DEF ReadLast, IsLast, Present
  <2>7. /\ rows[s]["group"] \in Nat /\ rows[s]["seq"] \in Nat
        /\ rows[t]["group"] \in Nat /\ rows[t]["seq"] \in Nat
    BY <2>3, RowHasNumbers
  <2>8. t # s /\ ~Before(rows[t], rows[s])
    BY <2>4, <2>5, <2>7 DEF Before
  <2> QED  BY <2>6, <2>8
<1> QED
  BY <1>1, <1>2

-----------------------------------------------------------------------------
(* The theorems *)

\* The inductive invariant holds at the start ...
LEMMA InitInv == Init => IInv
<1> SUFFICES ASSUME Init PROVE IInv
  OBVIOUS
<1>1. TypeOK
  BY ClearedTyped DEF Init, TypeOK, Steps
<1>2. Positioned /\ StoredUntilUnlock /\ ActsOnOwnRow /\ FreshNumber
  BY DEF Init, Positioned, StoredUntilUnlock, ActsOnOwnRow, FreshNumber
<1>3. LockedIsPresent
  BY DEF Init, LockedIsPresent
<1>4. LockedInsideBlock
  BY NoneIsNoValue DEF Init, LockedInsideBlock
<1> QED
  BY <1>1, <1>2, <1>3, <1>4 DEF IInv

\* ... and every step keeps it.
LEMMA NextInv == IInv /\ [Next]_vars => IInv'
<1> SUFFICES ASSUME IInv, [Next]_vars PROVE IInv'
  OBVIOUS
<1>1. ASSUME NEW c \in Clients, Step(c) PROVE IInv'
  BY <1>1, TypeStep, PositionedStep, LockedIsPresentStep, LockedInsideBlockStep,
     StoredUntilUnlockStep, ActsOnOwnRowStep, FreshNumberStep DEF IInv
<1>2. CASE UNCHANGED vars
  <2> USE <1>2 DEF IInv, vars
  <2>1. TypeOK'
    BY DEF TypeOK
  <2>2. Positioned' /\ LockedIsPresent' /\ LockedInsideBlock' /\ StoredUntilUnlock'
    BY DEF Positioned, LockedIsPresent, LockedInsideBlock, StoredUntilUnlock
  <2>3. ActsOnOwnRow' /\ FreshNumber'
    BY DEF ActsOnOwnRow, FreshNumber, Present, Key
  <2> QED  BY <2>1, <2>2, <2>3
<1> QED
  BY <1>1, <1>2 DEF Next, Step

\* In every behaviour of the clients the inductive invariant always holds.
THEOREM Invariance == Spec => []IInv
  BY InitInv, NextInv, PTL DEF Spec

\* Every variable keeps its type: no value set_field would reject is ever stored in a
\* row, and a numbered instance is at most one past what can be stored.
THEOREM TypeCorrect == Spec => []TypeOK
<1>1. IInv => TypeOK
  BY DEF IInv
<1> QED
  BY <1>1, Invariance, PTL

\* with_write_lock!: no lock outlives the save that took it and two saves never hold one
\* row's lock at the same time.
THEOREM LocksAreScoped == Spec => []LockedInsideBlock
<1>1. IInv => LockedInsideBlock
  BY DEF IInv
<1> QED
  BY <1>1, Invariance, PTL

\* Nobody changes what write! stored before save released the lock.
THEOREM StoredIsKept == Spec => []StoredUntilUnlock
<1>1. IInv => StoredUntilUnlock
  BY DEF IInv
<1> QED
  BY <1>1, Invariance, PTL

\* save and destroy act on the row with the instance's own key, unless it changed since
\* eq read it.
THEOREM OwnRow == Spec => []ActsOnOwnRow
<1>1. IInv => ActsOnOwnRow
  BY DEF IInv
<1> QED
  BY <1>1, Invariance, PTL

\* The number save gives a new instance is free, unless somebody wrote since the last
\* row was read or rows of a later group exist.
THEOREM NumbersAreFresh == Spec => []FreshNumber
<1>1. IInv => FreshNumber
  BY DEF IInv
<1> QED
  BY <1>1, Invariance, PTL

\* A locked row changes in the write! of the save that owns the lock and nowhere else,
\* delete! of another client included.
THEOREM OwnerWrites == Spec => OnlyOwnerChanges
<1> DEFINE A == \A s \in Slots : \A c \in Clients :
                  locks[s] = c /\ rows'[s] # rows[s] => pc[c] = "write" /\ pc'[c] = "written"
<1>1. IInv /\ [Next]_vars => [A]_vars
  <2> SUFFICES ASSUME IInv, NEW c \in Clients, Step(c), NEW s \in Slots, NEW d \in Clients,
                      locks[s] = d, rows'[s] # rows[s]
               PROVE  pc[d] = "write" /\ pc'[d] = "written"
    BY DEF Next, Step
  <2>1. d = c
    BY LockedRowIsKept DEF IInv
  <2>2. rows[s] # None /\ ~Unlocked(s)
    BY NoneIsNoValue DEF IInv, LockedIsPresent, Unlocked
  <2> QED  BY <2>1, <2>2, RowsChange DEF IInv
<1> QED
  BY <1>1, Invariance, PTL DEF Spec, OnlyOwnerChanges

\* create_record never touches a row that is there.
THEOREM CreateAdds == Spec => CreateOnlyAdds
<1> DEFINE A == \A c \in Clients : pc[c] \in {"next_key", "insert"} /\ pc'[c] # pc[c] =>
                  \A s \in Present : rows'[s] = rows[s]
<1>1. IInv /\ [Next]_vars => [A]_vars
  <2> SUFFICES ASSUME IInv, NEW c \in Clients, Step(c), NEW d \in Clients,
                      pc[d] \in {"next_key", "insert"}, pc'[d] # pc[d],
                      NEW s \in Present, rows'[s] # rows[s]
               PROVE  FALSE
    BY DEF Next, Step
  <2>1. d = c
    BY OnlyOwnState DEF Untouched, IInv
  <2>2. s \in Slots /\ rows[s] # None
    BY DEF Present
  <2> QED  BY <2>1, <2>2, RowsChange DEF IInv
<1> QED
  BY <1>1, Invariance, PTL DEF Spec, CreateOnlyAdds

\* update_record changes no field the program did not assign, unless another client
\* changed the row after eq read it.
THEOREM UpdateKeeps == Spec => UpdateKeepsOtherFields
<1> DEFINE A == \A c \in Clients : pc[c] = "write" /\ pc'[c] = "written" /\ ~stale[c] =>
                  \A f \in Fields : dirty[c][f] = Clean => rows'[offset[c]][f] = rows[offset[c]][f]
<1>1. IInv /\ [Next]_vars => [A]_vars
  <2> SUFFICES ASSUME IInv, NEW c \in Clients, Step(c), NEW d \in Clients,
                      pc[d] = "write", pc'[d] = "written", ~stale[d],
                      NEW f \in Fields, dirty[d][f] = Clean
               PROVE  rows'[offset[d]][f] = rows[offset[d]][f]
    BY DEF Next, Step
  <2>1. d = c
    BY OnlyOwnState DEF Untouched, IInv
  <2>2. Write(c)
    BY <2>1, EntersBy DEF IInv
  <2>3. offset[c] \in Slots /\ rows[offset[c]] = buffer[c]
    BY <2>1 DEF IInv, ActsOnOwnRow, Present
  <2>4. rows'[offset[c]] = Overlay(c)
    BY <2>2, <2>3 DEF Write, IInv, TypeOK
  <2>5. Overlay(c)[f] = buffer[c][f]
    BY <2>1 DEF Overlay
  <2> QED  BY <2>1, <2>3, <2>4, <2>5
<1> QED
  BY <1>1, Invariance, PTL DEF Spec, UpdateKeepsOtherFields

-----------------------------------------------------------------------------
(* How long a call can be: the argument behind CallsEnd *)

\* The most steps a call has left, with every answer of the server one step.
Left ==
  [step \in Steps |->
     CASE step \in {"none", "idle"} -> 0
       [] step \in {"inserted", "written", "failed", "deleted"} -> 1
       [] step \in {"insert", "write", "delete"} -> 2
       [] step \in {"next_key", "lock", "destroy"} -> 3
       [] step = "update" -> 4]

\* The values of Left, spelt out.
LEMMA LeftOf ==
  /\ Left["none"] = 0 /\ Left["idle"] = 0
  /\ Left["inserted"] = 1 /\ Left["written"] = 1 /\ Left["failed"] = 1 /\ Left["deleted"] = 1
  /\ Left["insert"] = 2 /\ Left["write"] = 2 /\ Left["delete"] = 2
  /\ Left["next_key"] = 3 /\ Left["lock"] = 3 /\ Left["destroy"] = 3
  /\ Left["update"] = 4
  BY DEF Left, Steps

\* No step of a call goes back or waits.
LEMMA CallGoesOn ==
  ASSUME TypeOK, NEW c \in Clients, CallStep(c)
  PROVE  Left[pc'[c]] < Left[pc[c]]
<1> USE LeftOf DEF TypeOK, Goto
<1>1. CASE CreateStep(c)
  BY <1>1 DEF CreateStep, ReadLast, ReadLastFails, Number, Raise, Finish, Insert, InsertFails,
              Created
<1>2. CASE UpdateStep(c)
  BY <1>2 DEF UpdateStep, UpdateFind, Find, UpdateNotFound, Raise, Finish, Lock, LockRefused,
              Write, WriteFails, Updated, UpdateRaises
<1>3. CASE DestroyStep(c)
  BY <1>3 DEF DestroyStep, DestroyFind, Find, DestroyNotFound, DestroyRaises, Raise, Finish,
              Delete, DeleteFails, Deleted
<1> QED
  BY <1>1, <1>2, <1>3 DEF CallStep

\* save and destroy are over after at most four steps, however many clients there are and
\* whatever the server refuses: with_write_lock! (record.rb) does not go round its loop, no
\* step of another client adds one, and a call in progress cannot be started again.
THEOREM CallsAreShort ==
  Spec => [][\A c \in Clients : pc[c] \notin {"none", "idle"} =>
               \/ Left[pc'[c]] < Left[pc[c]]
               \/ pc'[c] = pc[c] /\ ~CallStep(c)]_vars
<1> DEFINE A == \A c \in Clients : pc[c] \notin {"none", "idle"} =>
                  \/ Left[pc'[c]] < Left[pc[c]]
                  \/ pc'[c] = pc[c] /\ ~CallStep(c)
<1>1. IInv /\ [Next]_vars => [A]_vars
  <2> SUFFICES ASSUME TypeOK, NEW d \in Clients, Step(d),
                      NEW c \in Clients, pc[c] \notin {"none", "idle"}, ~CallStep(c)
               PROVE  Left[pc'[c]] < Left[pc[c]] \/ pc'[c] = pc[c]
    BY CallGoesOn DEF Next, Step, IInv
  <2>1. CASE d # c
    BY <2>1, OnlyOwnState DEF Untouched
  <2>2. CASE d = c
    <3>1. Crash(c)
      BY <2>2 DEF Step, Request, New, Load, LoadNothing, InitWith, WriteAttribute, Forget, Save,
                  Destroy
    <3>2. pc'[c] = "none"
      BY <3>1 DEF Crash, TypeOK
    <3>3. pc[c] \in Steps \ {"none", "idle"}
      BY DEF TypeOK
    <3> QED  BY <3>2, <3>3, LeftOf DEF Steps
  <2> QED  BY <2>1, <2>2
<1> QED
  BY <1>1, Invariance, PTL DEF Spec
=============================================================================
