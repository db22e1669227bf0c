------------------------------- MODULE Schema --------------------------------
(***************************************************************************)
(* The definition of one table: CT::Table, CT::Field, CT::Index and        *)
(* CT::Segment (ext/ctdb_ext/ct_table.c, ct_field.c, ct_index.c,           *)
(* ct_segment.c) over the definition in a table handle's memory and the    *)
(* one the server stores, and the byte count that CT::Query#set!           *)
(* (lib/ctdb/query.rb) works out from the first for a key of the second.   *)
(*                                                                         *)
(* Fields and indexes are changed in memory, by appending or in place;     *)
(* create and alter store the whole definition, open reads it, close       *)
(* forgets it.  A segment refers to its field, so that a field's new name  *)
(* or length shows in every index it is in.                                *)
(*                                                                         *)
(* The client library is external: it refuses a second field or index of a *)
(* name, a table that exists or does not, and an index without segments.   *)
(* The setters that do nothing (type=, default=, scale=, pad_char=,        *)
(* permission=, rebuild, and those of CT::Segment) are not actions.        *)
(*                                                                         *)
(* A definition whose name ends in Bug is a mistaken variant of the one    *)
(* below it.                                                               *)
(***************************************************************************)
EXTENDS Naturals, Sequences, FiniteSetsExt

CONSTANTS
  Names,      \* names of fields and indexes
  Lengths,    \* lengths of fields
  Legacy,     \* definitions other programs have stored
  MaxFields, MaxIndexes, MaxSegments,  \* bounds
  None        \* no table

\* Segment modes: SCHSEG takes the field as the definition has it, the old modes, here
\* REGSEG, an absolute byte offset.
SegModes == {"SCHSEG", "REGSEG"}

FieldDef   == [name : Names, length : Lengths]
Segment    == [field : 1 .. MaxFields, mode : SegModes]
IndexDef   == [name : Names, dups : BOOLEAN, segments : Seq(Segment)]
Definition == [fields : Seq(FieldDef), indexes : Seq(IndexDef)]
Empty      == [fields |-> <<>>, indexes |-> <<>>]

\* Every segment is of a field of its own definition.
TypeOKOf(d) ==
  /\ \A k \in DOMAIN d.fields : d.fields[k] \in FieldDef
  /\ \A i \in DOMAIN d.indexes :
       /\ d.indexes[i].name \in Names /\ d.indexes[i].dups \in BOOLEAN
       /\ \A k \in DOMAIN d.indexes[i].segments :
            LET s == d.indexes[i].segments[k] IN
            s.field \in DOMAIN d.fields /\ s.mode \in SegModes

\* The library refuses a second field, or index, of a name.
OneNameEach(d) ==
  /\ \A j, k \in DOMAIN d.fields : d.fields[j].name = d.fields[k].name => j = k
  /\ \A j, k \in DOMAIN d.indexes : d.indexes[j].name = d.indexes[k].name => j = k

\* The library creates no table without fields, and none with an index without segments.
Complete(d) == /\ d.fields # <<>>
               /\ \A i \in DOMAIN d.indexes : d.indexes[i].segments # <<>>

ASSUME LengthsArePositive == Lengths \subseteq Nat \ {0}
ASSUME LegacyTyped        ==
  Legacy \subseteq Definition /\ \A d \in Legacy : TypeOKOf(d) /\ OneNameEach(d) /\ Complete(d)

VARIABLES
  stored,   \* the server: the table's definition
  def,      \* the handle: its definition
  active,   \* the handle: is the table open
  status,   \* the handle: has its definition changes that alter would store
  askDups   \* history: for each index in memory, the last allow_dups= and "unset" without one

vars == <<stored, def, active, status, askDups>>

FieldsOf(d)  == {d.fields[k].name : k \in DOMAIN d.fields}
IndexesOf(d) == {d.indexes[k].name : k \in DOMAIN d.indexes}

-----------------------------------------------------------------------------
(* Changes in memory. *)

Change(d) == def' = d /\ status' = active /\ UNCHANGED <<stored, active>>

AddField(n, l) ==
  /\ Len(def.fields) < MaxFields
  /\ n \notin FieldsOf(def)
  /\ Change([def EXCEPT !.fields = Append(@, [name |-> n, length |-> l])])
  /\ UNCHANGED askDups

\* Never with duplicates, which allow_dups= may change afterwards.
AddIndex(n) ==
  /\ Len(def.indexes) < MaxIndexes
  /\ n \notin IndexesOf(def)
  /\ Change([def EXCEPT !.indexes = Append(@, [name |-> n, dups |-> FALSE, segments |-> <<>>])])
  /\ askDups' = Append(askDups, "unset")

\* Whatever mode it is given.
AddSegmentBug(i, f) ==
  /\ i \in DOMAIN def.indexes
  /\ Len(def.indexes[i].segments) < MaxSegments
  /\ Change([def EXCEPT !.indexes[i].segments =
               Append(@, [field |-> f, mode |-> "SCHSEG"])])
  /\ UNCHANGED askDups
AddSegment(i, f) ==
  /\ i \in DOMAIN def.indexes /\ f \in DOMAIN def.fields
  /\ Len(def.indexes[i].segments) < MaxSegments
  /\ Change([def EXCEPT !.indexes[i].segments =
               Append(@, [field |-> f, mode |-> "SCHSEG"])])
  /\ UNCHANGED askDups

\* The value is compared with the tag of true's type, which no value is equal to.
AllowDups(i, v) ==
  /\ i \in DOMAIN def.indexes
  /\ Change([def EXCEPT !.indexes[i].dups = FALSE])
  /\ askDups' = [askDups EXCEPT ![i] = IF v THEN "yes" ELSE "no"]

SetFieldName(f, n) ==
  /\ f \in DOMAIN def.fields
  /\ n \notin FieldsOf(def)
  /\ Change([def EXCEPT !.fields[f].name = n])
  /\ UNCHANGED askDups

SetFieldLengthBug(f, l) ==
  /\ f \in DOMAIN def.fields
  /\ def' = [def EXCEPT !.fields[f].length = l]
  /\ UNCHANGED <<stored, active, status, askDups>>
SetFieldLength(f, l) ==
  /\ f \in DOMAIN def.fields
  /\ Change([def EXCEPT !.fields[f].length = l])
  /\ UNCHANGED askDups

-----------------------------------------------------------------------------
(* The table. *)

\* create, always with CTCREATE_NORMAL.  The table is not open after it.
Create ==
  /\ ~active /\ stored = None /\ Complete(def)
  /\ stored' = def
  /\ UNCHANGED <<def, active, status, askDups>>

Alter ==
  /\ active /\ Complete(def)
  /\ stored' = def
  /\ status' = FALSE
  /\ UNCHANGED <<def, active, askDups>>

Open ==
  /\ ~active /\ stored # None
  /\ def' = stored /\ active' = TRUE /\ status' = FALSE
  /\ askDups' = [i \in DOMAIN stored.indexes |-> "unset"]
  /\ UNCHANGED stored

\* Changes that were not altered are lost.
Close ==
  /\ active
  /\ def' = Empty /\ active' = FALSE /\ status' = FALSE /\ askDups' = <<>>
  /\ UNCHANGED stored

-----------------------------------------------------------------------------
(* What the program can ask of a definition. *)

FieldNames(d) == [k \in DOMAIN d.fields |-> d.fields[k].name]

\* get_field, get_field_by_name and get_index: zero stands for the CT::Error.
Numbered(S) == IF S = {} THEN 0 ELSE CHOOSE k \in S : TRUE
GetField(d, n) == Numbered({k \in DOMAIN d.fields : d.fields[k].name = n})
GetIndex(d, n) == Numbered({k \in DOMAIN d.indexes : d.indexes[k].name = n})

\* CT::Segment#field_name: of the field as it is now.  The name of a constant in the place of
\* a comparison makes it ask for the partial field whatever the mode.
SegmentName(d, s) == d.fields[s.field].name

AbsoluteByteOffset(s) == s.mode = "REGSEG"

\* get_segment pops segments until one has the name: the last of them is the answer.  When
\* there is none it goes on to ask nil for its name: zero stands for the NoMethodError.
GetSegmentBug(d, i, n) ==
  LET ss == d.indexes[i].segments IN
  IF ss # <<>> /\ SegmentName(d, ss[Len(ss)]) = n THEN Len(ss) ELSE 0
GetSegment(d, i, n) ==
  LET ss == d.indexes[i].segments
      last[k \in 0 .. Len(ss)] ==
        IF k = 0 \/ SegmentName(d, ss[k]) = n THEN k ELSE last[k - 1]
  IN last[Len(ss)]

\* The bytes set! counts for the segments given by name.
SetBytes(d, i, given) ==
  MapThenSumSet(LAMBDA n :
                  LET s == d.indexes[i].segments[GetSegment(d, i, n)] IN
                  d.fields[s.field].length - (IF AbsoluteByteOffset(s) THEN 1 ELSE 0),
                given)

-----------------------------------------------------------------------------
Init == /\ stored \in Legacy \cup {None}
        /\ def = Empty /\ active = FALSE /\ status = FALSE /\ askDups = <<>>

Next ==
  \/ \E n \in Names, l \in Lengths : AddField(n, l)
  \/ \E n \in Names : AddIndex(n)
  \/ \E i \in 1 .. MaxIndexes, f \in 1 .. MaxFields : AddSegment(i, f)
  \/ \E i \in 1 .. MaxIndexes, v \in BOOLEAN : AllowDups(i, v)
  \/ \E f \in 1 .. MaxFields, n \in Names : SetFieldName(f, n)
  \/ \E f \in 1 .. MaxFields, l \in Lengths : SetFieldLength(f, l)
  \/ Create \/ Alter \/ Open \/ Close

Spec == Init /\ [][Next]_vars

-----------------------------------------------------------------------------
(* Properties. *)

\* Every segment is of a field of its own definition, in memory and at the server, where
\* every table has fields and every index segments.
TypeOK ==
  /\ stored # None => TypeOKOf(stored) /\ Complete(stored)
  /\ TypeOKOf(def)
  /\ active \in BOOLEAN /\ status \in BOOLEAN
  /\ Len(askDups) = Len(def.indexes)

\* A name finds the one field, index or segment that has it now, by way of renaming, closing
\* and opening; the list of names and the look-up by name agree on the number.
NamesAreFound ==
  \A d \in {def} \cup ({stored} \ {None}) :
    /\ \A k \in DOMAIN d.fields : GetField(d, FieldNames(d)[k]) = k
    /\ \A k \in DOMAIN d.indexes : GetIndex(d, d.indexes[k].name) = k
    /\ \A i \in DOMAIN d.indexes, n \in Names :
         LET ss == d.indexes[i].segments
             k  == GetSegment(d, i, n)
         IN IF k = 0 THEN \A j \in DOMAIN ss : d.fields[ss[j].field].name # n
                     ELSE d.fields[ss[k].field].name = n

\* The bytes that the first n segments of an index have in the keys the server stores: all of
\* the field's, and one less, without the delimiter, for a segment of an old mode.
StoredBytes(i, n) ==
  LET d == stored IN
  MapThenSumSet(LAMBDA k :
                  LET s == d.indexes[i].segments[k] IN
                  IF s.mode = "REGSEG" THEN d.fields[s.field].length - 1
                                       ELSE d.fields[s.field].length,
                1 .. n)

\* set! counts in memory what the server's keys have, as long as the table's status shows no
\* change to alter: for the first segments of an index, each of another field, the bytes
\* are those of the segments.
SetBytesFit ==
  active /\ ~status =>
    \A i \in DOMAIN def.indexes : \A n \in 0 .. Len(def.indexes[i].segments) :
      LET ss == def.indexes[i].segments IN
      (\A j, k \in DOMAIN ss : ss[j].field = ss[k].field => j = k)
        => SetBytes(def, i, {SegmentName(def, ss[k]) : k \in 1 .. n}) = StoredBytes(i, n)

\* ct_index.c:64 says of allow_dups=: "Set the allow duplicate flag for this index." The
\* code clears the flag for true as well.
DupsAsAsked ==
  \A i \in DOMAIN def.indexes : askDups[i] = "yes" => def.indexes[i].dups
=============================================================================
