----------------------------- MODULE SchemaProofs ----------------------------
(***************************************************************************)
(* Proofs about Schema, for any names, lengths and sizes of definitions:   *)
(* types, the look-ups by name, and the bytes of a record set.             *)
(***************************************************************************)
EXTENDS Schema, Sums

Sound(d) == d \in Definition /\ TypeOKOf(d) /\ OneNameEach(d)

-----------------------------------------------------------------------------
(* Each change of a definition in memory leaves it sound. *)

\* add_field: the fields before it keep their numbers.
LEMMA FieldAdded ==
  ASSUME NEW d, Sound(d), NEW n \in Names, NEW l \in Lengths, n \notin FieldsOf(d)
  PROVE  Sound([d EXCEPT !.fields = Append(@, [name |-> n, length |-> l])])
<1> DEFINE x  == [name |-> n, length |-> l]
           fs == Append(d.fields, x)
           e  == [d EXCEPT !.fields = Append(@, x)]
<1>1. d.fields \in Seq(FieldDef) /\ d.indexes \in Seq(IndexDef) /\ x \in FieldDef
  BY DEF Sound, Definition, FieldDef
<1>2. /\ fs \in Seq(FieldDef) /\ Len(d.fields) \in Nat
      /\ DOMAIN d.fields = 1 .. Len(d.fields) /\ DOMAIN fs = 1 .. Len(d.fields) + 1
      /\ \A k \in 1 .. Len(d.fields) : fs[k] = d.fields[k]
      /\ fs[Len(d.fields) + 1] = x
  BY <1>1
<1>3. e \in Definition /\ e.fields = fs /\ e.indexes = d.indexes
  BY <1>1, <1>2 DEF Sound, Definition
<1>4. \A k \in DOMAIN d.fields : d.fields[k].name # n
  BY DEF FieldsOf
<1>5. x.name = n
  OBVIOUS
<1> HIDE DEF x, fs, e
<1>6. TypeOKOf(e)
  <2>1. \A k \in DOMAIN fs : fs[k] \in FieldDef
    BY <1>2
  <2>2. DOMAIN d.fields \subseteq DOMAIN fs
    BY <1>2
  <2> QED
    BY <1>3, <2>1, <2>2 DEF Sound, TypeOKOf
<1>7. OneNameEach(e)
  <2>1. ASSUME NEW j \in DOMAIN fs, NEW k \in DOMAIN fs, fs[j].name = fs[k].name
        PROVE  j = k
    <3>1. \A i \in DOMAIN fs : i \in DOMAIN d.fields \/ i = Len(d.fields) + 1
      BY <1>2
    <3>2. CASE j \in DOMAIN d.fields /\ k \in DOMAIN d.fields
      BY <1>2, <2>1, <3>2 DEF Sound, OneNameEach
    <3>3. CASE j = Len(d.fields) + 1 /\ k \in DOMAIN d.fields
      BY <1>2, <1>4, <1>5, <2>1, <3>3
    <3>4. CASE k = Len(d.fields) + 1 /\ j \in DOMAIN d.fields
      BY <1>2, <1>4, <1>5, <2>1, <3>4
    <3> QED
      BY <3>1, <3>2, <3>3, <3>4
  <2> QED
    BY <1>3, <2>1 DEF Sound, OneNameEach
<1> QED
  BY <1>3, <1>6, <1>7 DEF Sound, e, x

\* add_index: an index without segments.
LEMMA IndexAdded ==
  ASSUME NEW d, Sound(d), NEW n \in Names, n \notin IndexesOf(d)
  PROVE  Sound([d EXCEPT !.indexes = Append(@, [name |-> n, dups |-> FALSE, segments |-> <<>>])])
<1> DEFINE x   == [name |-> n, dups |-> FALSE, segments |-> <<>>]
           ixs == Append(d.indexes, x)
           e   == [d EXCEPT !.indexes = Append(@, x)]
<1>1. d.fields \in Seq(FieldDef) /\ d.indexes \in Seq(IndexDef) /\ x \in IndexDef
  <2>1. <<>> \in Seq(Segment)
    OBVIOUS
  <2> QED
    BY <2>1 DEF Sound, Definition, IndexDef
<1>2. x.name = n /\ x.dups = FALSE /\ DOMAIN x.segments = {}
  OBVIOUS
<1> HIDE DEF x
<1>3. /\ ixs \in Seq(IndexDef) /\ Len(d.indexes) \in Nat
      /\ DOMAIN d.indexes = 1 .. Len(d.indexes) /\ DOMAIN ixs = 1 .. Len(d.indexes) + 1
      /\ \A k \in 1 .. Len(d.indexes) : ixs[k] = d.indexes[k]
      /\ ixs[Len(d.indexes) + 1] = x
  BY <1>1
<1>4. e \in Definition /\ e.indexes = ixs /\ e.fields = d.fields
  BY <1>1, <1>3 DEF Sound, Definition
<1>5. \A k \in DOMAIN d.indexes : d.indexes[k].name # n
  BY DEF IndexesOf
<1> HIDE DEF ixs, e
<1>6. \A i \in DOMAIN ixs : i \in DOMAIN d.indexes \/ i = Len(d.indexes) + 1
  BY <1>3
<1>7. TypeOKOf(e)
  BY <1>2, <1>3, <1>4, <1>6 DEF Sound, TypeOKOf
<1>8. OneNameEach(e)
  <2>1. ASSUME NEW j \in DOMAIN ixs, NEW k \in DOMAIN ixs, ixs[j].name = ixs[k].name
        PROVE  j = k
    <3>1. CASE j \in DOMAIN d.indexes /\ k \in DOMAIN d.indexes
      BY <1>3, <2>1, <3>1 DEF Sound, OneNameEach
    <3>2. CASE j = Len(d.indexes) + 1 /\ k \in DOMAIN d.indexes
      BY <1>2, <1>3, <1>5, <2>1, <3>2
    <3>3. CASE k = Len(d.indexes) + 1 /\ j \in DOMAIN d.indexes
      BY <1>2, <1>3, <1>5, <2>1, <3>3
    <3> QED
      BY <1>6, <3>1, <3>2, <3>3
  <2> QED
    BY <1>4, <2>1 DEF Sound, OneNameEach
<1> QED
  BY <1>4, <1>7, <1>8 DEF Sound, e, x

\* An index that changes neither its name nor its number.
LEMMA IndexChanged ==
  ASSUME NEW d, Sound(d), NEW i \in DOMAIN d.indexes, NEW x \in IndexDef,
         x.name = d.indexes[i].name,
         \A k \in DOMAIN x.segments : /\ x.segments[k].field \in DOMAIN d.fields
                                      /\ x.segments[k].mode \in SegModes
  PROVE  Sound([d EXCEPT !.indexes[i] = x])
<1> DEFINE ixs == [d.indexes EXCEPT ![i] = x]
           e   == [d EXCEPT !.indexes[i] = x]
<1>1. d.fields \in Seq(FieldDef) /\ d.indexes \in Seq(IndexDef)
  BY DEF Sound, Definition
<1>2. /\ ixs \in Seq(IndexDef) /\ DOMAIN ixs = DOMAIN d.indexes
      /\ \A k \in DOMAIN ixs : ixs[k] = IF k = i THEN x ELSE d.indexes[k]
  BY <1>1
<1>3. e = [d EXCEPT !.indexes = ixs]
  OBVIOUS
<1> HIDE DEF ixs
<1>4. e \in Definition /\ e.indexes = ixs /\ e.fields = d.fields
  BY <1>1, <1>2, <1>3 DEF Sound, Definition
<1> HIDE DEF e
<1>5. TypeOKOf(e)
  <2>1. x.name \in Names /\ x.dups \in BOOLEAN
    BY DEF IndexDef
  <2> QED
    BY <1>2, <1>4, <2>1 DEF Sound, TypeOKOf
<1>6. OneNameEach(e)
  BY <1>2, <1>4 DEF Sound, OneNameEach
<1> QED
  BY <1>4, <1>5, <1>6 DEF Sound, e

\* A field that keeps its number, and its name or gets a new one.
LEMMA FieldChanged ==
  ASSUME NEW d, Sound(d), NEW f \in DOMAIN d.fields, NEW x \in FieldDef,
         x.name = d.fields[f].name \/ x.name \notin FieldsOf(d)
  PROVE  Sound([d EXCEPT !.fields[f] = x])
<1> DEFINE fs == [d.fields EXCEPT ![f] = x]
           e  == [d EXCEPT !.fields[f] = x]
<1>1. d.fields \in Seq(FieldDef) /\ d.indexes \in Seq(IndexDef)
  BY DEF Sound, Definition
<1>2. /\ fs \in Seq(FieldDef) /\ DOMAIN fs = DOMAIN d.fields
      /\ \A k \in DOMAIN fs : fs[k] = IF k = f THEN x ELSE d.fields[k]
  BY <1>1
<1>3. e = [d EXCEPT !.fields = fs]
  OBVIOUS
<1> HIDE DEF fs
<1>4. e \in Definition /\ e.fields = fs /\ e.indexes = d.indexes
  BY <1>1, <1>2, <1>3 DEF Sound, Definition
<1> HIDE DEF e
<1>5. TypeOKOf(e)
  BY <1>2, <1>4 DEF Sound, TypeOKOf
<1>6. OneNameEach(e)
  <2>1. \A k \in DOMAIN d.fields : k # f => d.fields[k].name # x.name
    BY DEF Sound, OneNameEach, FieldsOf
  <2> QED
    BY <1>2, <1>4, <2>1 DEF Sound, OneNameEach
<1> QED
  BY <1>4, <1>5, <1>6 DEF Sound, e

-----------------------------------------------------------------------------
(* The invariant. *)

\* What the byte count rests on: an open table with no change to alter has in memory what the
\* server stores.
AsStored == active /\ ~status => def = stored

Inv ==
  /\ stored # None => Sound(stored) /\ Complete(stored)
  /\ Sound(def)
  /\ active \in BOOLEAN /\ status \in BOOLEAN
  /\ askDups \in Seq({"unset", "yes", "no"}) /\ Len(askDups) = Len(def.indexes)
  /\ AsStored

\* A change in memory that leaves the definition sound keeps the invariant.
LEMMA ChangeKeeps ==
  ASSUME Inv, NEW d, Sound(d), Change(d),
         askDups' \in Seq({"unset", "yes", "no"}), Len(askDups') = Len(d.indexes)
  PROVE  Inv'
BY DEF Inv, Change, AsStored, Sound, TypeOKOf, OneNameEach, Complete

\* The definition of a new handle.
LEMMA EmptyIsSound == Sound(Empty) /\ Len(Empty.indexes) = 0
<1>1. <<>> \in Seq(FieldDef) /\ <<>> \in Seq(IndexDef)
  OBVIOUS
<1> QED
  BY <1>1 DEF Sound, Empty, Definition, TypeOKOf, OneNameEach

\* A new handle has the empty definition, and the server none or a complete one.
LEMMA InitKeeps == Init => Inv
<1> SUFFICES ASSUME Init
             PROVE  Inv
  OBVIOUS
<1>1. stored # None => Sound(stored) /\ Complete(stored)
  BY LegacyTyped DEF Init, Sound
<1>2. askDups \in Seq({"unset", "yes", "no"}) /\ Len(askDups) = 0
  BY DEF Init
<1> QED
  BY <1>1, <1>2, EmptyIsSound DEF Init, Inv, AsStored

\* Every step keeps the invariant.
LEMMA NextKeeps == Inv /\ [Next]_vars => Inv'
<1> SUFFICES ASSUME Inv, [Next]_vars
             PROVE  Inv'
  OBVIOUS
<1> DEFINE Asked == {"unset", "yes", "no"}
<1>0. /\ Sound(def) /\ def.fields \in Seq(FieldDef) /\ def.indexes \in Seq(IndexDef)
      /\ askDups \in Seq(Asked) /\ Len(askDups) = Len(def.indexes)
      /\ DOMAIN askDups = DOMAIN def.indexes
  BY DEF Inv, Sound, Definition
<1>1. ASSUME NEW n \in Names, NEW l \in Lengths, AddField(n, l)
      PROVE  Inv'
  <2> DEFINE d == [def EXCEPT !.fields = Append(@, [name |-> n, length |-> l])]
  <2>1. Sound(d) /\ d.indexes = def.indexes
    BY <1>0, <1>1, FieldAdded DEF AddField, Sound, Definition
  <2>2. Change(d) /\ askDups' = askDups
    BY <1>1 DEF AddField
  <2> HIDE DEF d
  <2> QED
    BY <1>0, <2>1, <2>2, ChangeKeeps
<1>2. ASSUME NEW n \in Names, AddIndex(n)
      PROVE  Inv'
  <2> DEFINE x == [name |-> n, dups |-> FALSE, segments |-> <<>>]
             d == [def EXCEPT !.indexes = Append(@, x)]
  <2>1. Sound(d)
    BY <1>2, <1>0, IndexAdded DEF AddIndex
  <2>2. d.indexes = Append(def.indexes, x)
    BY <1>0 DEF Sound, Definition
  <2>3. Change(d) /\ askDups' = Append(askDups, "unset")
    BY <1>2 DEF AddIndex
  <2> HIDE DEF d, x
  <2>4. askDups' \in Seq(Asked) /\ Len(askDups') = Len(askDups) + 1
    BY <1>0, <2>3
  <2>5. Len(d.indexes) = Len(def.indexes) + 1
    BY <1>0, <2>2
  <2> QED
    BY <1>0, <2>1, <2>3, <2>4, <2>5, ChangeKeeps
<1>3. ASSUME NEW i, i \in DOMAIN def.indexes, NEW x \in IndexDef, x.name = def.indexes[i].name,
             \A k \in DOMAIN x.segments : /\ x.segments[k].field \in DOMAIN def.fields
                                          /\ x.segments[k].mode \in SegModes,
             Change([def EXCEPT !.indexes[i] = x]),
             askDups' \in Seq(Asked), Len(askDups') = Len(askDups)
      PROVE  Inv'
  <2> DEFINE d == [def EXCEPT !.indexes[i] = x]
  <2>1. Sound(d)
    BY <1>0, <1>3, IndexChanged
  <2>2. Len(d.indexes) = Len(def.indexes)
    BY <1>0, <1>3 DEF Sound, Definition
  <2>3. Change(d)
    BY <1>3
  <2> HIDE DEF d
  <2> QED
    BY <1>0, <1>3, <2>1, <2>2, <2>3, ChangeKeeps
<1>4. ASSUME NEW i \in 1 .. MaxIndexes, NEW f \in 1 .. MaxFields, AddSegment(i, f)
      PROVE  Inv'
  <2> DEFINE s  == [field |-> f, mode |-> "SCHSEG"]
             ix == def.indexes[i]
             ss == Append(ix.segments, s)
             x  == [ix EXCEPT !.segments = ss]
  <2>1. i \in DOMAIN def.indexes /\ f \in DOMAIN def.fields /\ askDups' = askDups
    BY <1>4 DEF AddSegment, Change
  <2>2. ix \in IndexDef /\ s \in Segment /\ s.field = f /\ s.mode \in SegModes
    BY <1>0, <2>1 DEF Segment, SegModes
  <2>3. ix.segments \in Seq(Segment)
    BY <2>2 DEF IndexDef
  <2>4. Change([def EXCEPT !.indexes[i] = x])
    BY <1>4 DEF AddSegment
  <2>5. \A k \in DOMAIN ix.segments : /\ ix.segments[k].field \in DOMAIN def.fields
                                      /\ ix.segments[k].mode \in SegModes
    BY <1>0, <2>1 DEF Sound, TypeOKOf
  <2> HIDE DEF s, ix
  <2>6. /\ ss \in Seq(Segment)
        /\ \A k \in DOMAIN ss : (k \in DOMAIN ix.segments /\ ss[k] = ix.segments[k]) \/ ss[k] = s
    BY <2>2, <2>3
  <2> HIDE DEF ss
  <2>7. x \in IndexDef /\ x.name = ix.name /\ x.segments = ss
    BY <2>2, <2>6 DEF IndexDef
  <2>8. \A k \in DOMAIN ss : ss[k].field \in DOMAIN def.fields /\ ss[k].mode \in SegModes
    BY <2>1, <2>2, <2>5, <2>6
  <2> HIDE DEF x
  <2> QED
    BY <1>0, <1>3, <2>1, <2>4, <2>7, <2>8 DEF ix
<1>5. ASSUME NEW i \in 1 .. MaxIndexes, NEW v \in BOOLEAN, AllowDups(i, v)
      PROVE  Inv'
  <2> DEFINE ix == def.indexes[i]
             x  == [ix EXCEPT !.dups = FALSE]
             a  == IF v THEN "yes" ELSE "no"
  <2>1. i \in DOMAIN def.indexes /\ askDups' = [askDups EXCEPT ![i] = a]
    BY <1>5 DEF AllowDups
  <2>2. Change([def EXCEPT !.indexes[i] = x])
    BY <1>5 DEF AllowDups
  <2>3. ix \in IndexDef
    BY <1>0, <2>1
  <2>4. \A k \in DOMAIN ix.segments : /\ ix.segments[k].field \in DOMAIN def.fields
                                      /\ ix.segments[k].mode \in SegModes
    BY <1>0, <2>1 DEF Sound, TypeOKOf
  <2>5. a \in Asked
    OBVIOUS
  <2> HIDE DEF a, ix
  <2>6. askDups' \in Seq(Asked) /\ Len(askDups') = Len(askDups)
    BY <1>0, <2>1, <2>5
  <2>7. x \in IndexDef /\ x.name = ix.name /\ x.segments = ix.segments
    BY <2>3 DEF IndexDef
  <2> HIDE DEF x
  <2> QED
    BY <1>3, <2>1, <2>2, <2>4, <2>6, <2>7 DEF ix
<1>6. ASSUME NEW f, f \in DOMAIN def.fields, NEW x \in FieldDef,
             x.name = def.fields[f].name \/ x.name \notin FieldsOf(def),
             Change([def EXCEPT !.fields[f] = x]), askDups' = askDups
      PROVE  Inv'
  <2> DEFINE d == [def EXCEPT !.fields[f] = x]
  <2>1. Sound(d)
    BY <1>0, <1>6, FieldChanged
  <2>2. d.indexes = def.indexes /\ Change(d)
    BY <1>0, <1>6 DEF Sound, Definition
  <2> HIDE DEF d
  <2> QED
    BY <1>0, <1>6, <2>1, <2>2, ChangeKeeps
<1>7. ASSUME NEW f \in 1 .. MaxFields, NEW n \in Names, SetFieldName(f, n)
      PROVE  Inv'
  <2> DEFINE fd == def.fields[f]
             x  == [fd EXCEPT !.name = n]
  <2>1. f \in DOMAIN def.fields /\ n \notin FieldsOf(def) /\ askDups' = askDups
    BY <1>7 DEF SetFieldName
  <2>2. Change([def EXCEPT !.fields[f] = x])
    BY <1>7 DEF SetFieldName
  <2>3. fd \in FieldDef
    BY <1>0, <2>1
  <2> HIDE DEF fd
  <2>4. x \in FieldDef /\ x.name = n
    BY <2>3 DEF FieldDef
  <2> HIDE DEF x
  <2> QED
    BY <1>6, <2>1, <2>2, <2>4
<1>8. ASSUME NEW f \in 1 .. MaxFields, NEW l \in Lengths, SetFieldLength(f, l)
      PROVE  Inv'
  <2> DEFINE fd == def.fields[f]
             x  == [fd EXCEPT !.length = l]
  <2>1. f \in DOMAIN def.fields /\ askDups' = askDups
    BY <1>8 DEF SetFieldLength
  <2>2. Change([def EXCEPT !.fields[f] = x])
    BY <1>8 DEF SetFieldLength
  <2>3. fd \in FieldDef
    BY <1>0, <2>1
  <2> HIDE DEF fd
  <2>4. x \in FieldDef /\ x.name = fd.name
    BY <2>3 DEF FieldDef
  <2> HIDE DEF x
  <2> QED
    BY <1>6, <2>1, <2>2, <2>4 DEF fd
<1>9. CASE Create \/ Alter
  BY <1>9 DEF Create, Alter, Inv, AsStored, Sound, TypeOKOf, OneNameEach, Complete
<1>10. CASE Open
  <2>1. stored # None /\ def' = stored /\ active' = TRUE /\ status' = FALSE /\ stored' = stored
        /\ askDups' = [i \in DOMAIN stored.indexes |-> "unset"]
    BY <1>10 DEF Open
  <2>2. Sound(stored) /\ Complete(stored)
    BY <2>1 DEF Inv
  <2>3. stored.indexes \in Seq(IndexDef)
    BY <2>2 DEF Sound, Definition
  <2>4. askDups' \in Seq(Asked) /\ Len(askDups') = Len(stored.indexes)
    BY <2>1, <2>3
  <2> QED
    BY <2>1, <2>2, <2>4 DEF Inv, AsStored
<1>11. CASE Close
  <2>1. askDups' \in Seq(Asked) /\ Len(askDups') = 0
    BY <1>11 DEF Close
  <2>2. /\ stored' = stored /\ def' = Empty /\ active' = FALSE /\ status' = FALSE
    BY <1>11 DEF Close
  <2> QED
    BY <2>1, <2>2, EmptyIsSound DEF Inv, AsStored
<1>12. CASE UNCHANGED vars
  BY <1>12 DEF vars, Inv, AsStored, Sound, TypeOKOf, OneNameEach, Complete
<1> QED
  BY <1>1, <1>2, <1>4, <1>5, <1>7, <1>8, <1>9, <1>10, <1>11, <1>12 DEF Next

\* Inv holds in every reachable state.
THEOREM Invariance == Spec => []Inv
BY InitKeeps, NextKeeps, PTL DEF Spec

\* Every segment of a definition is of a field of it, in memory and at the server, whatever is
\* renamed, altered, closed and opened.
THEOREM TypesHold == Spec => []TypeOK
<1>1. Inv => TypeOK
  BY DEF Inv, TypeOK, Sound
<1> QED
  BY <1>1, Invariance, PTL

-----------------------------------------------------------------------------
(* Look-ups by name. *)

\* j is the last number of S up to k, or zero if there is none.
IsLast(S, k, j) == j \in 0 .. k /\ (j = 0 \/ j \in S) /\ \A m \in j + 1 .. k : m \notin S

\* There is such a number.
LEMMA LastExists ==
  ASSUME NEW S, NEW k \in Nat
  PROVE  \E j \in 0 .. k : IsLast(S, k, j)
<1> DEFINE T == {k - j : j \in {i \in 0 .. k : i = 0 \/ i \in S}}
<1>1. T \in SUBSET Nat /\ k \in T
  <2>1. k - 0 \in T
    OBVIOUS
  <2>2. \A i \in 0 .. k : k - i \in Nat
    OBVIOUS
  <2> QED
    BY <2>1, <2>2
<1> HIDE DEF T
<1>2. PICK x \in T : \A y \in T : ~(y < x)
  BY <1>1, LeastNumber
<1>3. PICK j \in 0 .. k : x = k - j /\ (j = 0 \/ j \in S)
  BY <1>2 DEF T
<1>4. \A m \in j + 1 .. k : m \notin S
  <2> SUFFICES ASSUME NEW m \in j + 1 .. k, m \in S
               PROVE  FALSE
    OBVIOUS
  <2>1. m \in 0 .. k /\ k - m < x
    BY <1>3
  <2>2. k - m \in T
    BY <2>1 DEF T
  <2> QED
    BY <1>2, <2>1, <2>2
<1> QED
  BY <1>3, <1>4 DEF IsLast

\* How the last one changes from one number to the next.
LEMMA LastSteps ==
  ASSUME NEW S, NEW k \in Nat, NEW j
  PROVE  /\ IsLast(S, 0, j) <=> j = 0
         /\ k + 1 \in S => (IsLast(S, k + 1, j) <=> j = k + 1)
         /\ k + 1 \notin S => (IsLast(S, k + 1, j) <=> IsLast(S, k, j))
<1>1. IsLast(S, 0, j) <=> j = 0
  BY DEF IsLast
<1>2. k + 1 \in S => (IsLast(S, k + 1, j) <=> j = k + 1)
  BY DEF IsLast
<1>3. k + 1 \notin S => (IsLast(S, k + 1, j) <=> IsLast(S, k, j))
  BY DEF IsLast
<1> QED
  BY <1>1, <1>2, <1>3

\* The recursion of get_segment: S are the numbers of the segments with the name.
Pops(S, n, f) == f = [k \in 0 .. n |-> IF k = 0 \/ k \in S THEN k ELSE f[k - 1]]

\* There is a function that does what get_segment does.
LEMMA PopsExists ==
  ASSUME NEW S, NEW n \in Nat
  PROVE  \E f : Pops(S, n, f)
<1> DEFINE f == [k \in 0 .. n |-> CHOOSE j \in 0 .. k : IsLast(S, k, j)]
<1>1. \A k \in 0 .. n : IsLast(S, k, f[k])
  BY LastExists
<1>2. ASSUME NEW k \in 0 .. n
      PROVE  f[k] = IF k = 0 \/ k \in S THEN k ELSE f[k - 1]
  <2> HIDE DEF f
  <2>1. CASE k = 0
    BY <1>1, <2>1, LastSteps
  <2>2. CASE k # 0
    <3>1. PICK m \in Nat : k = m + 1 /\ m = k - 1 /\ m \in 0 .. n
      BY <2>2
    <3>2. IsLast(S, k, f[k]) /\ IsLast(S, k - 1, f[k - 1])
      BY <1>1, <3>1
    <3>3. k \in S => f[k] = k
      <4>1. m + 1 \in S => (IsLast(S, m + 1, f[k]) <=> f[k] = m + 1)
        BY LastSteps
      <4> QED
        BY <3>1, <3>2, <4>1
    <3>4. k \notin S => IsLast(S, k, f[k - 1])
      <4>1. m + 1 \notin S => (IsLast(S, m + 1, f[k - 1]) <=> IsLast(S, m, f[k - 1]))
        BY LastSteps
      <4> QED
        BY <3>1, <3>2, <4>1
    <3>5. k \notin S => f[k] = f[k - 1]
      BY <3>2, <3>4 DEF IsLast
    <3> QED
      BY <2>2, <3>3, <3>5
  <2> QED
    BY <2>1, <2>2
<1>3. f = [k \in 0 .. n |-> f[k]]
  OBVIOUS
<1> HIDE DEF f
<1>4. Pops(S, n, f)
  BY <1>2, <1>3 DEF Pops
<1> QED
  BY <1>4

\* Such a function finds the last segment with the name.
LEMMA PopsFindsLast ==
  ASSUME NEW S, NEW n \in Nat, NEW f, Pops(S, n, f)
  PROVE  IsLast(S, n, f[n])
<1> DEFINE T == {k \in 0 .. n : ~IsLast(S, k, f[k])}
<1>1. \A k \in 0 .. n : f[k] = IF k = 0 \/ k \in S THEN k ELSE f[k - 1]
  <2> DEFINE g == [k \in 0 .. n |-> IF k = 0 \/ k \in S THEN k ELSE f[k - 1]]
  <2>1. f = g
    BY DEF Pops
  <2>2. \A k \in 0 .. n : g[k] = IF k = 0 \/ k \in S THEN k ELSE f[k - 1]
    OBVIOUS
  <2> HIDE DEF g
  <2> QED
    BY <2>1, <2>2
<1>2. T = {}
  <2> SUFFICES ASSUME T # {}
               PROVE  FALSE
    OBVIOUS
  <2>1. PICK k \in T : \A y \in T : ~(y < k)
    <3>1. T \in SUBSET Nat
      OBVIOUS
    <3> HIDE DEF T
    <3> QED
      BY <3>1, LeastNumber
  <2>2. k \in 0 .. n /\ ~IsLast(S, k, f[k])
    BY <2>1
  <2>3. CASE k = 0
    BY <1>1, <2>2, <2>3, LastSteps
  <2>4. CASE k # 0
    <3>1. k - 1 \in 0 .. n /\ k - 1 < k /\ k = (k - 1) + 1
      BY <2>2, <2>4
    <3>2. IsLast(S, k - 1, f[k - 1])
      BY <2>1, <3>1
    <3>3. f[k] = IF k \in S THEN k ELSE f[k - 1]
      BY <1>1, <2>2, <2>4
    <3> HIDE DEF T
    <3>4. IsLast(S, k, f[k])
      BY <3>1, <3>2, <3>3, LastSteps
    <3> QED
      BY <2>2, <3>4
  <2> QED
    BY <2>3, <2>4
<1> QED
  BY <1>2

\* get_segment answers the last segment that has the name now, and none only if none has it.
LEMMA SegmentFound ==
  ASSUME NEW d, Sound(d), NEW i \in DOMAIN d.indexes, NEW n
  PROVE  IsLast({k \in DOMAIN d.indexes[i].segments : SegmentName(d, d.indexes[i].segments[k]) = n},
                Len(d.indexes[i].segments), GetSegment(d, i, n))
<1> DEFINE ss == d.indexes[i].segments
           S  == {k \in DOMAIN ss : SegmentName(d, ss[k]) = n}
           P(f) == f = [k \in 0 .. Len(ss) |->
                          IF k = 0 \/ SegmentName(d, ss[k]) = n THEN k ELSE f[k - 1]]
           last == CHOOSE f : P(f)
<1>1. d.indexes \in Seq(IndexDef)
  BY DEF Sound, Definition
<1>2. d.indexes[i] \in IndexDef
  BY <1>1
<1>3. ss \in Seq(Segment)
  BY <1>2 DEF IndexDef
<1>4. Len(ss) \in Nat /\ DOMAIN ss = 1 .. Len(ss)
  BY <1>3
<1>5. GetSegment(d, i, n) = last[Len(ss)]
  BY DEF GetSegment
<1>6. ASSUME NEW f
      PROVE  P(f) <=> Pops(S, Len(ss), f)
  <2> DEFINE g == [k \in 0 .. Len(ss) |->
                     IF k = 0 \/ SegmentName(d, ss[k]) = n THEN k ELSE f[k - 1]]
             h == [k \in 0 .. Len(ss) |-> IF k = 0 \/ k \in S THEN k ELSE f[k - 1]]
  <2>1. \A k \in 0 .. Len(ss) : k # 0 => (k \in S <=> SegmentName(d, ss[k]) = n)
    BY <1>4
  <2> HIDE DEF S, ss
  <2>2. g = h
    BY <2>1
  <2> QED
    BY <2>2 DEF Pops
<1>7. \E f : P(f)
  BY <1>4, <1>6, PopsExists
<1> HIDE DEF P
<1>8. P(last)
  BY <1>7
<1> HIDE DEF last
<1>9. Pops(S, Len(ss), last)
  BY <1>6, <1>8
<1> HIDE DEF S
<1>10. IsLast(S, Len(ss), last[Len(ss)])
  BY <1>4, <1>9, PopsFindsLast
<1> QED
  BY <1>5, <1>10 DEF S

\* A field is found by the name it has.
LEMMA FieldFound ==
  ASSUME NEW d, Sound(d), NEW k \in DOMAIN d.fields
  PROVE  GetField(d, FieldNames(d)[k]) = k
<1>1. FieldNames(d)[k] = d.fields[k].name
  BY DEF FieldNames
<1>2. {j \in DOMAIN d.fields : d.fields[j].name = d.fields[k].name} = {k}
  BY DEF Sound, OneNameEach
<1> QED
  BY <1>1, <1>2 DEF GetField, Numbered

\* So is an index.
LEMMA IndexFound ==
  ASSUME NEW d, Sound(d), NEW k \in DOMAIN d.indexes
  PROVE  GetIndex(d, d.indexes[k].name) = k
<1>1. {j \in DOMAIN d.indexes : d.indexes[j].name = d.indexes[k].name} = {k}
  BY DEF Sound, OneNameEach
<1> QED
  BY <1>1 DEF GetIndex, Numbered

\* The look-ups by name (ct_table.c get_field, get_index; ct_index.c get_segment) find what has
\* the name now, in definitions of any size, and get_segment finds nothing only if nothing has.
THEOREM LookUpsFind == Spec => []NamesAreFound
<1>1. ASSUME Inv, NEW d, Sound(d)
      PROVE  /\ \A k \in DOMAIN d.fields : GetField(d, FieldNames(d)[k]) = k
             /\ \A k \in DOMAIN d.indexes : GetIndex(d, d.indexes[k].name) = k
             /\ \A i \in DOMAIN d.indexes, n \in Names :
                  LET ss == d.indexes[i].segments
                      k  == GetSegment(d, i, n)
                  IN IF k = 0 THEN \A j \in DOMAIN ss : d.fields[ss[j].field].name # n
                              ELSE d.fields[ss[k].field].name = n
  <2>1. ASSUME NEW i \in DOMAIN d.indexes, NEW n \in Names
        PROVE  LET ss == d.indexes[i].segments
                   k  == GetSegment(d, i, n)
               IN IF k = 0 THEN \A j \in DOMAIN ss : d.fields[ss[j].field].name # n
                           ELSE d.fields[ss[k].field].name = n
    <3> DEFINE ss == d.indexes[i].segments
               k  == GetSegment(d, i, n)
               S  == {j \in DOMAIN ss : SegmentName(d, ss[j]) = n}
    <3>1. IsLast(S, Len(ss), k)
      BY <1>1, SegmentFound
    <3>2. d.indexes[i] \in IndexDef
      BY <1>1 DEF Sound, Definition
    <3>3. DOMAIN ss = 1 .. Len(ss) /\ Len(ss) \in Nat
      BY <3>2 DEF IndexDef
    <3>4. \A j \in DOMAIN ss : j \in S <=> d.fields[ss[j].field].name = n
      BY DEF SegmentName
    <3>5. S \subseteq DOMAIN ss
      OBVIOUS
    <3> HIDE DEF ss, k, S
    <3>6. k = 0 => \A j \in DOMAIN ss : j \notin S
      BY <3>1, <3>3 DEF IsLast
    <3>7. k # 0 => k \in S
      BY <3>1 DEF IsLast
    <3>8. IF k = 0 THEN \A j \in DOMAIN ss : d.fields[ss[j].field].name # n
                   ELSE d.fields[ss[k].field].name = n
      BY <3>4, <3>5, <3>6, <3>7
    <3> QED
      BY <3>8 DEF ss, k
  <2> QED
    BY <1>1, <2>1, FieldFound, IndexFound
<1>2. Inv => NamesAreFound
  BY <1>1 DEF NamesAreFound, Inv
<1> QED
  BY <1>2, Invariance, PTL

-----------------------------------------------------------------------------
(* The bytes that set! counts. *)

\* The bytes of one segment of a definition, as set! and as the server count them.
BytesOf(d, s) == d.fields[s.field].length - (IF AbsoluteByteOffset(s) THEN 1 ELSE 0)

\* set! adds up, over the names, the bytes of the segment that get_segment finds for each.
LEMMA SetBytesIsSum ==
  ASSUME NEW d, NEW i, NEW A, IsFiniteSet(A),
         NEW f, f = [n \in A |-> BytesOf(d, d.indexes[i].segments[GetSegment(d, i, n)])]
  PROVE  \E g : SumsOver(f, A, g) /\ SetBytes(d, i, A) = g[A]
<1> DEFINE ss == d.indexes[i].segments
           B(n) == d.fields[ss[GetSegment(d, i, n)].field].length
                     - (IF AbsoluteByteOffset(ss[GetSegment(d, i, n)]) THEN 1 ELSE 0)
           P(g) == g = [s \in SUBSET A |-> IF s = {} THEN 0
                                           ELSE B(CHOOSE x \in s : TRUE)
                                                  + g[s \ {CHOOSE x \in s : TRUE}]]
           iter == CHOOSE g : P(g)
<1>1. SetBytes(d, i, A) = iter[A]
  BY DEF SetBytes, MapThenSumSet, MapThenFoldSet
<1>2. ASSUME NEW g
      PROVE  P(g) <=> SumsOver(f, A, g)
  <2>1. \A n \in A : f[n] = B(n)
    BY DEF BytesOf
  <2> DEFINE p == [s \in SUBSET A |-> IF s = {} THEN 0
                                      ELSE B(CHOOSE x \in s : TRUE)
                                             + g[s \ {CHOOSE x \in s : TRUE}]]
             q == [s \in SUBSET A |-> Adds(f, g, s)]
  <2>2. ASSUME NEW s \in SUBSET A, s # {}
        PROVE  f[One(s)] = B(CHOOSE x \in s : TRUE)
    <3>1. One(s) \in s /\ One(s) = CHOOSE x \in s : TRUE
      BY <2>2 DEF One
    <3> HIDE DEF B
    <3> QED
      BY <2>1, <3>1
  <2>3. ASSUME NEW s \in SUBSET A
        PROVE  Adds(f, g, s) = IF s = {} THEN 0
                               ELSE B(CHOOSE x \in s : TRUE) + g[s \ {CHOOSE x \in s : TRUE}]
    <3>1. One(s) = CHOOSE x \in s : TRUE
      BY DEF One
    <3> HIDE DEF B
    <3>2. CASE s = {}
      BY <3>2 DEF Adds
    <3>3. CASE s # {}
      BY <2>2, <3>1, <3>3 DEF Adds
    <3> QED
      BY <3>2, <3>3
  <2> HIDE DEF B
  <2>4. p = q
    BY <2>3, Zenon
  <2> QED
    BY <2>4 DEF SumsOver
<1> HIDE DEF P
<1>3. \E g : P(g)
  BY <1>2, SumExists
<1>4. P(iter)
  BY <1>3
<1> HIDE DEF iter
<1> QED
  BY <1>1, <1>2, <1>4

\* The bytes of a segment in the server's keys, as they are added up.
KeyBytes(d, s) ==
  IF s.mode = "REGSEG" THEN d.fields[s.field].length - 1 ELSE d.fields[s.field].length

\* The server's keys have the bytes of their segments, one after the other.
LEMMA StoredBytesIsSum ==
  ASSUME NEW i, NEW n \in Nat,
         NEW e, e = [k \in 1 .. n |-> KeyBytes(stored, stored.indexes[i].segments[k])]
  PROVE  \E h : SumsOver(e, 1 .. n, h) /\ StoredBytes(i, n) = h[1 .. n]
<1> DEFINE B(k) == KeyBytes(stored, stored.indexes[i].segments[k])
           P(h) == h = [s \in SUBSET (1 .. n) |-> IF s = {} THEN 0
                                                  ELSE B(CHOOSE x \in s : TRUE)
                                                         + h[s \ {CHOOSE x \in s : TRUE}]]
           iter == CHOOSE h : P(h)
<1>1. StoredBytes(i, n) = iter[1 .. n]
  BY DEF StoredBytes, MapThenSumSet, MapThenFoldSet, KeyBytes
<1>2. ASSUME NEW h
      PROVE  P(h) <=> SumsOver(e, 1 .. n, h)
  <2>1. \A k \in 1 .. n : e[k] = B(k)
    OBVIOUS
  <2> DEFINE p == [s \in SUBSET (1 .. n) |-> IF s = {} THEN 0
                                             ELSE B(CHOOSE x \in s : TRUE)
                                                    + h[s \ {CHOOSE x \in s : TRUE}]]
             q == [s \in SUBSET (1 .. n) |-> Adds(e, h, s)]
  <2>2. ASSUME NEW s \in SUBSET (1 .. n), s # {}
        PROVE  e[One(s)] = B(CHOOSE x \in s : TRUE)
    <3>1. One(s) \in s /\ One(s) = CHOOSE x \in s : TRUE
      BY <2>2 DEF One
    <3> HIDE DEF B
    <3> QED
      BY <2>1, <3>1
  <2>3. ASSUME NEW s \in SUBSET (1 .. n)
        PROVE  Adds(e, h, s) = IF s = {} THEN 0
                               ELSE B(CHOOSE x \in s : TRUE) + h[s \ {CHOOSE x \in s : TRUE}]
    <3>1. One(s) = CHOOSE x \in s : TRUE
      BY DEF One
    <3> HIDE DEF B
    <3>2. CASE s = {}
      BY <3>2 DEF Adds
    <3>3. CASE s # {}
      BY <2>2, <3>1, <3>3 DEF Adds
    <3> QED
      BY <3>2, <3>3
  <2> HIDE DEF B
  <2>4. p = q
    BY <2>3, Zenon
  <2> QED
    BY <2>4 DEF SumsOver
<1> HIDE DEF P
<1>3. IsFiniteSet(1 .. n)
  BY FS_Interval
<1>4. \E h : P(h)
  BY <1>2, <1>3, SumExists
<1>5. P(iter)
  BY <1>4
<1> HIDE DEF iter
<1> QED
  BY <1>1, <1>2, <1>5

\* In a sound definition the two agree, and are natural numbers.
LEMMA BytesAgree ==
  ASSUME NEW d, Sound(d), NEW i \in DOMAIN d.indexes, NEW k \in DOMAIN d.indexes[i].segments
  PROVE  LET s == d.indexes[i].segments[k] IN BytesOf(d, s) = KeyBytes(d, s) /\ KeyBytes(d, s) \in Nat
<1> DEFINE s == d.indexes[i].segments[k]
<1>1. s.field \in DOMAIN d.fields
  BY DEF Sound, TypeOKOf
<1>2. d.fields[s.field] \in FieldDef
  BY <1>1 DEF Sound, TypeOKOf
<1>3. d.fields[s.field].length \in Nat \ {0}
  BY <1>2, LengthsArePositive DEF FieldDef
<1> HIDE DEF s
<1>4. BytesOf(d, s) = KeyBytes(d, s) /\ KeyBytes(d, s) \in Nat
  BY <1>3 DEF BytesOf, KeyBytes, AbsoluteByteOffset
<1> QED
  BY <1>4 DEF s

\* When every segment of an index is of another field, each is found by its name.
LEMMA SegmentByName ==
  ASSUME NEW d, Sound(d), NEW i \in DOMAIN d.indexes,
         \A j, k \in DOMAIN d.indexes[i].segments :
           d.indexes[i].segments[j].field = d.indexes[i].segments[k].field => j = k,
         NEW k \in DOMAIN d.indexes[i].segments
  PROVE  GetSegment(d, i, SegmentName(d, d.indexes[i].segments[k])) = k
<1> DEFINE ss == d.indexes[i].segments
           n  == SegmentName(d, ss[k])
           S  == {j \in DOMAIN ss : SegmentName(d, ss[j]) = n}
           g  == GetSegment(d, i, n)
<1>1. IsLast(S, Len(ss), g)
  BY SegmentFound
<1>2. d.indexes[i] \in IndexDef
  BY DEF Sound, Definition
<1>3. DOMAIN ss = 1 .. Len(ss) /\ Len(ss) \in Nat
  BY <1>2 DEF IndexDef
<1>4. ASSUME NEW j \in S PROVE j = k
  <2>1. j \in DOMAIN ss /\ d.fields[ss[j].field].name = d.fields[ss[k].field].name
    BY <1>4 DEF SegmentName
  <2>2. ss[j].field \in DOMAIN d.fields /\ ss[k].field \in DOMAIN d.fields
    BY <2>1 DEF Sound, TypeOKOf
  <2>3. ss[j].field = ss[k].field
    BY <2>1, <2>2 DEF Sound, OneNameEach
  <2> QED
    BY <2>1, <2>3
<1>5. k \in S
  OBVIOUS
<1> HIDE DEF g, S, n
<1>6. g # 0
  BY <1>1, <1>3, <1>5 DEF IsLast
<1>7. g \in S
  BY <1>1, <1>6 DEF IsLast
<1> QED
  BY <1>4, <1>7 DEF g, n

\* set! (query.rb) counts, for the segments of an index given by name, the bytes they have in
\* the server's keys, in an index of any number of segments and fields of any length, after any
\* renaming, altering, closing and opening, as long as the table's status shows no change.
THEOREM BytesFit == Spec => []SetBytesFit
<1>1. ASSUME Inv, active, ~status, NEW i \in DOMAIN def.indexes,
             NEW n \in 0 .. Len(def.indexes[i].segments),
             \A j, k \in DOMAIN def.indexes[i].segments :
               def.indexes[i].segments[j].field = def.indexes[i].segments[k].field => j = k
      PROVE  SetBytes(def, i, {SegmentName(def, def.indexes[i].segments[k]) : k \in 1 .. n})
               = StoredBytes(i, n)
  <2> DEFINE ss == def.indexes[i].segments
             B  == 1 .. n
             b  == [k \in B |-> SegmentName(def, ss[k])]
             A  == {SegmentName(def, ss[k]) : k \in B}
             f  == [m \in A |-> BytesOf(def, ss[GetSegment(def, i, m)])]
             e  == [k \in B |-> KeyBytes(stored, stored.indexes[i].segments[k])]
  <2>1. Sound(def) /\ def = stored
    BY <1>1 DEF Inv, AsStored
  <2>2. ss \in Seq(Segment)
    <3>1. def.indexes[i] \in IndexDef
      BY <1>1, <2>1 DEF Sound, Definition
    <3> QED
      BY <3>1 DEF IndexDef
  <2>3. n \in Nat /\ B \subseteq DOMAIN ss
    BY <1>1, <2>2
  <2>4. IsFiniteSet(B)
    BY <2>3, FS_Interval
  <2>5. IsFiniteSet(A)
    <3>1. b \in Surjection(B, A)
      BY DEF Surjection
    <3> HIDE DEF A, B, b
    <3> QED
      BY <2>4, <3>1, FS_Surjection
  <2>6. \A k \in B : GetSegment(def, i, SegmentName(def, ss[k])) = k
    BY <1>1, <2>1, <2>3, SegmentByName
  <2>7. \A k \in B : b[k] \in A /\ GetSegment(def, i, b[k]) = k
    BY <2>6
  <2>8. \A k \in B : BytesOf(def, ss[k]) = KeyBytes(def, ss[k]) /\ KeyBytes(def, ss[k]) \in Nat
    BY <1>1, <2>1, <2>3, BytesAgree
  <2>9. \A x \in A : \E k \in B : b[k] = x
    OBVIOUS
  <2>10. \A k \in B : e[k] = KeyBytes(def, ss[k])
    BY <2>1
  <2>11. \A x \in A : f[x] = BytesOf(def, ss[GetSegment(def, i, x)])
    OBVIOUS
  <2>12. PICK g : SumsOver(f, A, g) /\ SetBytes(def, i, A) = g[A]
    BY <2>5, SetBytesIsSum
  <2>13. PICK h : SumsOver(e, B, h) /\ StoredBytes(i, n) = h[B]
    BY <2>3, StoredBytesIsSum
  <2> HIDE DEF ss, B, b, A, f, e
  <2>14. \A k \in B : b[k] \in A /\ e[k] = f[b[k]]
    BY <2>7, <2>8, <2>10, <2>11
  <2>15. \A x \in A : f[x] \in Nat
    BY <2>7, <2>8, <2>9, <2>11
  <2>16. \A j, k \in B : b[j] = b[k] => j = k
    BY <2>7
  <2>17. g[A] = h[B]
    BY <2>4, <2>5, <2>9, <2>12, <2>13, <2>14, <2>15, <2>16, SameTerms
  <2> QED
    BY <2>12, <2>13, <2>17 DEF A, B, ss
<1>2. Inv => SetBytesFit
  BY <1>1 DEF SetBytesFit
<1> QED
  BY <1>2, Invariance, PTL
=============================================================================
