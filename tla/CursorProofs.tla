----------------------------- MODULE CursorProofs ----------------------------
(***************************************************************************)
(* Proofs about Cursor, for any indexes, records, filters and searches:    *)
(* its types, and that each yields in order, and in full, what it goes     *)
(* over, however other processes insert and delete.                        *)
(***************************************************************************)
EXTENDS Cursor, Sums

Buffers == [Fields -> Values \cup {0}]

SetTyped(s) == s # None => s \in RecordSets /\ Len(s.prefix) <= Len(Parts[s.index])

\* The conjuncts of TypeOK about the record itself.
RecordTyped ==
  /\ buffer \in Buffers
  /\ position \in Places \cup {None}
  /\ index \in Indexes /\ filter \in Filters \cup {None}
  /\ SetTyped(set)

-----------------------------------------------------------------------------
(* Keys, options and the values they have. *)

\* The key of a buffer is a sequence as long as its index.
LEMMA KeyTyped ==
  ASSUME NEW i \in Indexes, NEW b \in Buffers
  PROVE  Key(i, b) \in Seq(Values \cup {0}) /\ Len(Key(i, b)) = Len(Parts[i])
<1>1. Parts[i] \in Seq(Fields)
  BY IndexesTyped
<1>2. DOMAIN Parts[i] = 1 .. Len(Parts[i]) /\ Len(Parts[i]) \in Nat
  BY <1>1
<1>3. \A k \in 1 .. Len(Parts[i]) : b[Parts[i][k]] \in Values \cup {0}
  BY <1>1, <1>2 DEF Buffers
<1>4. Key(i, b) = [k \in 1 .. Len(Parts[i]) |-> b[Parts[i][k]]]
  BY <1>2 DEF Key
<1> QED
  BY <1>2, <1>3, <1>4

\* A record's fields fit the buffer.
LEMMA ContentFits ==
  ASSUME NEW r \in Places
  PROVE  Content[r] \in Buffers
BY ContentTyped DEF Buffers

\* The parts of a search's options.
LEMMA SearchTyped ==
  ASSUME NEW o \in Searches
  PROVE  /\ o.index \in Indexes \cup {None} /\ o.filter \in Filters \cup {None}
         /\ DOMAIN o.segments \subseteq Fields
         /\ \A f \in DOMAIN o.segments : o.segments[f] \in Values
<1>1. o \in Options
  BY SearchesTyped
<1>2. PICK F \in SUBSET Fields : o.segments \in [F -> Values]
  BY <1>1 DEF Options
<1> QED
  BY <1>1, <1>2 DEF Options

\* What prepare leaves in the record is of its types, whether it raises or not.
LEMMA PreparedTyped ==
  ASSUME TypeOK, NEW o \in Searches
  PROVE  /\ PreparedIndex(o) \in Indexes /\ PreparedFilter(o) \in Filters \cup {None}
         /\ PreparedBuffer(o) \in Buffers
BY SearchTyped DEF TypeOK, PreparedIndex, PreparedFilter, PreparedBuffer, Buffers

\* validate! lets through no more segments than the index has.
LEMMA PrefixFits ==
  ASSUME TypeOK, NEW o \in Searches, Valid(o)
  PROVE  /\ Cardinality(DOMAIN o.segments) \in Nat
         /\ Cardinality(DOMAIN o.segments) <= Len(Parts[PreparedIndex(o)])
<1>1. CASE DOMAIN o.segments = {}
  <2>1. PreparedIndex(o) \in Indexes
    BY PreparedTyped
  <2>2. Len(Parts[PreparedIndex(o)]) \in Nat
    BY <2>1, IndexesTyped
  <2>3. Cardinality(DOMAIN o.segments) = 0
    BY <1>1, FS_EmptySet
  <2> QED
    BY <2>2, <2>3
<1>2. CASE DOMAIN o.segments # {}
  <2>1. o.index \in Indexes /\ PreparedIndex(o) = o.index
    BY <1>2, SearchTyped DEF Valid, PreparedIndex
  <2> DEFINE s == Parts[o.index]
  <2>2. s \in Seq(Fields)
    BY <2>1, IndexesTyped
  <2>3. s \in [1 .. Len(s) -> Indexed(o.index)] /\ Len(s) \in Nat
    BY <2>2 DEF Indexed
  <2>4. s \in Surjection(1 .. Len(s), Indexed(o.index))
    <3>1. DOMAIN s = 1 .. Len(s)
      BY <2>3
    <3>2. \A t \in Indexed(o.index) : \E k \in 1 .. Len(s) : s[k] = t
      BY <3>1 DEF Indexed
    <3> HIDE DEF s
    <3> QED
      BY <2>3, <3>2 DEF Surjection
  <2>5. IsFiniteSet(1 .. Len(s)) /\ Cardinality(1 .. Len(s)) = Len(s)
    <3>1. 1 \in Int /\ Len(s) \in Int /\ Len(s) >= 0
      BY <2>3
    <3> HIDE DEF s
    <3>2. /\ IsFiniteSet(1 .. Len(s))
          /\ Cardinality(1 .. Len(s)) = IF 1 > Len(s) THEN 0 ELSE Len(s) - 1 + 1
      BY <3>1, FS_Interval
    <3> QED
      BY <3>1, <3>2
  <2>6. IsFiniteSet(Indexed(o.index)) /\ Cardinality(Indexed(o.index)) <= Len(s)
    BY <2>4, <2>5, FS_Surjection
  <2>7. DOMAIN o.segments \subseteq Indexed(o.index)
    BY <1>2 DEF Valid
  <2>8. /\ IsFiniteSet(DOMAIN o.segments)
        /\ Cardinality(DOMAIN o.segments) <= Cardinality(Indexed(o.index))
    BY <2>6, <2>7, FS_Subset
  <2>9. Cardinality(DOMAIN o.segments) \in Nat /\ Cardinality(Indexed(o.index)) \in Nat
    BY <2>6, <2>8, FS_CardinalityType
  <2> QED
    BY <2>1, <2>3, <2>6, <2>8, <2>9
<1> QED
  BY <1>1, <1>2

\* The set that set! opens is of its type, and no longer than its index.
LEMMA NewSetTyped ==
  ASSUME TypeOK, NEW o \in Searches, Valid(o)
  PROVE  SetTyped(NewSet(o)) /\ NewSet(o) # None
<1> DEFINE i == PreparedIndex(o)
           k == Key(i, PreparedBuffer(o))
           n == Cardinality(DOMAIN o.segments)
<1>1. i \in Indexes /\ PreparedBuffer(o) \in Buffers
  BY PreparedTyped
<1>2. k \in Seq(Values \cup {0}) /\ Len(k) = Len(Parts[i])
  BY <1>1, KeyTyped
<1>3. n \in Nat /\ n <= Len(Parts[i])
  BY PrefixFits
<1> HIDE DEF i, k, n
<1>4. SubSeq(k, 1, n) \in Seq(Values \cup {0}) /\ Len(SubSeq(k, 1, n)) = n
  BY <1>2, <1>3
<1> DEFINE p == SubSeq(k, 1, n)
<1>5. NewSet(o) = [index |-> i, prefix |-> p]
  BY DEF NewSet, i, k, n
<1>6. p \in Seq(Values \cup {0}) /\ Len(p) <= Len(Parts[i])
  BY <1>3, <1>4
<1> HIDE DEF p
<1>7. NewSet(o) \in RecordSets
  BY <1>1, <1>5, <1>6 DEF RecordSets
<1>8. NewSet(o) # None
  BY <1>7, NoneIsNothing
<1> QED
  BY <1>5, <1>6, <1>7, <1>8 DEF SetTyped

\* A move puts the record on one of the places it may come to.
LEMMA Landed ==
  ASSUME NEW R \in SUBSET Places, GoTo(R)
  PROVE  position' \in R /\ position' \in Places /\ buffer' \in Buffers
BY ContentFits DEF GoTo

-----------------------------------------------------------------------------
(* Types. *)

\* TypeOK, with its part about the record by name.
LEMMA TypeParts ==
  TypeOK <=> /\ rows \subseteq Places /\ RecordTyped
             /\ looping \in BOOLEAN /\ answer \in Answers /\ steady \in BOOLEAN
             /\ yielded \in Seq(Places) /\ stayed \subseteq rows
             /\ ~steady => yielded = <<>> /\ stayed = {}
BY DEF TypeOK, RecordTyped, SetTyped, Buffers

\* The same, of the next state.
LEMMA TypedNext ==
  ASSUME rows' \subseteq Places, RecordTyped',
         looping' \in BOOLEAN, answer' \in Answers, steady' \in BOOLEAN,
         yielded' \in Seq(Places), stayed' \subseteq rows',
         ~steady' => yielded' = <<>> /\ stayed' = {}
  PROVE  TypeOK'
<1>1. set' # None => set' \in RecordSets /\ Len(set'.prefix) <= Len(Parts[set'.index])
  BY DEF RecordTyped, SetTyped
<1>2. /\ buffer' \in [Fields -> Values \cup {0}] /\ position' \in Places \cup {None}
      /\ index' \in Indexes /\ filter' \in Filters \cup {None}
  BY DEF RecordTyped, Buffers
<1> QED
  BY <1>1, <1>2 DEF TypeOK

\* A call of the program that leaves the record typed keeps the types.
LEMMA DisturbedTyped ==
  ASSUME TypeOK, Disturbed, RecordTyped', answer' \in Answers
  PROVE  TypeOK'
<1>1. /\ rows' \subseteq Places
      /\ looping' \in BOOLEAN /\ steady' = FALSE
      /\ yielded' = <<>> /\ stayed' = {}
  BY DEF TypeOK, Disturbed
<1>2. yielded' \in Seq(Places)
  BY <1>1
<1> QED
  BY <1>1, <1>2, TypedNext

\* What a filter and a set let through, and the ends of it, are places.
LEMMA SeenArePlaces ==
  ASSUME TypeOK
  PROVE  /\ \A f, s : Through(f, s) \subseteq Places
         /\ \A i, R : R \subseteq Places => FirstOf(i, R) \subseteq R /\ LastOf(i, R) \subseteq R
         /\ \A r : After(r) \subseteq Places /\ Ahead(r) \subseteq Places
BY DEF TypeOK, Through, FirstOf, LastOf, After, Ahead

\* A search that leaves the record where it is, prepared for it, keeps the types.
LEMMA PreparedKeepsTypes ==
  ASSUME TypeOK, NEW o \in Searches, Prepared(o), answer' \in Answers,
         set' \in {set, None, NewSet(o)}
  PROVE  TypeOK'
<1>1. SetTyped(set) /\ SetTyped(None) /\ SetTyped(NewSet(o))
  BY TypeParts, NewSetTyped DEF RecordTyped, SetTyped, Prepared
<1>2. /\ buffer' \in Buffers /\ position' \in Places \cup {None}
      /\ index' \in Indexes /\ filter' \in Filters \cup {None}
  BY TypeParts, PreparedTyped DEF RecordTyped, Prepared
<1>3. SetTyped(set')
  BY <1>1
<1> QED
  BY <1>2, <1>3, DisturbedTyped DEF RecordTyped, SetTyped, Prepared

\* A search keeps the types.
LEMMA SearchKeepsTypes ==
  ASSUME TypeOK, NEW o \in Searches, Search(o)
  PROVE  TypeOK'
<1> USE DEF RecordTyped
<1>0. /\ RecordTyped
      /\ PreparedIndex(o) \in Indexes /\ PreparedFilter(o) \in Filters \cup {None}
      /\ PreparedBuffer(o) \in Buffers
  BY TypeParts, PreparedTyped
<1>1. CASE Invalid(o)
  BY <1>0, <1>1, DisturbedTyped DEF Invalid, Answers
<1>2. ASSUME NEW R \in SUBSET Places, Reach(o, R)
      PROVE  TypeOK'
  <2>1. buffer' \in Buffers /\ position' \in Places \cup {None}
    BY <1>0, <1>2, Landed DEF Reach
  <2> QED
    BY <1>0, <1>2, <2>1, DisturbedTyped DEF Reach, Answers
<1>3. CASE First(o) \/ Last(o)
  BY <1>2, <1>3, SeenArePlaces DEF First, Last, Seen
<1>4. CASE SetFinds(o)
  <2>1. FirstOf(index', Through(PreparedFilter(o), set')) \in SUBSET Places
    BY SeenArePlaces
  <2>2. buffer' \in Buffers /\ position' \in Places
    BY <1>4, <2>1, Landed DEF SetFinds
  <2>3. SetTyped(NewSet(o))
    BY <1>4, NewSetTyped DEF SetFinds
  <2> QED
    BY <1>0, <1>4, <2>2, <2>3, DisturbedTyped DEF SetFinds, Answers
<1>5. CASE ReachesNothing(o) \/ SetMisses(o) \/ SetFails(o) \/ SetOnFails(o) \/ FindFails(o)
  BY <1>5, PreparedKeepsTypes
  DEF ReachesNothing, SetMisses, SetFails, SetOnFails, FindFails, Miss, Answers
<1>6. ASSUME NEW m \in Modes, Find(m, o)
      PROVE  TypeOK'
  <2>1. Hits(m, o) \in SUBSET Places
    BY SeenArePlaces DEF Hits
  <2>2. NearestOf(index', m, Hits(m, o)) \in SUBSET Places
    BY <2>1, SeenArePlaces DEF NearestOf
  <2>3. buffer' \in Buffers /\ position' \in Places
    BY <1>6, <2>2, Landed DEF Find
  <2> QED
    BY <1>0, <1>6, <2>3, DisturbedTyped DEF Find, Answers
<1>7. ASSUME NEW m \in Modes, FindMisses(m, o)
      PROVE  TypeOK'
  BY <1>7, PreparedKeepsTypes DEF FindMisses, Miss, Answers
<1>8. CASE PrepareFails(o)
  <2>1. ASSUME NEW F \in SUBSET DOMAIN o.segments
        PROVE  [f \in Fields |-> IF f \in F THEN o.segments[f] ELSE buffer[f]] \in Buffers
    BY <1>0, SearchTyped DEF Buffers
  <2>2. buffer' \in Buffers /\ index' \in Indexes
    BY <1>0, <1>8, <2>1 DEF PrepareFails
  <2> QED
    BY <1>0, <1>8, <2>2, DisturbedTyped DEF PrepareFails, Answers
<1> QED
  BY <1>1, <1>3, <1>4, <1>5, <1>6, <1>7, <1>8 DEF Search

\* A move of the record keeps the types.
LEMMA MoveKeepsTypes ==
  ASSUME TypeOK, Move
  PROVE  TypeOK'
<1> USE DEF RecordTyped
<1>0. RecordTyped /\ answer \in Answers /\ rows \subseteq Places
  BY TypeParts
<1>1. CASE Clear
  <2>1. Cleared \in Buffers
    BY DEF Cleared, Buffers
  <2> QED
    BY <1>0, <1>1, <2>1, DisturbedTyped DEF Clear, target, Answers
<1>2. CASE SetOff
  <2>1. SetTyped(None)
    BY DEF SetTyped
  <2> QED
    BY <1>0, <1>2, <2>1, DisturbedTyped DEF SetOff, Answers
<1>3. ASSUME NEW i \in Indexes, SetDefaultIndex(i)
      PROVE  TypeOK'
  BY <1>0, <1>3, DisturbedTyped DEF SetDefaultIndex, Answers
<1>4. CASE Next1
  <2>1. FirstOf(Followed(index, set), After(position)) \in SUBSET Places
    BY SeenArePlaces
  <2>2. buffer' \in Buffers /\ position' \in Places
    BY <1>4, <2>1, Landed DEF Next1
  <2> QED
    BY <1>0, <1>4, <2>2, DisturbedTyped DEF Next1, target, Answers
<1>5. CASE Prev
  <2>1. LastOf(Followed(index, set), Ahead(position)) \in SUBSET Places
    BY SeenArePlaces
  <2>2. buffer' \in Buffers /\ position' \in Places
    BY <1>5, <2>1, Landed DEF Prev
  <2> QED
    BY <1>0, <1>5, <2>2, DisturbedTyped DEF Prev, target, Answers
<1>6. CASE MoveMisses \/ MoveFails
  BY <1>0, <1>6, DisturbedTyped DEF MoveMisses, MoveFails, target, Answers
<1>7. CASE Read
  <2>1. {position} \cap rows \in SUBSET Places
    BY <1>0
  <2>2. buffer' \in Buffers /\ position' \in Places
    BY <1>7, <2>1, Landed DEF Read
  <2> QED
    BY <1>0, <1>7, <2>2, DisturbedTyped DEF Read, target, Answers
<1>8. ASSUME NEW r \in Places, Seek(r)
      PROVE  TypeOK'
  <2>1. {r} \cap rows \in SUBSET Places
    BY <1>0
  <2>2. buffer' \in Buffers /\ position' \in Places
    BY <1>8, <2>1, Landed DEF Seek
  <2> QED
    BY <1>0, <1>8, <2>2, DisturbedTyped DEF Seek, target, Answers
<1> QED
  BY <1>1, <1>2, <1>3, <1>4, <1>5, <1>6, <1>7, <1>8 DEF Move

\* How each begins: the record, and the history, which is kept in step with it.
LEMMA Starts ==
  ASSUME TypeOK, EachStart
  PROVE  /\ buffer' \in Buffers /\ position' \in Places \cup {None}
         /\ steady' \in BOOLEAN /\ (steady' => position' \in Places)
         /\ yielded' = IF steady' THEN Append(yielded, position') ELSE <<>>
         /\ stayed' = IF steady' THEN rows ELSE {}
         /\ UNCHANGED <<rows, target, answer>> /\ looping' = TRUE
<1> DEFINE R == FirstOf(index, Through(filter, set))
<1>1. R \in SUBSET Places
  BY SeenArePlaces
<1>2. GoTo(R) \/ UNCHANGED <<buffer, position>>
  BY DEF EachStart
<1> HIDE DEF R
<1>3. buffer' \in Buffers /\ position' \in Places \cup {None}
  BY <1>1, <1>2, Landed DEF TypeOK, Buffers
<1> QED
  BY <1>3 DEF EachStart, Yield

\* The next row: where the record goes, and what is yielded.
LEMMA Nexts ==
  ASSUME TypeOK, EachNext
  PROVE  /\ buffer' \in Buffers /\ position' \in Places
         /\ position' \in FirstOf(Followed(index, set), After(position))
         /\ yielded' = IF steady THEN Append(yielded, position') ELSE <<>>
         /\ UNCHANGED <<steady, rows, target, looping, answer, stayed>>
<1> DEFINE R == FirstOf(Followed(index, set), After(position))
<1>1. R \in SUBSET Places
  BY SeenArePlaces
<1>2. GoTo(R)
  BY DEF EachNext
<1> HIDE DEF R
<1>3. buffer' \in Buffers /\ position' \in Places /\ position' \in R
  BY <1>1, <1>2, Landed
<1> QED
  BY <1>3 DEF EachNext, Yield, R

\* each, and what other processes do, keep the types.
LEMMA EachKeepsTypes ==
  ASSUME TypeOK, Each
  PROVE  TypeOK'
<1> USE DEF RecordTyped
<1>0. /\ RecordTyped /\ answer \in Answers /\ rows \subseteq Places
      /\ steady \in BOOLEAN /\ yielded \in Seq(Places) /\ stayed \subseteq rows
      /\ (~steady => yielded = <<>> /\ stayed = {})
  BY TypeParts
<1>1. CASE EachStart
  <2>1. yielded' \in Seq(Places)
    <3>1. /\ steady' => position' \in Places
          /\ yielded' = IF steady' THEN Append(yielded, position') ELSE <<>>
      BY <1>1, Starts
    <3>2. steady' => Append(yielded, position') \in Seq(Places)
      BY <1>0, <3>1
    <3> QED
      BY <3>1, <3>2
  <2>2. RecordTyped'
    BY <1>0, <1>1, Starts DEF target
  <2>3. /\ rows' = rows /\ looping' = TRUE /\ answer' = answer /\ steady' \in BOOLEAN
        /\ stayed' \subseteq rows' /\ (~steady' => yielded' = <<>> /\ stayed' = {})
    BY <1>1, Starts
  <2> QED
    BY <1>0, <1>1, <2>1, <2>2, <2>3, TypedNext
<1>2. CASE EachNext
  <2>1. yielded' \in Seq(Places)
    BY <1>0, <1>2, Nexts
  <2> QED
    BY <1>0, <1>2, <2>1, Nexts DEF TypeOK, target, SetTyped, Buffers
<1>3. CASE EachStop \/ EachRaises
  <2>1. RecordTyped'
    BY <1>0, <1>3 DEF EachStop, EachRaises, Ended, target
  <2>2. /\ rows' = rows /\ looping' = FALSE /\ answer' \in Answers /\ steady' = FALSE
        /\ yielded' = <<>> /\ stayed' = {}
    BY <1>3 DEF EachStop, EachRaises, Ended, Answers
  <2>3. yielded' \in Seq(Places)
    BY <2>2
  <2> QED
    BY <1>0, <2>1, <2>2, <2>3, TypedNext
<1> QED
  BY <1>1, <1>2, <1>3 DEF Each

\* Other processes keep the types: a record that is deleted is no longer one that stayed.
LEMMA OthersKeepTypes ==
  ASSUME TypeOK, NEW r \in Places, Insert(r) \/ Delete(r)
  PROVE  TypeOK'
<1>1. CASE Insert(r)
  BY <1>1 DEF Insert, TypeOK, target, history
<1>2. CASE Delete(r)
  BY <1>2 DEF Delete, TypeOK, target
<1> QED
  BY <1>1, <1>2

\* A process begins with a cleared record.
LEMMA InitTypes == Init => TypeOK
<1>1. Init => buffer \in Buffers
  BY DEF Init, Cleared, Buffers
<1>2. Init => yielded \in Seq(Places)
  BY DEF Init
<1> QED
  BY <1>1, <1>2, IndexesTyped DEF Init, TypeOK, Buffers, Answers

\* Every step keeps the types.
LEMMA NextTypes == TypeOK /\ [Next]_vars => TypeOK'
<1> SUFFICES ASSUME TypeOK, [Next]_vars
             PROVE  TypeOK'
  OBVIOUS
<1>1. CASE UNCHANGED vars
  BY <1>1 DEF TypeOK, vars
<1>2. CASE Next
  BY <1>2, SearchKeepsTypes, MoveKeepsTypes, EachKeepsTypes, OthersKeepTypes DEF Next
<1> QED
  BY <1>1, <1>2

\* Every variable keeps its type, and validate! never lets through a record set with a
\* prefix longer than its index (rb_ct_record_set_on).
THEOREM TypesHold == Spec => []TypeOK
BY InitTypes, NextTypes, PTL DEF Spec

-----------------------------------------------------------------------------
(* The order of an index. *)

\* Comparing keys of one length from the left is transitive.
LEMMA BelowTransitive ==
  ASSUME NEW n \in Nat, NEW a \in [1 .. n -> Nat], NEW b \in [1 .. n -> Nat],
         NEW c \in [1 .. n -> Nat], KeyBelow(a, b), KeyBelow(b, c)
  PROVE  KeyBelow(a, c)
<1>1. PICK k \in 1 .. n : a[k] < b[k] /\ \A l \in 1 .. k - 1 : a[l] = b[l]
  BY DEF KeyBelow
<1>2. PICK j \in 1 .. n : b[j] < c[j] /\ \A l \in 1 .. j - 1 : b[l] = c[l]
  BY DEF KeyBelow
<1>3. CASE k <= j
  <2>1. a[k] < c[k]
    <3>1. k < j => b[k] = c[k]
      BY <1>2
    <3>2. k = j => b[k] < c[k]
      BY <1>2
    <3>3. a[k] \in Nat /\ b[k] \in Nat /\ c[k] \in Nat /\ a[k] < b[k]
      BY <1>1
    <3> QED
      BY <1>3, <3>1, <3>2, <3>3
  <2>2. \A l \in 1 .. k - 1 : a[l] = c[l]
    BY <1>1, <1>2, <1>3
  <2> QED
    BY <2>1, <2>2 DEF KeyBelow
<1>4. CASE j < k
  <2>1. a[j] = b[j] /\ b[j] < c[j]
    BY <1>1, <1>2, <1>4
  <2>2. \A l \in 1 .. j - 1 : a[l] = c[l]
    BY <1>1, <1>2, <1>4
  <2> QED
    BY <2>1, <2>2 DEF KeyBelow
<1> QED
  BY <1>3, <1>4

\* Of two keys of one length that differ, one is below the other.
LEMMA BelowTotal ==
  ASSUME NEW n \in Nat, NEW a \in [1 .. n -> Nat], NEW b \in [1 .. n -> Nat], a # b
  PROVE  KeyBelow(a, b) \/ KeyBelow(b, a)
<1> DEFINE T == {k \in 1 .. n : a[k] # b[k]}
<1>1. T \in SUBSET Nat /\ T # {}
  <2>1. PICK k \in 1 .. n : a[k] # b[k]
    OBVIOUS
  <2>2. k \in T
    BY <2>1
  <2>3. \A y \in T : y \in Nat
    OBVIOUS
  <2> HIDE DEF T
  <2> QED
    BY <2>2, <2>3
<1> HIDE DEF T
<1>2. PICK k \in T : \A y \in T : ~(y < k)
  BY <1>1, LeastNumber
<1>3. k \in 1 .. n /\ a[k] # b[k] /\ a[k] \in Nat /\ b[k] \in Nat
  BY <1>2 DEF T
<1>4. \A j \in 1 .. k - 1 : a[j] = b[j] /\ b[j] = a[j]
  BY <1>2, <1>3 DEF T
<1>5. a[k] < b[k] \/ b[k] < a[k]
  BY <1>3
<1> QED
  BY <1>3, <1>4, <1>5 DEF KeyBelow

\* No key is below itself, and none is both below and above another.
LEMMA BelowStrict ==
  ASSUME NEW n \in Nat, NEW a \in [1 .. n -> Nat], NEW b \in [1 .. n -> Nat]
  PROVE  KeyBelow(a, b) => a # b /\ ~KeyBelow(b, a)
<1>1. ASSUME NEW c \in [1 .. n -> Nat], KeyBelow(c, c)
      PROVE  FALSE
  BY <1>1 DEF KeyBelow
<1>2. KeyBelow(a, b) => a # b
  BY <1>1
<1>3. KeyBelow(a, b) /\ KeyBelow(b, a) => KeyBelow(a, a)
  BY BelowTransitive
<1> QED
  BY <1>1, <1>2, <1>3

\* The keys of records are of one length, and made of numbers.
LEMMA KeyOfRecord ==
  ASSUME NEW i \in Indexes, NEW r \in Places
  PROVE  KeyAt[i][r] \in [1 .. Len(Parts[i]) -> Nat] /\ Len(Parts[i]) \in Nat
<1>1. Parts[i] \in Seq(Fields)
  BY IndexesTyped
<1>2. DOMAIN Parts[i] = 1 .. Len(Parts[i]) /\ Len(Parts[i]) \in Nat
  BY <1>1
<1>3. \A k \in 1 .. Len(Parts[i]) : Content[r][Parts[i][k]] \in Nat
  <2>1. Content[r] \in [Fields -> Values]
    BY ContentTyped
  <2>2. \A k \in 1 .. Len(Parts[i]) : Parts[i][k] \in Fields
    BY <1>1, <1>2
  <2> QED
    BY <2>1, <2>2, ValuesArePositive
<1>4. KeyAt[i][r] = [k \in 1 .. Len(Parts[i]) |-> Content[r][Parts[i][k]]]
  BY <1>2 DEF KeyAt, Key
<1> QED
  BY <1>2, <1>3, <1>4

\* What precedes in an index, spelt out.
LEMMA PrecedesIff ==
  ASSUME NEW i \in Indexes, NEW r \in Places, NEW q \in Places
  PROVE  Precedes(i, r, q) <=> \/ KeyBelow(KeyAt[i][r], KeyAt[i][q])
                               \/ KeyAt[i][r] = KeyAt[i][q] /\ r < q
BY DEF Precedes, Order

\* An index orders its records.
LEMMA PrecedesTransitive ==
  ASSUME NEW i \in Indexes, NEW p \in Places, NEW q \in Places, NEW r \in Places,
         Precedes(i, p, q), Precedes(i, q, r)
  PROVE  Precedes(i, p, r)
<1> DEFINE a == KeyAt[i][p]
           b == KeyAt[i][q]
           c == KeyAt[i][r]
<1>1. /\ Len(Parts[i]) \in Nat
      /\ a \in [1 .. Len(Parts[i]) -> Nat] /\ b \in [1 .. Len(Parts[i]) -> Nat]
      /\ c \in [1 .. Len(Parts[i]) -> Nat]
  BY KeyOfRecord
<1>2. KeyBelow(a, b) \/ (a = b /\ p < q)
  BY PrecedesIff
<1>3. KeyBelow(b, c) \/ (b = c /\ q < r)
  BY PrecedesIff
<1>4. (KeyBelow(a, c) \/ (a = c /\ p < r)) => Precedes(i, p, r)
  BY PrecedesIff
<1> HIDE DEF a, b, c
<1>5. p \in Nat /\ q \in Nat /\ r \in Nat
  BY PlacesAreNumbers
<1>6. KeyBelow(a, b) /\ KeyBelow(b, c) => KeyBelow(a, c)
  BY <1>1, BelowTransitive
<1> QED
  BY <1>2, <1>3, <1>4, <1>5, <1>6

\* No two records come both before and after one another, and of two that differ one comes
\* before the other.
LEMMA PrecedesTotal ==
  ASSUME NEW i \in Indexes, NEW r \in Places, NEW q \in Places
  PROVE  /\ Precedes(i, r, q) => r # q /\ ~Precedes(i, q, r)
         /\ r # q => Precedes(i, r, q) \/ Precedes(i, q, r)
<1> DEFINE a == KeyAt[i][r]
           b == KeyAt[i][q]
<1>1. /\ Len(Parts[i]) \in Nat
      /\ a \in [1 .. Len(Parts[i]) -> Nat] /\ b \in [1 .. Len(Parts[i]) -> Nat]
  BY KeyOfRecord
<1>2. /\ Precedes(i, r, q) <=> KeyBelow(a, b) \/ (a = b /\ r < q)
      /\ Precedes(i, q, r) <=> KeyBelow(b, a) \/ (b = a /\ q < r)
  BY PrecedesIff
<1>3. r = q => a = b
  OBVIOUS
<1> HIDE DEF a, b
<1>4. /\ KeyBelow(a, b) => a # b /\ ~KeyBelow(b, a)
      /\ KeyBelow(b, a) => a # b
  BY <1>1, BelowStrict
<1>5. a # b => KeyBelow(a, b) \/ KeyBelow(b, a)
  BY <1>1, BelowTotal
<1>6. r \in Nat /\ q \in Nat
  BY PlacesAreNumbers
<1> QED
  BY <1>2, <1>3, <1>4, <1>5, <1>6

\* Of a finite set of records one comes before all others, in any index ...
LEMMA SomeFirst ==
  ASSUME NEW i \in Indexes, NEW R \in SUBSET Places, IsFiniteSet(R), R # {}
  PROVE  FirstOf(i, R) # {}
<1> DEFINE G == {s \in SUBSET R : s = {} \/ FirstOf(i, s) # {}}
<1>1. ASSUME NEW s \in SUBSET R, \A x \in s : s \ {x} \in G
      PROVE  s \in G
  <2> SUFFICES ASSUME NEW x \in s
               PROVE  FirstOf(i, s) # {}
    OBVIOUS
  <2>1. CASE s \ {x} = {}
    BY <2>1 DEF FirstOf
  <2>2. CASE s \ {x} # {}
    <3>1. PICK r \in s \ {x} : \A q \in (s \ {x}) \ {r} : Precedes(i, r, q)
      BY <1>1, <2>2 DEF FirstOf
    <3>2. r \in Places /\ x \in Places /\ r # x /\ s \subseteq Places
      BY <3>1
    <3>3. CASE Precedes(i, r, x)
      BY <3>1, <3>3 DEF FirstOf
    <3>4. CASE Precedes(i, x, r)
      <4>1. \A q \in s \ {x} : Precedes(i, x, q)
        BY <3>1, <3>2, <3>4, PrecedesTransitive
      <4> QED
        BY <4>1 DEF FirstOf
    <3> QED
      BY <3>2, <3>3, <3>4, PrecedesTotal
  <2> QED
    BY <2>1, <2>2
<1>2. G \in SUBSET SUBSET R
  OBVIOUS
<1> HIDE DEF G
<1>3. G = SUBSET R
  BY <1>1, <1>2, BySize
<1> QED
  BY <1>3 DEF G

\* ... and one after all others.
LEMMA SomeLast ==
  ASSUME NEW i \in Indexes, NEW R \in SUBSET Places, IsFiniteSet(R), R # {}
  PROVE  LastOf(i, R) # {}
<1> DEFINE G == {s \in SUBSET R : s = {} \/ LastOf(i, s) # {}}
<1>1. ASSUME NEW s \in SUBSET R, \A x \in s : s \ {x} \in G
      PROVE  s \in G
  <2> SUFFICES ASSUME NEW x \in s
               PROVE  LastOf(i, s) # {}
    OBVIOUS
  <2>1. CASE s \ {x} = {}
    BY <2>1 DEF LastOf
  <2>2. CASE s \ {x} # {}
    <3>1. PICK r \in s \ {x} : \A q \in (s \ {x}) \ {r} : Precedes(i, q, r)
      BY <1>1, <2>2 DEF LastOf
    <3>2. r \in Places /\ x \in Places /\ r # x /\ s \subseteq Places
      BY <3>1
    <3>3. CASE Precedes(i, x, r)
      BY <3>1, <3>3 DEF LastOf
    <3>4. CASE Precedes(i, r, x)
      <4>1. \A q \in s \ {x} : Precedes(i, q, x)
        BY <3>1, <3>2, <3>4, PrecedesTransitive
      <4> QED
        BY <4>1 DEF LastOf
    <3> QED
      BY <3>2, <3>3, <3>4, PrecedesTotal
  <2> QED
    BY <2>1, <2>2
<1>2. G \in SUBSET SUBSET R
  OBVIOUS
<1> HIDE DEF G
<1>3. G = SUBSET R
  BY <1>1, <1>2, BySize
<1> QED
  BY <1>3 DEF G

\* A search, a move and a turn of each that find anything have one record to stand on: an
\* index has one first and one last of any records seen, those with one key included.
THEOREM OneNearest ==
  ASSUME NEW i \in Indexes, NEW R \in SUBSET Places, IsFiniteSet(R), R # {}
  PROVE  (\E r \in R : FirstOf(i, R) = {r}) /\ (\E r \in R : LastOf(i, R) = {r})
<1>1. \A r, q \in Places : Precedes(i, r, q) => r # q /\ ~Precedes(i, q, r)
  BY PrecedesTotal
<1>2. PICK r : r \in FirstOf(i, R)
  BY SomeFirst
<1>3. PICK l : l \in LastOf(i, R)
  BY SomeLast
<1>4. r \in R /\ FirstOf(i, R) = {r}
  BY <1>1, <1>2 DEF FirstOf
<1>5. l \in R /\ LastOf(i, R) = {l}
  BY <1>1, <1>3 DEF LastOf
<1> QED
  BY <1>4, <1>5

-----------------------------------------------------------------------------
(* What each yields. *)

\* While the block leaves the record alone, the record stands on the row yielded last.
Standing ==
  /\ steady => looping
  /\ steady => /\ position \in Places
               /\ yielded # <<>> /\ position = yielded[Len(yielded)]

\* What was there all the time was yielded, or is still ahead.
Covered ==
  steady => \A r \in stayed \cap Through(filter, set) :
              \/ \E k \in DOMAIN yielded : yielded[k] = r
              \/ Precedes(Followed(index, set), position, r)

Inv == TypeOK /\ Standing /\ TraversalOrdered /\ Covered

\* Moves follow an index of the table.
LEMMA FollowedTyped ==
  ASSUME TypeOK
  PROVE  Followed(index, set) \in Indexes
<1>1. index \in Indexes /\ (set # None => set \in RecordSets)
  BY DEF TypeOK
<1> QED
  BY <1>1 DEF Followed, RecordSets

\* Whatever ends or disturbs the traversal leaves nothing to be kept.
LEMMA Unsteady ==
  ASSUME ~steady', yielded' = <<>>
  PROVE  Standing' /\ TraversalOrdered' /\ Covered'
BY DEF Standing, TraversalOrdered, Covered

\* each that is promised to keep the order starts on the first record there is to see.
LEMMA StartsFirst ==
  ASSUME Inv, EachStart, steady'
  PROVE  LET seen == Through(filter, set) IN
         /\ seen # {} => position' \in seen
         /\ \A r \in seen : r = position' \/ Precedes(Followed(index, set), position', r)
<1> DEFINE seen == Through(filter, set)
<1>1. position' \in FirstOf(Followed(index, set), seen) \/ seen = {}
  BY DEF EachStart
<1> QED
  BY <1>1 DEF FirstOf

\* each that starts on the first record has yielded it, and all others are ahead.
LEMMA StartCovers ==
  ASSUME Inv, EachStart
  PROVE  Standing' /\ TraversalOrdered' /\ Covered'
<1> DEFINE seen == Through(filter, set)
<1>1. TypeOK /\ yielded = <<>> /\ ~steady
  BY DEF Inv, TypeOK, Standing, EachStart
<1>2. /\ steady' \in BOOLEAN /\ (steady' => position' \in Places)
      /\ yielded' = IF steady' THEN Append(yielded, position') ELSE <<>>
      /\ stayed' = IF steady' THEN rows ELSE {}
      /\ looping' = TRUE /\ rows' = rows /\ index' = index /\ filter' = filter /\ set' = set
  BY <1>1, Starts DEF target
<1>3. CASE ~steady'
  BY <1>2, <1>3, Unsteady
<1>4. CASE steady'
  <2>1. yielded' = <<position'>> /\ Len(yielded') = 1 /\ yielded'[1] = position'
    BY <1>1, <1>2, <1>4
  <2>2. Standing'
    BY <1>2, <1>4, <2>1 DEF Standing
  <2>3. TraversalOrdered'
    BY <2>1 DEF TraversalOrdered
  <2>4. \A r \in seen : r = position' \/ Precedes(Followed(index, set), position', r)
    BY <1>4, StartsFirst
  <2>5. Through(filter, set)' = seen
    BY <1>2 DEF Through
  <2>6. DOMAIN yielded' = {1}
    BY <2>1
  <2>7. Covered'
    BY <1>2, <2>1, <2>4, <2>5, <2>6 DEF Covered
  <2> QED
    BY <2>2, <2>3, <2>7
<1> QED
  BY <1>2, <1>3, <1>4

\* The next record is after all those yielded, and no record is passed over.
LEMMA NextCovers ==
  ASSUME Inv, EachNext
  PROVE  Standing' /\ TraversalOrdered' /\ Covered'
<1> DEFINE i == Followed(index, set)
<1>1. TypeOK /\ Standing /\ TraversalOrdered /\ Covered /\ steady \in BOOLEAN
  BY DEF Inv, TypeOK
<1>2. /\ position' \in Places /\ position' \in FirstOf(i, After(position))
      /\ yielded' = IF steady THEN Append(yielded, position') ELSE <<>>
      /\ steady' = steady /\ looping' = looping /\ stayed' = stayed /\ rows' = rows
      /\ index' = index /\ filter' = filter /\ set' = set
  BY <1>1, Nexts DEF target
<1>3. CASE ~steady
  BY <1>2, <1>3, Unsteady
<1>4. CASE steady
  <2>1. /\ looping /\ position \in Places /\ yielded \in Seq(Places) /\ yielded # <<>>
        /\ position = yielded[Len(yielded)] /\ i \in Indexes
    BY <1>1, <1>4, FollowedTyped DEF Standing, TypeOK
  <2>2. /\ Precedes(i, position, position')
        /\ \A q \in After(position) : q = position' \/ Precedes(i, position', q)
    BY <1>2 DEF FirstOf, After
  <2>3. yielded' = Append(yielded, position')
    BY <1>2, <1>4
  <2>4. /\ Len(yielded) \in Nat \ {0} /\ Len(yielded') = Len(yielded) + 1
        /\ DOMAIN yielded = 1 .. Len(yielded) /\ DOMAIN yielded' = 1 .. Len(yielded) + 1
        /\ \A k \in 1 .. Len(yielded) : yielded'[k] = yielded[k]
        /\ yielded'[Len(yielded) + 1] = position'
    BY <2>1, <2>3
  <2>5. Standing'
    <3>1. yielded' # <<>> /\ yielded'[Len(yielded')] = position'
      BY <2>4
    <3> QED
      BY <1>2, <2>1, <3>1 DEF Standing
  <2>6. TraversalOrdered'
    <3>1. ASSUME NEW k \in 1 .. Len(yielded)
          PROVE  Precedes(i, yielded[k], position')
      <4>2. CASE k = Len(yielded)
        BY <2>1, <2>2, <4>2
      <4>3. CASE k < Len(yielded)
        <5>1. k \in 1 .. Len(yielded) - 1 /\ Len(yielded) \in DOMAIN yielded
          BY <2>4, <4>3
        <5>2. Precedes(i, yielded[k], yielded[Len(yielded)])
          BY <1>1, <5>1 DEF TraversalOrdered
        <5>3. yielded[k] \in Places
          BY <2>1, <2>4
        <5> QED
          BY <1>2, <2>1, <2>2, <5>2, <5>3, PrecedesTransitive
      <4>4. k \in Nat /\ Len(yielded) \in Nat /\ k <= Len(yielded)
        BY <2>1
      <4> QED
        BY <4>2, <4>3, <4>4
    <3>2. ASSUME NEW k \in 1 .. Len(yielded) + 1, NEW j \in 1 .. k - 1
          PROVE  Precedes(i, yielded'[j], yielded'[k])
      <4>1. j \in 1 .. Len(yielded) /\ yielded'[j] = yielded[j]
        BY <2>4
      <4>2. CASE k = Len(yielded) + 1
        BY <2>4, <3>1, <4>1, <4>2
      <4>3. CASE k \in 1 .. Len(yielded)
        <5>1. Precedes(i, yielded[j], yielded[k])
          BY <1>1, <2>4, <4>3 DEF TraversalOrdered
        <5> QED
          BY <2>4, <4>1, <4>3, <5>1
      <4> QED
        BY <2>4, <4>2, <4>3
    <3>3. Followed(index, set)' = i
      BY <1>2 DEF Followed
    <3> QED
      BY <2>4, <3>2, <3>3 DEF TraversalOrdered
  <2>7. Covered'
    <3>1. Through(filter, set)' = Through(filter, set) /\ Followed(index, set)' = i
      BY <1>2 DEF Through, Followed
    <3>2. ASSUME NEW r \in stayed \cap Through(filter, set)
          PROVE  (\E k \in DOMAIN yielded' : yielded'[k] = r) \/ Precedes(i, position', r)
      <4>1. CASE \E k \in DOMAIN yielded : yielded[k] = r
        BY <2>4, <4>1
      <4>2. CASE Precedes(i, position, r)
        <5>1. r = position' \/ Precedes(i, position', r)
          BY <2>2, <4>2 DEF After
        <5> QED
          BY <2>4, <5>1
      <4> QED
        BY <1>1, <1>4, <4>1, <4>2 DEF Covered
    <3> QED
      BY <1>2, <3>1, <3>2 DEF Covered
  <2> QED
    BY <2>5, <2>6, <2>7
<1> QED
  BY <1>1, <1>3, <1>4

\* Records come and go around each without touching what it has to yield.
LEMMA OthersKeepCover ==
  ASSUME Inv, NEW p \in Places, Insert(p) \/ Delete(p)
  PROVE  Standing' /\ TraversalOrdered' /\ Covered'
<1>1. /\ looping' = looping /\ position' = position /\ yielded' = yielded
      /\ steady' = steady /\ index' = index /\ filter' = filter /\ set' = set
      /\ stayed' \subseteq stayed
  BY DEF Insert, Delete, target, history
<1>2. Standing'
  BY <1>1 DEF Inv, Standing
<1>3. TraversalOrdered'
  BY <1>1 DEF Inv, TraversalOrdered, Followed
<1>4. stayed' \cap Through(filter, set)' \subseteq stayed \cap Through(filter, set)
  <2>1. stayed \subseteq rows
    BY DEF Inv, TypeOK
  <2> QED
    BY <1>1, <2>1 DEF Through
<1>5. Covered'
  BY <1>1, <1>4 DEF Inv, Covered, Followed
<1> QED
  BY <1>2, <1>3, <1>5

\* Every step keeps the invariant; every call of the program on the record ends what it says.
LEMMA CoverKept == Inv /\ [Next]_vars => Inv'
<1> SUFFICES ASSUME Inv, [Next]_vars
             PROVE  Standing' /\ TraversalOrdered' /\ Covered'
  BY NextTypes DEF Inv
<1>1. ASSUME Disturbed
      PROVE  Standing' /\ TraversalOrdered' /\ Covered'
  BY <1>1, Unsteady DEF Disturbed
<1>2. ASSUME NEW o \in Searches, Search(o)
      PROVE  Disturbed
  BY <1>2 DEF Search, Invalid, PrepareFails, Prepared, First, Last, Reach, ReachesNothing,
     SetFinds, SetMisses, SetFails, SetOnFails, Find, FindMisses, FindFails
<1>3. Move => Disturbed
  BY DEF Move, Clear, SetOff, Next1, Prev, MoveMisses, MoveFails, Read, Seek, SetDefaultIndex
<1>4. EachStop \/ EachRaises => Standing' /\ TraversalOrdered' /\ Covered'
  BY Unsteady DEF EachStop, EachRaises, Ended
<1>5. CASE UNCHANGED vars
  <2>1. /\ rows' = rows /\ position' = position /\ index' = index /\ filter' = filter
        /\ set' = set /\ looping' = looping /\ steady' = steady /\ yielded' = yielded
        /\ stayed' = stayed
    BY <1>5 DEF vars
  <2>2. Standing'
    BY <2>1 DEF Inv, Standing
  <2>3. TraversalOrdered'
    BY <2>1 DEF Inv, TraversalOrdered, Followed
  <2>4. Covered'
    BY <2>1 DEF Inv, Covered, Through, Followed
  <2> QED
    BY <2>2, <2>3, <2>4
<1>6. CASE Next
  <2>1. CASE \E o \in Searches : Search(o)
    BY <1>1, <1>2, <2>1
  <2>2. CASE Move
    BY <1>1, <1>3, <2>2
  <2>3. CASE Each
    BY <1>4, <2>3, StartCovers, NextCovers DEF Each
  <2>4. CASE \E r \in Places : Insert(r) \/ Delete(r)
    BY <2>4, OthersKeepCover
  <2> QED
    BY <1>6, <2>1, <2>2, <2>3, <2>4 DEF Next
<1> QED
  BY <1>5, <1>6

\* Nothing is promised before each starts.
LEMMA InitCovers == Init => Inv
<1>1. Init => Standing /\ TraversalOrdered /\ Covered
  BY DEF Init, Standing, TraversalOrdered, Covered
<1> QED
  BY <1>1, InitTypes DEF Inv

\* Inv holds in every reachable state.
THEOREM Invariance == Spec => []Inv
BY InitCovers, CoverKept, PTL DEF Spec

\* While its block leaves the record alone, each (query.rb) yields the records in the order
\* of the index and none twice, for any index and whatever other processes insert and delete.
THEOREM YieldsInOrder == Spec => []TraversalOrdered
<1>1. Inv => TraversalOrdered
  BY DEF Inv
<1> QED
  BY <1>1, Invariance, PTL

\* An each that began on the first record and returns, so that neither first nor next has
\* failed, has yielded every record that its filter and its set let through and that was
\* there all the time.
THEOREM YieldsAll == Spec => TraversalComplete
<1> DEFINE Complete == EachStop /\ steady =>
             \A r \in stayed \cap Through(filter, set) : \E k \in DOMAIN yielded : yielded[k] = r
<1>1. ASSUME Inv
      PROVE  Complete
  <2> SUFFICES ASSUME EachStop, steady, NEW r \in stayed \cap Through(filter, set)
               PROVE  \E k \in DOMAIN yielded : yielded[k] = r
    OBVIOUS
  <2>1. position \in Places
    BY <1>1 DEF Inv, Standing
  <2>2. After(position) = {}
    BY <2>1, NoneIsNothing DEF EachStop
  <2>3. ~Precedes(Followed(index, set), position, r)
    BY <2>2 DEF After
  <2> QED
    BY <1>1, <2>3 DEF Inv, Covered
<1>2. Inv /\ [Next]_vars => [Complete]_vars
  BY <1>1
<1> HIDE DEF Complete
<1>3. Spec => [][Complete]_vars
  BY <1>2, Invariance, PTL DEF Spec
<1> QED
  BY <1>3 DEF TraversalComplete, Complete

-----------------------------------------------------------------------------
(* The refinement of Traversal. *)

\* Where nothing is promised, nothing is owed and no order is to be kept.
LEMMA NothingOwed ==
  /\ TypeOK /\ ~steady => Owed = {} /\ Path = {} /\ yielded = <<>>
  /\ TypeOK' /\ ~steady' => Owed' = {} /\ Path' = {} /\ yielded' = <<>>
BY DEF TypeOK, Owed, Path

\* each begins a traversal, of all there is to see or without a promise.
LEMMA WalkBegins ==
  ASSUME Inv, Inv', EachStart
  PROVE  Walk!Next
<1> DEFINE seen == Through(filter, set)
           o    == Order[Followed(index, set)]
           x    == position'
<1>1. /\ ~looping /\ ~steady /\ yielded = <<>>
      /\ looping' = TRUE /\ rows' = rows /\ index' = index /\ filter' = filter /\ set' = set
      /\ answer' = answer
      /\ yielded' = (IF steady' THEN Append(yielded, x) ELSE <<>>)
      /\ stayed' = (IF steady' THEN rows ELSE {})
      /\ steady' \in BOOLEAN /\ (steady' => x \in Places)
  BY Starts DEF Inv, TypeOK, Standing, EachStart, target
<1>2. CASE ~steady'
  <2>1. Walk!BeginAnywhere
    BY <1>1, <1>2, NothingOwed DEF Walk!BeginAnywhere, Walk!Nothing, Inv
  <2> QED
    BY <2>1 DEF Walk!Next
<1>3. CASE steady'
  <2>1. seen \in SUBSET rows /\ seen' = seen
    BY <1>1 DEF Through
  <2>2. yielded' = <<x>>
    BY <1>1, <1>3
  <2>3. Owed' = seen \ {x}
    <3>1. DOMAIN yielded' = {1} /\ yielded'[1] = x
      BY <2>2
    <3> HIDE DEF x, seen
    <3>2. \A r : (\A k \in DOMAIN yielded' : yielded'[k] # r) <=> r # x
      BY <3>1
    <3>3. Owed' = {r \in rows \cap seen : \A k \in DOMAIN yielded' : yielded'[k] # r}
      BY <1>1, <1>3, <2>1 DEF Owed, seen
    <3> QED
      BY <2>1, <3>2, <3>3
  <2>4. Path' = o /\ Followed(index, set) \in Indexes
    BY <1>1, <1>3, FollowedTyped DEF Path, Followed, Inv
  <2>5. /\ seen # {} => x \in seen
        /\ \A y \in seen \ {x} : <<x, y>> \in o
    BY <1>3, StartsFirst DEF Precedes
  <2> HIDE DEF seen, o, x
  <2>6. Walk!Begin(o, seen, x)
    BY <1>1, <1>3, <2>2, <2>3, <2>4, <2>5 DEF Walk!Begin
  <2>7. o \in {Order[i] : i \in Indexes} /\ x \in Places
    BY <1>1, <1>3, <2>4 DEF o
  <2> QED
    BY <2>1, <2>6, <2>7 DEF Walk!Next
<1> QED
  BY <1>1, <1>2, <1>3

\* each gives the next record, which no record owed comes before.
LEMMA WalkGives ==
  ASSUME Inv, Inv', EachNext
  PROVE  Walk!Next \/ UNCHANGED Walk!vars
<1> DEFINE i == Followed(index, set)
           x == position'
<1>1. /\ x \in Places /\ x \in FirstOf(i, After(position))
      /\ yielded' = (IF steady THEN Append(yielded, x) ELSE <<>>)
      /\ steady' = steady /\ looping' = looping /\ stayed' = stayed /\ rows' = rows
      /\ index' = index /\ filter' = filter /\ set' = set /\ answer' = answer
  BY Nexts DEF target, Inv
<1>2. CASE ~steady
  BY <1>1, <1>2, NothingOwed DEF Walk!vars, Inv
<1>3. CASE steady
  <2>1. looping /\ yielded \in Seq(Places) /\ position \in Places
    BY <1>3 DEF Inv, TypeOK, Standing
  <2>2. /\ DOMAIN yielded = 1 .. Len(yielded) /\ DOMAIN yielded' = 1 .. Len(yielded) + 1
        /\ \A k \in DOMAIN yielded : yielded'[k] = yielded[k]
        /\ yielded'[Len(yielded) + 1] = x /\ yielded' = Append(yielded, x)
        /\ Len(yielded) \in Nat
    BY <1>1, <1>3, <2>1
  <2>3. x \in rows /\ \A q \in After(position) \ {x} : Precedes(i, x, q)
    BY <1>1 DEF FirstOf, After, Through
  <2>4. Followed(index, set)' = i /\ Through(filter, set)' = Through(filter, set)
    BY <1>1 DEF Followed, Through
  <2>5. Path = Order[i] /\ Path' = Path
    BY <1>1, <1>3, <2>4 DEF Path
  <2>6. \A y \in Owed \ {x} : <<x, y>> \in Path
    <3>1. \A y \in Owed : Precedes(i, position, y) /\ y \in Through(filter, set)
      BY <1>3 DEF Inv, Covered, Owed
    <3>2. \A y \in Owed : y \in After(position)
      BY <3>1 DEF After
    <3> QED
      BY <2>3, <2>5, <3>2 DEF Precedes
  <2>7. \A k \in DOMAIN yielded : <<yielded[k], x>> \in Path
    <3>1. TraversalOrdered'
      BY DEF Inv
    <3>2. ASSUME NEW k \in DOMAIN yielded
          PROVE  Precedes(i, yielded'[k], yielded'[Len(yielded) + 1])
      <4>1. k \in 1 .. (Len(yielded) + 1) - 1 /\ Len(yielded) + 1 \in DOMAIN yielded'
        BY <2>2
      <4> QED
        BY <2>4, <3>1, <4>1 DEF TraversalOrdered
    <3> QED
      BY <2>2, <2>5, <3>2 DEF Precedes
  <2>8. Owed' = Owed \ {x}
    <3>1. \A r : (\A k \in DOMAIN yielded' : yielded'[k] # r)
                   <=> r # x /\ \A k \in DOMAIN yielded : yielded[k] # r
      BY <2>2
    <3>2. Owed' = {r \in stayed \cap Through(filter, set) : \A k \in DOMAIN yielded' : yielded'[k] # r}
      BY <1>1, <2>4 DEF Owed
    <3> HIDE DEF x
    <3> QED
      BY <3>1, <3>2 DEF Owed
  <2> HIDE DEF x
  <2>9. Walk!Give(x)
    BY <1>1, <1>3, <2>1, <2>2, <2>3, <2>5, <2>6, <2>7, <2>8 DEF Walk!Give
  <2> QED
    BY <1>1, <2>9 DEF Walk!Next
<1> QED
  BY <1>2, <1>3 DEF Inv, TypeOK

\* When each returns, nothing is owed.
LEMMA WalkEnds ==
  ASSUME Inv, Inv', EachStop
  PROVE  Walk!Next
<1>1. /\ looping /\ looping' = FALSE /\ rows' = rows /\ ~steady' /\ (answer' = "error") = FALSE
      /\ (position # None => After(position) = {})
  BY DEF EachStop, Ended
<1>2. Owed = {}
  <2>1. CASE ~steady
    BY <2>1, NothingOwed DEF Inv
  <2>2. CASE steady
    <3>1. position # None
      BY <2>2, NoneIsNothing DEF Inv, Standing
    <3>2. \A y \in Owed : Precedes(Followed(index, set), position, y) /\ y \in Through(filter, set)
      BY <2>2 DEF Inv, Covered, Owed
    <3> QED
      BY <1>1, <3>1, <3>2 DEF After
  <2> QED
    BY <2>1, <2>2
<1>3. Walk!End
  BY <1>1, <1>2, NothingOwed DEF Walk!End, Walk!Nothing, Inv
<1> QED
  BY <1>3 DEF Walk!Next

\* When it raises, the program is told.
LEMMA WalkBreaks ==
  ASSUME Inv, Inv', EachRaises
  PROVE  Walk!Next
<1>1. /\ looping /\ looping' = FALSE /\ rows' = rows /\ ~steady' /\ (answer' = "error") = TRUE
  BY DEF EachRaises, Ended
<1>2. Walk!Break
  BY <1>1, NothingOwed DEF Walk!Break, Walk!Nothing, Inv
<1> QED
  BY <1>2 DEF Walk!Next

\* What others insert was not there all the time, and what they delete is not owed any more.
LEMMA WalkChanges ==
  ASSUME Inv, Inv', NEW r \in Places, Insert(r) \/ Delete(r)
  PROVE  Walk!Next
<1>1. /\ looping' = looping /\ steady' = steady /\ yielded' = yielded /\ answer' = answer
      /\ index' = index /\ filter' = filter /\ set' = set
  BY DEF Insert, Delete, target, history
<1>2. Path' = Path
  BY <1>1 DEF Path, Followed
<1>3. stayed \subseteq rows
  BY DEF Inv, TypeOK
<1>4. CASE Insert(r)
  <2>1. rows' = rows \cup {r} /\ stayed' = stayed /\ r \notin rows
    BY <1>4 DEF Insert, history
  <2>2. stayed' \cap Through(filter, set)' = stayed \cap Through(filter, set)
    BY <1>1, <1>3, <2>1 DEF Through
  <2>3. Owed' = Owed
    BY <1>1, <2>2 DEF Owed
  <2>4. Walk!Insert(r)
    BY <1>1, <1>2, <2>1, <2>3 DEF Walk!Insert
  <2> QED
    BY <2>4 DEF Walk!Next
<1>5. CASE Delete(r)
  <2>1. rows' = rows \ {r} /\ stayed' = stayed \ {r} /\ r \in rows
    BY <1>5 DEF Delete
  <2>2. stayed' \cap Through(filter, set)' = (stayed \cap Through(filter, set)) \ {r}
    BY <1>1, <1>3, <2>1 DEF Through
  <2>3. Owed' = Owed \ {r}
    BY <1>1, <2>2 DEF Owed
  <2>4. Walk!Delete(r)
    BY <1>1, <1>2, <2>1, <2>3 DEF Walk!Delete
  <2> QED
    BY <2>4 DEF Walk!Next
<1> QED
  BY <1>4, <1>5

\* Whatever the program does with the record ends the promise and touches nothing else.
LEMMA WalkDisturbed ==
  ASSUME Inv, Inv', Disturbed
  PROVE  Walk!Next
<1>1. (answer' = "error") \in BOOLEAN
  OBVIOUS
<1>2. Walk!Disturb
  BY <1>1, NothingOwed DEF Disturbed, Walk!Disturb, Walk!Nothing, Inv
<1> QED
  BY <1>2 DEF Walk!Next

\* each (query.rb), on a record that anything was done with before, with other processes
\* inserting and deleting between any two calls, implements Traversal.
THEOREM EachIsTraversal == Spec => EachTraverses
<1>1. Init => Walk!Init
  BY DEF Init, Walk!Init, Path, Owed
<1>2. Inv /\ Inv' /\ [Next]_vars => [Walk!Next]_Walk!vars
  <2> SUFFICES ASSUME Inv, Inv', [Next]_vars
               PROVE  Walk!Next \/ UNCHANGED Walk!vars
    OBVIOUS
  <2>1. ASSUME NEW o \in Searches, Search(o) PROVE Walk!Next
    <3>1. Disturbed
      BY <2>1 DEF Search, Invalid, PrepareFails, Prepared, First, Last, Reach, ReachesNothing,
     SetFinds, SetMisses, SetFails, SetOnFails, Find, FindMisses, FindFails
    <3> QED
      BY <3>1, WalkDisturbed
  <2>2. CASE Move
    <3>1. Disturbed
      BY <2>2 DEF Move, Clear, SetOff, Next1, Prev, MoveMisses, MoveFails, Read, Seek, SetDefaultIndex
    <3> QED
      BY <3>1, WalkDisturbed
  <2>3. CASE Each
    BY <2>3, WalkBegins, WalkGives, WalkEnds, WalkBreaks DEF Each
  <2>4. CASE \E r \in Places : Insert(r) \/ Delete(r)
    BY <2>4, WalkChanges
  <2>5. CASE UNCHANGED vars
    BY <2>5 DEF vars, Walk!vars, Path, Owed, Followed, Through
  <2> QED
    BY <2>1, <2>2, <2>3, <2>4, <2>5 DEF Next
<1> QED
  BY <1>1, <1>2, Invariance, PTL DEF Spec, EachTraverses, Walk!Spec

\* The block of each that is left alone runs at most once for every place in the file,
\* however others insert and delete: none is yielded twice, not even a place used again.
THEOREM EachIsBounded ==
  ASSUME IsFiniteSet(Places)
  PROVE  Spec => [](Len(yielded) <= Cardinality(Places))
<1>1. Inv => Len(yielded) <= Cardinality(Places)
  <2> SUFFICES ASSUME Inv
               PROVE  Len(yielded) <= Cardinality(Places)
    OBVIOUS
  <2> DEFINE i == Followed(index, set)
             n == Len(yielded)
  <2>1. yielded \in Seq(Places) /\ i \in Indexes
    BY FollowedTyped DEF Inv, TypeOK
  <2>2. n \in Nat /\ DOMAIN yielded = 1 .. n /\ yielded \in [1 .. n -> Places]
    BY <2>1
  <2>3. \A k \in 1 .. n : \A j \in 1 .. k - 1 : Precedes(i, yielded[j], yielded[k])
    BY <2>2 DEF Inv, TraversalOrdered
  <2> HIDE DEF i, n
  <2>4. ASSUME NEW j \in 1 .. n, NEW k \in 1 .. n, yielded[j] = yielded[k], j < k
        PROVE  FALSE
    <3>1. Precedes(i, yielded[j], yielded[k]) /\ yielded[j] \in Places
      BY <2>2, <2>3, <2>4
    <3> QED
      BY <2>1, <2>4, <3>1, PrecedesTotal
  <2>5. \A j, k \in 1 .. n : yielded[j] = yielded[k] => j = k
    BY <2>2, <2>4
  <2>6. yielded \in Injection(1 .. n, Places)
    BY <2>2, <2>5 DEF Injection, IsInjective
  <2>7. Cardinality(1 .. n) = n /\ IsFiniteSet(1 .. n)
    BY <2>2, FS_Interval
  <2> QED
    BY <2>6, <2>7, FS_Injection DEF n
<1> QED
  BY <1>1, Invariance, PTL

-----------------------------------------------------------------------------
(* What a search finds. *)

\* The key prepare leaves in the buffer, for a search that gives its whole index, is made of
\* the segments given, whatever the buffer had before.
LEMMA TargetIsGiven ==
  ASSUME NEW o \in WholeKey
  PROVE  /\ PreparedIndex(o) = o.index /\ o.index \in Indexes
         /\ Key(o.index, PreparedBuffer(o)) = Key(o.index, o.segments)
         /\ Key(o.index, o.segments) \in [1 .. Len(Parts[o.index]) -> Nat]
<1>1. /\ o \in Searches /\ o.index # None /\ DOMAIN o.segments = Indexed(o.index)
  BY DEF WholeKey
<1>2. o.index \in Indexes /\ DOMAIN o.segments \subseteq Fields
  BY <1>1, SearchTyped
<1>3. PreparedIndex(o) = o.index
  BY <1>1 DEF PreparedIndex
<1>4. Parts[o.index] \in Seq(Fields)
  BY <1>2, IndexesTyped
<1>5. DOMAIN Parts[o.index] = 1 .. Len(Parts[o.index])
  BY <1>4
<1>6. \A k \in DOMAIN Parts[o.index] :
        /\ PreparedBuffer(o)[Parts[o.index][k]] = o.segments[Parts[o.index][k]]
        /\ o.segments[Parts[o.index][k]] \in Nat
  <2> TAKE k \in DOMAIN Parts[o.index]
  <2>1. Parts[o.index][k] \in DOMAIN o.segments
    BY <1>1 DEF Indexed
  <2>2. o.segments[Parts[o.index][k]] \in Values
    BY <1>1, <2>1, SearchTyped
  <2> QED
    BY <1>2, <2>1, <2>2, ValuesArePositive DEF PreparedBuffer
<1> QED
  BY <1>2, <1>3, <1>5, <1>6 DEF Key

\* What the record looks for is what was asked for.
LEMMA HitsAreAsked ==
  ASSUME TypeOK, NEW o \in WholeKey, OwnFilter(o), NEW m \in Modes
  PROVE  Hits(m, o) = {r \in rows : Asked(m, o, r)}
<1> DEFINE i == o.index
           given == Key(i, o.segments)
<1>1. PreparedIndex(o) = i /\ i \in Indexes /\ Key(i, PreparedBuffer(o)) = given
  BY TargetIsGiven
<1>2. given \in [1 .. Len(Parts[i]) -> Nat]
  BY TargetIsGiven
<1>3. PreparedFilter(o) = o.filter
  BY DEF OwnFilter, PreparedFilter
<1>4. Hits(m, o) = {r \in Through(o.filter, None) : Sought(m, KeyAt[i][r], given)}
  BY <1>1, <1>3 DEF Hits
<1>5. Through(o.filter, None) = {r \in rows : o.filter # None => r \in Admits[o.filter]}
  BY DEF Through
<1>6. ASSUME NEW r \in rows
      PROVE  Sought(m, KeyAt[i][r], given) <=>
               \/ m \in {"EQ", "GE", "LE"} /\ KeyAt[i][r] = given
               \/ m \in {"GT", "GE"} /\ KeyBelow(given, KeyAt[i][r])
               \/ m \in {"LT", "LE"} /\ KeyBelow(KeyAt[i][r], given)
  <2> DEFINE key == KeyAt[i][r]
  <2>1. key \in [1 .. Len(Parts[i]) -> Nat] /\ Len(Parts[i]) \in Nat
    BY <1>1, KeyOfRecord DEF TypeOK
  <2> HIDE DEF key, given
  <2>2. ~KeyBelow(key, given) <=> key = given \/ KeyBelow(given, key)
    BY <1>2, <2>1, BelowTotal, BelowStrict
  <2>3. ~KeyBelow(given, key) <=> key = given \/ KeyBelow(key, given)
    BY <1>2, <2>1, BelowTotal, BelowStrict
  <2>4. m \in {"EQ", "GT", "GE", "LT", "LE"}
    BY DEF Modes
  <2>5. Sought(m, key, given) <=>
          \/ m \in {"EQ", "GE", "LE"} /\ key = given
          \/ m \in {"GT", "GE"} /\ KeyBelow(given, key)
          \/ m \in {"LT", "LE"} /\ KeyBelow(key, given)
    BY <2>2, <2>3, <2>4 DEF Sought
  <2> QED
    BY <2>5 DEF key
<1> QED
  BY <1>4, <1>5, <1>6 DEF Asked

\* A search that gives every segment of its index and runs under no filter but its own
\* stands on the nearest of the records asked for when it answers one, and where the library
\* has none for it there is none, for any index, records and values, and whatever was done,
\* or failed, with the shared record before (query.rb prepare).
THEOREM SearchFinds == Spec => FindsTarget
<1> DEFINE Finds == \A o \in WholeKey : index' = o.index /\ OwnFilter(o) =>
                      \A m \in Modes : FindsNearest(m, o)
<1>1. ASSUME TypeOK, NEW o \in WholeKey, index' = o.index, OwnFilter(o), NEW m \in Modes
      PROVE  FindsNearest(m, o)
  <2> DEFINE asked == {r \in rows : Asked(m, o, r)}
  <2>1. Hits(m, o) = asked
    BY <1>1, HitsAreAsked
  <2> HIDE DEF asked
  <2>2. ASSUME Find(m, o)
        PROVE  position' \in NearestOf(o.index, m, asked)
    <3>1. GoTo(NearestOf(o.index, m, asked))
      BY <1>1, <2>1, <2>2 DEF Find
    <3> QED
      BY <3>1 DEF GoTo
  <2>3. FindMisses(m, o) => asked = {}
    BY <1>1, <2>1 DEF FindMisses
  <2>4. Find(m, o) =>
          /\ position' \in asked
          /\ \A q \in asked \ {position'} :
               IF m \in {"LT", "LE"} THEN Precedes(o.index, q, position')
                                     ELSE Precedes(o.index, position', q)
    BY <2>2 DEF NearestOf, FirstOf, LastOf
  <2> QED
    BY <2>3, <2>4 DEF FindsNearest, asked
<1>2. TypeOK => Finds
  BY <1>1
<1> HIDE DEF Finds
<1>3. TypeOK /\ [Next]_vars => [Finds]_vars
  BY <1>2
<1>4. Spec => [][Finds]_vars
  BY <1>3, TypesHold, PTL DEF Spec
<1> QED
  BY <1>4 DEF FindsTarget, Finds

-----------------------------------------------------------------------------
(* What a record set lets through. *)

EachFieldOnce == \A i \in Indexes : \A j, k \in DOMAIN Parts[i] : Parts[i][j] = Parts[i][k] => j = k

\* Leading segments are as many as the key fields they are.
LEMMA LeadingCount ==
  ASSUME EachFieldOnce, NEW i \in Indexes, NEW n \in DOMAIN Parts[i]
  PROVE  Cardinality({Parts[i][k] : k \in 1 .. n}) = n
<1> DEFINE F == {Parts[i][k] : k \in 1 .. n}
           f == [k \in 1 .. n |-> Parts[i][k]]
<1>1. Parts[i] \in Seq(Fields)
  BY IndexesTyped
<1>2. n \in Nat /\ n >= 1 /\ 1 .. n \subseteq DOMAIN Parts[i]
  BY <1>1
<1>3. \A j, k \in 1 .. n : Parts[i][j] = Parts[i][k] => j = k
  BY <1>2 DEF EachFieldOnce
<1>4. f \in Bijection(1 .. n, F)
  <2>1. f \in [1 .. n -> F]
    OBVIOUS
  <2>2. \A t \in F : \E k \in 1 .. n : f[k] = t
    OBVIOUS
  <2>3. \A j, k \in 1 .. n : f[j] = f[k] => j = k
    BY <1>3
  <2> HIDE DEF f, F
  <2> QED
    BY <2>1, <2>2, <2>3 DEF Bijection, Injection, IsInjective, Surjection
<1>5. IsFiniteSet(1 .. n) /\ Cardinality(1 .. n) = n
  <2>1. 1 \in Int /\ n \in Int
    BY <1>2
  <2>2. /\ IsFiniteSet(1 .. n)
        /\ Cardinality(1 .. n) = IF 1 > n THEN 0 ELSE n - 1 + 1
    BY <2>1, FS_Interval
  <2> QED
    BY <1>2, <2>2
<1> HIDE DEF F, f
<1>6. Cardinality(F) = Cardinality(1 .. n)
  BY <1>4, <1>5, FS_Bijection DEF ExistsBijection
<1> QED
  BY <1>5, <1>6 DEF F

\* The prefix of a set asked for with leading segments, as far as it goes, is what was given.
LEMMA PrefixIsGiven ==
  ASSUME EachFieldOnce, TypeOK, NEW o \in Leading, DOMAIN o.segments # {}
  PROVE  /\ NewSet(o).index = o.index /\ o.index \in Indexes
         /\ DOMAIN o.segments = {Parts[o.index][k] : k \in DOMAIN NewSet(o).prefix}
         /\ DOMAIN NewSet(o).prefix \subseteq DOMAIN Parts[o.index]
         /\ \A k \in DOMAIN NewSet(o).prefix : NewSet(o).prefix[k] = o.segments[Parts[o.index][k]]
<1>1. o \in Searches /\ o.index # None
  BY DEF Leading
<1>2. PICK n \in DOMAIN Parts[o.index] : DOMAIN o.segments = {Parts[o.index][k] : k \in 1 .. n}
  BY DEF Leading
<1>3. o.index \in Indexes /\ DOMAIN o.segments \subseteq Fields
  BY <1>1, SearchTyped
<1>4. Cardinality(DOMAIN o.segments) = n
  BY <1>2, <1>3, LeadingCount
<1>5. PreparedIndex(o) = o.index
  BY <1>1 DEF PreparedIndex
<1> DEFINE key == Key(o.index, PreparedBuffer(o))
<1>6. NewSet(o) = [index |-> o.index, prefix |-> SubSeq(key, 1, n)]
  BY <1>4, <1>5 DEF NewSet
<1>7. key \in Seq(Values \cup {0}) /\ Len(key) = Len(Parts[o.index])
  BY <1>1, <1>3, KeyTyped, PreparedTyped
<1>8. DOMAIN Parts[o.index] = 1 .. Len(Parts[o.index]) /\ Len(Parts[o.index]) \in Nat
  BY <1>3, IndexesTyped
<1>9. \A k \in 1 .. n : key[k] = o.segments[Parts[o.index][k]]
  <2> TAKE k \in 1 .. n
  <2>1. k \in DOMAIN Parts[o.index] /\ Parts[o.index][k] \in DOMAIN o.segments
    BY <1>2, <1>8
  <2>2. Parts[o.index][k] \in Fields
    BY <1>3, <2>1
  <2> QED
    BY <2>1, <2>2 DEF Key, PreparedBuffer
<1> HIDE DEF key
<1>10. DOMAIN SubSeq(key, 1, n) = 1 .. n /\ \A k \in 1 .. n : SubSeq(key, 1, n)[k] = key[k]
  <2>1. n \in Nat /\ 1 <= n /\ n <= Len(key)
    BY <1>2, <1>7, <1>8
  <2>2. SubSeq(key, 1, n) = [k \in 1 .. n |-> key[k]]
    BY <1>7, <2>1
  <2> QED
    BY <2>2
<1> QED
  <2>1. NewSet(o).index = o.index /\ NewSet(o).prefix = SubSeq(key, 1, n)
    <3> DEFINE p == SubSeq(key, 1, n)
    <3>1. NewSet(o) = [index |-> o.index, prefix |-> p]
      BY <1>6
    <3> HIDE DEF p
    <3>2. NewSet(o).index = o.index /\ NewSet(o).prefix = p
      BY <3>1
    <3> QED
      BY <3>2 DEF p
  <2>2. DOMAIN NewSet(o).prefix = 1 .. n
    BY <1>10, <2>1
  <2>3. \A k \in 1 .. n : NewSet(o).prefix[k] = o.segments[Parts[o.index][k]]
    BY <1>9, <1>10, <2>1
  <2>4. 1 .. n \subseteq DOMAIN Parts[o.index]
    BY <1>2, <1>8
  <2> QED
    BY <1>2, <1>3, <2>1, <2>2, <2>3, <2>4

\* The set set! opens lets through what was asked for.
LEMMA SetLetsThrough ==
  ASSUME EachFieldOnce, TypeOK, NEW o \in Leading, Valid(o)
  PROVE  Through(o.filter, NewSet(o)) =
           {r \in rows : /\ o.filter # None => r \in Admits[o.filter]
                         /\ \A f \in DOMAIN o.segments : Content[r][f] = o.segments[f]}
<1> DEFINE s == NewSet(o)
<1>1. o \in Searches
  BY DEF Leading
<1>2. s # None
  BY <1>1, NewSetTyped
<1>3. ASSUME NEW r \in rows
      PROVE  (s # None => StartsWith(s.index, r, s.prefix))
               <=> \A f \in DOMAIN o.segments : Content[r][f] = o.segments[f]
  <2>1. CASE DOMAIN o.segments = {}
    <3>1. Cardinality(DOMAIN o.segments) = 0
      BY <2>1, FS_EmptySet
    <3>2. s.prefix = SubSeq(Key(PreparedIndex(o), PreparedBuffer(o)), 1, 0)
      BY <3>1 DEF NewSet
    <3>3. Key(PreparedIndex(o), PreparedBuffer(o)) \in Seq(Values \cup {0})
      BY <1>1, KeyTyped, PreparedTyped
    <3>4. DOMAIN s.prefix = {}
      BY <3>2, <3>3
    <3> HIDE DEF s
    <3> QED
      BY <2>1, <3>4 DEF StartsWith
  <2>2. CASE DOMAIN o.segments # {}
    <3> DEFINE i == o.index
    <3>1. /\ s.index = i /\ i \in Indexes
          /\ DOMAIN o.segments = {Parts[i][k] : k \in DOMAIN s.prefix}
          /\ DOMAIN s.prefix \subseteq DOMAIN Parts[i]
          /\ \A k \in DOMAIN s.prefix : s.prefix[k] = o.segments[Parts[i][k]]
      BY <2>2, PrefixIsGiven
    <3>2. r \in Places
      BY DEF TypeOK
    <3> HIDE DEF s, i
    <3>3. \A k \in DOMAIN Parts[i] : KeyAt[i][r][k] = Content[r][Parts[i][k]]
      BY <3>1, <3>2 DEF KeyAt, Key
    <3> QED
      BY <1>2, <3>1, <3>3 DEF StartsWith
  <2> QED
    BY <2>1, <2>2
<1> QED
  BY <1>3 DEF Through

\* A record set that was asked for with leading segments, under no filter but its own, lets
\* through the records asked for and no others (query.rb set!), also when its first fails,
\* for any index that has no field twice: what a set has depends on nothing that was done
\* with the shared record before.
THEOREM SetsAreAsked ==
  ASSUME EachFieldOnce
  PROVE  Spec => SetIsAsked
<1> DEFINE Asks == \A o \in Leading :
                     set' # None /\ OwnFilter(o) /\ (SetFinds(o) \/ SetFails(o)) => SetsAsked(o)
<1>1. ASSUME TypeOK, NEW o \in Leading, OwnFilter(o), SetFinds(o) \/ SetFails(o)
      PROVE  SetsAsked(o)
  <2> DEFINE asked == {r \in rows : /\ o.filter # None => r \in Admits[o.filter]
                                    /\ \A f \in DOMAIN o.segments : Content[r][f] = o.segments[f]}
  <2>1. PreparedFilter(o) = o.filter
    BY <1>1 DEF OwnFilter, PreparedFilter
  <2>2. set' = NewSet(o) /\ filter' = o.filter /\ Valid(o)
    BY <1>1, <2>1 DEF SetFinds, SetFails, Prepared
  <2>3. Through(filter', set') = asked
    BY <1>1, <2>2, SetLetsThrough
  <2> HIDE DEF asked
  <2>4. answer' = "found" => position' \in asked
    <3>1. CASE SetFinds(o)
      <4>1. GoTo(FirstOf(index', asked))
        BY <2>1, <2>2, <2>3, <3>1 DEF SetFinds
      <4> QED
        BY <4>1 DEF GoTo, FirstOf
    <3>2. CASE SetFails(o)
      BY <3>2 DEF SetFails
    <3> QED
      BY <1>1, <3>1, <3>2
  <2>5. SetMisses(o) => asked = {}
    BY <2>3 DEF SetMisses
  <2> QED
    BY <2>3, <2>4, <2>5 DEF SetsAsked, asked
<1>2. TypeOK => Asks
  BY <1>1
<1> HIDE DEF Asks
<1>3. TypeOK /\ [Next]_vars => [Asks]_vars
  BY <1>2
<1>4. Spec => [][Asks]_vars
  BY <1>3, TypesHold, PTL DEF Spec
<1> QED
  BY <1>4 DEF SetIsAsked, Asks
=============================================================================
