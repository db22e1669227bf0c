------------------------------- MODULE Cursor --------------------------------
(***************************************************************************)
(* CT::Query (lib/ctdb/query.rb) over the one CT::Record its finders, its  *)
(* set and its each share, with the moves of the record itself             *)
(* (ext/ctdb_ext/ct_record.c), while other processes insert and delete     *)
(* records of the table between any two calls.                             *)
(*                                                                         *)
(* The record keeps a buffer, which is also what a search target and the   *)
(* key of a record set are built from, a position, a default index, a      *)
(* filter and a record set.  No finder clears any of them: what a search   *)
(* does depends on the searches before it.  A query and its clones differ  *)
(* in their options only, so a search is the options it is made with.      *)
(*                                                                         *)
(* The client library is external.  It keeps the records in the order of   *)
(* each index, those with one key in the order of their places in the      *)
(* file; a record set holds the records whose key starts with the bytes    *)
(* given, and stays on the index it was opened on; the filter hides        *)
(* records from every call.  Any call to it may fail, whatever records are *)
(* there: a call that fails, or finds nothing, leaves the buffer and the   *)
(* position alone.                                                         *)
(*                                                                         *)
(* A definition whose name ends in Bug is a mistaken variant of the one    *)
(* below it.                                                               *)
(***************************************************************************)
EXTENDS Naturals, Sequences, FiniteSets

CONSTANTS
  Places,    \* places of records in the file
  Fields,    \* the table's fields
  Values,    \* their values; a cleared field has the value 0
  Content,   \* the record a place holds, when it holds one
  Indexes,   \* the table's indexes
  Parts,     \* the fields of each in order; every field takes one length in the key
  Zero,      \* the index with the number zero
  Filters,   \* filter expressions
  Admits,    \* the places a filter lets through
  Searches,  \* options the program uses
  None       \* nil

Indexed(i) == {Parts[i][k] : k \in DOMAIN Parts[i]}

\* options: the :index, the :index_segments, the :filter.
Options == [index : Indexes \cup {None}, segments : UNION {[F -> Values] : F \in SUBSET Fields},
            filter : Filters \cup {None}]

\* A record set: its index, the first key fields of its records.
RecordSets == [index : Indexes, prefix : Seq(Values \cup {0})]

ASSUME PlacesAreNumbers  == Places \subseteq Nat
ASSUME ValuesArePositive == Values \subseteq Nat \ {0}
ASSUME IndexesTyped      == Parts \in [Indexes -> Seq(Fields)] /\ Zero \in Indexes
ASSUME ContentTyped      == Content \in [Places -> [Fields -> Values]]
ASSUME AdmitsTyped       == Admits \in [Filters -> SUBSET Places]
ASSUME SearchesTyped     == Searches \subseteq Options
ASSUME NoneIsNothing     == None \notin Places \cup Filters \cup Indexes \cup RecordSets

VARIABLES
  rows,      \* the server: the places in use
  buffer,    \* the record's buffer
  position,  \* the place it was last read from
  index,     \* the default index
  filter,    \* the filter in force
  set,       \* the record set in force: its index, the first key fields of its records
  looping,   \* each is in its block
  answer,    \* what the last call answered
  steady,    \* history: the block has left the record alone, from the first row on
  yielded,   \* history: the places each has yielded
  stayed     \* history: the places in use ever since each began

target  == <<index, filter, set>>
history == <<steady, yielded, stayed>>
vars    == <<rows, buffer, position, index, filter, set, looping, answer, steady, yielded,
             stayed>>

\* found: the record.  none: nil, or RecordNotFound from the methods with a bang.  error: any
\* other exception.
Answers == {"found", "none", "error"}
Cleared == [f \in Fields |-> 0]

-----------------------------------------------------------------------------
(* The order of each index. *)

Key(i, b) == [k \in DOMAIN Parts[i] |-> b[Parts[i][k]]]

KeyBelow(a, b) ==
  \E k \in DOMAIN a : a[k] < b[k] /\ \A j \in 1 .. k - 1 : a[j] = b[j]

KeyAt == [i \in Indexes |-> [r \in Places |-> Key(i, Content[r])]]

\* Records with one key lie in the order of their places.
Order == [i \in Indexes |->
            {p \in Places \X Places : LET a == KeyAt[i][p[1]]
                                         b == KeyAt[i][p[2]]
                                     IN KeyBelow(a, b) \/ (a = b /\ p[1] < p[2])}]

Precedes(i, r, q) == <<r, q>> \in Order[i]

\* The record of R that comes first, or last, if there is one.
FirstOf(i, R) == {r \in R : \A q \in R \ {r} : Precedes(i, r, q)}
LastOf(i, R)  == {r \in R : \A q \in R \ {r} : Precedes(i, q, r)}

StartsWith(i, r, prefix) == \A k \in DOMAIN prefix : KeyAt[i][r][k] = prefix[k]

\* The records a filter and a set leave.
Through(f, s) == {r \in rows : /\ f # None => r \in Admits[f]
                               /\ s # None => StartsWith(s.index, r, s.prefix)}

\* The index that first, next, prev and last follow.
Followed(i, s) == IF s = None THEN i ELSE s.index

-----------------------------------------------------------------------------
(* CT::Query#prepare and validate!. *)

\* Without an :index, that of an earlier search.
PreparedIndex(o) == IF o.index = None THEN index ELSE o.index

\* The segments are written to the buffer before anything is checked.
PreparedBufferNilBug(o) ==
  [f \in Fields |-> IF f \in DOMAIN o.segments THEN o.segments[f] ELSE None]
PreparedBufferOnceBug(o) ==
  [f \in Fields |-> IF f \in DOMAIN o.segments /\ buffer[f] = 0 THEN o.segments[f] ELSE buffer[f]]
PreparedBuffer(o) ==
  [f \in Fields |-> IF f \in DOMAIN o.segments THEN o.segments[f] ELSE buffer[f]]

\* A filter that an earlier search set stays.
PreparedFilter(o) == IF o.filter = None THEN filter ELSE o.filter

\* InvalidQuery without an index; NoMethodError for a field that is not in it.
Valid(o) == DOMAIN o.segments # {} => o.index # None /\ DOMAIN o.segments \subseteq Indexed(o.index)

\* A program that calls the record while each is in its block: each is no longer alone.
Disturbed ==
  /\ steady' = FALSE /\ yielded' = <<>> /\ stayed' = {}
  /\ UNCHANGED <<rows, looping>>

GoTo(R) == \E r \in R : position' = r /\ buffer' = Content[r]

Prepared(o) ==
  /\ index' = PreparedIndex(o) /\ buffer' = PreparedBuffer(o) /\ filter' = PreparedFilter(o)
  /\ Valid(o)
  /\ Disturbed
  /\ UNCHANGED position

Invalid(o) ==
  /\ ~Valid(o)
  /\ index' = PreparedIndex(o) /\ buffer' = PreparedBuffer(o)
  /\ answer' = "error"
  /\ Disturbed
  /\ UNCHANGED <<position, filter, set>>

\* A call of prepare fails: the index, or some of the segments, or all of them, are set before
\* it raises, which is nil from eq.
PrepareFails(o) ==
  /\ \/ UNCHANGED <<index, buffer>>
     \/ /\ index' = PreparedIndex(o)
        /\ \E F \in SUBSET DOMAIN o.segments :
             buffer' = [f \in Fields |-> IF f \in F THEN o.segments[f] ELSE buffer[f]]
  /\ answer' \in {"none", "error"}
  /\ Disturbed
  /\ UNCHANGED <<position, filter, set>>

-----------------------------------------------------------------------------
(* Finders. *)

Modes == {"EQ", "GT", "GE", "LT", "LE"}

\* Keys the library looks for, from the target k in the buffer.
Sought(m, key, k) ==
  CASE m = "EQ" -> key = k
    [] m = "GT" -> KeyBelow(k, key)
    [] m = "GE" -> ~KeyBelow(key, k)
    [] m = "LT" -> KeyBelow(key, k)
    [] m = "LE" -> ~KeyBelow(k, key)

NearestOf(i, m, R) == IF m \in {"LT", "LE"} THEN LastOf(i, R) ELSE FirstOf(i, R)

\* CT::Record#find: the filter counts, a record set does not.
Hits(m, o) == LET i == PreparedIndex(o)
                  k == Key(i, PreparedBuffer(o))
              IN  {r \in Through(PreparedFilter(o), None) : Sought(m, KeyAt[i][r], k)}

\* eq!, eq, gt, ge, lt and le that find a record.
Find(m, o) ==
  LET hits == Hits(m, o) IN
  /\ answer' = "found"
  /\ UNCHANGED set
  /\ index' = PreparedIndex(o) /\ filter' = PreparedFilter(o)
  /\ Valid(o)
  /\ Disturbed
  /\ GoTo(NearestOf(index', m, hits))

\* eq! makes every CT::Error of the search RecordNotFound, eq makes that nil; the other
\* finders let it through.
Miss(m) == IF m = "EQ" THEN "none" ELSE "error"

\* The library has no such record.
FindMisses(m, o) ==
  /\ answer' = Miss(m)
  /\ UNCHANGED set
  /\ Prepared(o)
  /\ Hits(m, o) = {}

\* The call fails, whether there is one or not, and the program is told the same.
FindFails(o) ==
  /\ answer' \in {Miss(m) : m \in Modes}
  /\ Prepared(o)
  /\ UNCHANGED set

Seen(o) == Through(PreparedFilter(o), set)

\* Query#first and last, for the record of those seen that they reach.
Reach(o, R) ==
  /\ Valid(o)
  /\ index' = PreparedIndex(o) /\ filter' = PreparedFilter(o)
  /\ GoTo(R)
  /\ answer' = "found"
  /\ Disturbed
  /\ UNCHANGED set

First(o) == Reach(o, FirstOf(Followed(PreparedIndex(o), set), Seen(o)))
Last(o)  == Reach(o, LastOf(Followed(PreparedIndex(o), set), Seen(o)))

\* The record's nil, for no record as for a call that fails, is ignored: the record is the
\* answer, where it stands.
ReachesNothing(o) == Prepared(o) /\ answer' = "found" /\ UNCHANGED set

\* set!: as many bytes of the key as the segments given have, whichever segments they are.
\* Without segments every record is in the set.
NewSetBug(o) ==
  [index |-> PreparedIndex(o),
   prefix |-> SubSeq(Key(PreparedIndex(o), PreparedBuffer(o)), 1, Cardinality(DOMAIN o.segments) - 1)]
NewSet(o) ==
  [index |-> PreparedIndex(o),
   prefix |-> SubSeq(Key(PreparedIndex(o), PreparedBuffer(o)), 1, Cardinality(DOMAIN o.segments))]

SetFinds(o) ==
  LET seen == Through(PreparedFilter(o), set') IN
  /\ index' = PreparedIndex(o) /\ filter' = PreparedFilter(o) /\ set' = NewSet(o)
  /\ Valid(o)
  /\ answer' = "found"
  /\ Disturbed
  /\ GoTo(FirstOf(index', seen))

\* RecordNotFound from set!, nil from set: no record is in the set.  The set stays on.
SetMisses(o) ==
  /\ answer' = "none"
  /\ Prepared(o) /\ set' = NewSet(o)
  /\ Through(filter', set') = {}

\* The same nil from a first that fails, whatever is in the set.
SetFails(o) ==
  /\ answer' = "none"
  /\ Prepared(o) /\ set' = NewSet(o)

\* A call before that fails: set_on, which may have ended the set there was.
SetOnFails(o) == answer' = "error" /\ Prepared(o) /\ set' \in {set, None}

Search(o) ==
  \/ Invalid(o) \/ PrepareFails(o) \/ FindFails(o)
  \/ First(o) \/ Last(o) \/ ReachesNothing(o)
  \/ SetFinds(o) \/ SetMisses(o) \/ SetFails(o) \/ SetOnFails(o)
  \/ \E m \in Modes : Find(m, o) \/ FindMisses(m, o)

-----------------------------------------------------------------------------
(* CT::Record's own moves, which the program makes on the record it is yielded or given. *)

\* clear, which Query.new calls on its new record.
Clear ==
  /\ buffer' = Cleared
  /\ answer' = "found"
  /\ Disturbed
  /\ UNCHANGED <<position, target>>

SetOff ==
  /\ set' = None
  /\ answer' = "found"
  /\ Disturbed
  /\ UNCHANGED <<buffer, position, index, filter>>

\* default_index=, by name or by number.
SetDefaultIndex(i) ==
  /\ index' = i
  /\ answer' = "found"
  /\ Disturbed
  /\ UNCHANGED <<buffer, position, filter, set>>

\* Records after and before the position, whether its own record is still there or not.
AfterBug(r) == {q \in Through(filter, set) : ~Precedes(Followed(index, set), q, r)}
AfterKeyBug(r) ==
  LET key == KeyAt[Followed(index, set)] IN {q \in Through(filter, set) : KeyBelow(key[r], key[q])}
After(r) == {q \in Through(filter, set) : Precedes(Followed(index, set), r, q)}
Ahead(r) == {q \in Through(filter, set) : Precedes(Followed(index, set), q, r)}

Next1 ==
  /\ position # None
  /\ GoTo(FirstOf(Followed(index, set), After(position)))
  /\ answer' = "found"
  /\ Disturbed
  /\ UNCHANGED target

Prev ==
  /\ position # None
  /\ GoTo(LastOf(Followed(index, set), Ahead(position)))
  /\ answer' = "found"
  /\ Disturbed
  /\ UNCHANGED target

\* next and prev make INOT_ERR nil.
MoveMisses ==
  /\ position # None => After(position) = {} \/ Ahead(position) = {}
  /\ answer' = "none"
  /\ Disturbed
  /\ UNCHANGED <<buffer, position, target>>

\* Every other error is raised, by every call of the record: a record without a position, one
\* that is no longer there, a call that fails.
MoveFails ==
  /\ answer' = "error"
  /\ Disturbed
  /\ UNCHANGED <<buffer, position, target>>

\* read: the record at the position, once more.
Read ==
  /\ GoTo({position} \cap rows)
  /\ answer' = "found"
  /\ Disturbed
  /\ UNCHANGED target

\* seek, to an offset the program knows.
Seek(r) ==
  /\ GoTo({r} \cap rows)
  /\ answer' = "found"
  /\ Disturbed
  /\ UNCHANGED target

Move == \/ Clear \/ SetOff \/ Next1 \/ Prev \/ MoveMisses \/ MoveFails \/ Read
          \/ (\E r \in Places : Seek(r)) \/ \E i \in Indexes : SetDefaultIndex(i)

-----------------------------------------------------------------------------
(* Query#each and all. *)

Yield(r) == yielded' = IF steady' THEN Append(yielded, r) ELSE <<>>

\* The record's first, unless a set is on: then each starts where the record is.  A nil
\* from first is ignored, for no record as for a call that fails: the block is run in any
\* case.
EachStart ==
  LET seen == Through(filter, set) IN
  /\ ~looping
  /\ looping' = TRUE
  /\ \/ set = None /\ GoTo(FirstOf(index, seen))
     \/ UNCHANGED <<buffer, position>>
  /\ steady' = /\ position' # None
               /\ \/ position' \in FirstOf(Followed(index, set), seen)
                  \/ set = None /\ seen = {}
  /\ Yield(position')
  /\ stayed' = IF steady' THEN rows ELSE {}
  /\ UNCHANGED <<rows, target, answer>>

\* The block returns, and there is a next record: run it again.
EachNext ==
  /\ looping
  /\ position # None
  /\ GoTo(FirstOf(Followed(index, set), After(position)))
  /\ UNCHANGED steady /\ Yield(position')
  /\ UNCHANGED <<rows, target, looping, answer, stayed>>

Ended ==
  /\ looping /\ looping' = FALSE
  /\ steady' = FALSE /\ yielded' = <<>> /\ stayed' = {}
  /\ UNCHANGED <<rows, buffer, position, target>>

\* The block returns, and next is nil: each answers.
EachStopBug == Ended /\ answer' = "found" /\ position = None
EachStop ==
  /\ Ended /\ answer' = "found"
  /\ position # None => After(position) = {}

\* next raises, without a position or when the call fails, or the block does, whatever is
\* still ahead.
EachRaises == Ended /\ answer' = "error"

Each == EachStart \/ EachNext \/ EachStop \/ EachRaises

-----------------------------------------------------------------------------
(* Other processes. *)

Insert(r) ==
  /\ r \notin rows
  /\ rows' = rows \cup {r}
  /\ UNCHANGED <<buffer, position, target, looping, answer, history>>

Delete(r) ==
  /\ r \in rows
  /\ rows' = rows \ {r}
  /\ stayed' = stayed \ {r}
  /\ UNCHANGED <<buffer, position, target, looping, answer, steady, yielded>>

-----------------------------------------------------------------------------
Init ==
  /\ rows \in SUBSET Places
  /\ buffer = Cleared /\ position = None /\ index = Zero /\ filter = None /\ set = None
  /\ looping = FALSE /\ answer = "none"
  /\ steady = FALSE /\ yielded = <<>> /\ stayed = {}

Next ==
  \/ \E o \in Searches : Search(o)
  \/ Move
  \/ Each
  \/ \E r \in Places : Insert(r) \/ Delete(r)

Spec == Init /\ [][Next]_vars

\* A block returns, and each then asks for the next record or ends.
FairSpec == Spec /\ WF_vars(EachNext \/ EachStop)

-----------------------------------------------------------------------------
(* Properties. *)

\* The buffer of a record with a position, and the sets and filters in force, are of
\* their types; a block that is not running has no history.
TypeOK ==
  /\ rows \subseteq Places
  /\ buffer \in [Fields -> Values \cup {0}]
  /\ position \in Places \cup {None}
  /\ index \in Indexes /\ filter \in Filters \cup {None}
  /\ set # None => set \in RecordSets /\ Len(set.prefix) <= Len(Parts[set.index])
  /\ looping \in BOOLEAN /\ answer \in Answers
  /\ steady \in BOOLEAN
  /\ yielded \in Seq(Places) /\ stayed \subseteq rows
  /\ ~steady => yielded = <<>> /\ stayed = {}

\* What a search that gives its whole index asks for, said without buffer and default
\* index: the records on the right side of the values given, and the nearest of them.
Asked(m, o, r) ==
  LET key   == KeyAt[o.index][r]
      given == Key(o.index, o.segments) IN
  /\ o.filter # None => r \in Admits[o.filter]
  /\ \/ m \in {"EQ", "GE", "LE"} /\ key = given
     \/ m \in {"GT", "GE"} /\ KeyBelow(given, key)
     \/ m \in {"LT", "LE"} /\ KeyBelow(key, given)

WholeKey == {o \in Searches : o.index # None /\ DOMAIN o.segments = Indexed(o.index)}

\* No filter is left over from an earlier search.
OwnFilter(o) == filter \in {None, o.filter}

\* The record a search stands on is the nearest one asked for; where the library has none,
\* none was asked for.
FindsNearest(m, o) ==
  LET asked == {r \in rows : Asked(m, o, r)} IN
  /\ Find(m, o) => /\ position' \in asked
                   /\ \A q \in asked \ {position'} :
                        IF m \in {"LT", "LE"} THEN Precedes(o.index, q, position')
                                              ELSE Precedes(o.index, position', q)
  /\ FindMisses(m, o) => asked = {}

\* A search that gives every segment of its index, and runs under no filter but its own,
\* never answers another record than the nearest one asked for, and never looks for one
\* that was not, whatever was searched, set, read or failed before on the shared record.  A
\* nil or an error with the record there comes from a failed call alone (FindFails).
FindsTarget ==
  [][\A o \in WholeKey : index' = o.index /\ OwnFilter(o) =>
       \A m \in Modes : FindsNearest(m, o)]_vars

\* The segments given are the first ones of the index, or there are none.
Leading ==
  {o \in Searches :
     \/ DOMAIN o.segments = {}
     \/ /\ o.index # None
        /\ \E n \in DOMAIN Parts[o.index] : DOMAIN o.segments = {Parts[o.index][k] : k \in 1 .. n}}

\* The set lets through what was asked for, though its first should fail; a record in it was
\* asked for.
SetsAsked(o) ==
  LET asked == {r \in rows : /\ o.filter # None => r \in Admits[o.filter]
                             /\ \A f \in DOMAIN o.segments : Content[r][f] = o.segments[f]} IN
  /\ Through(filter', set') = asked
  /\ answer' = "found" => position' \in asked
  /\ SetMisses(o) => asked = {}

\* A set that was asked for with leading segments, under no filter but its own, lets
\* through the records with those values and no others, and is on whatever set answers: its
\* nil means an empty set unless first has failed (SetFails).
SetIsAsked ==
  [][\A o \in Leading : set' # None /\ OwnFilter(o) /\ (SetFinds(o) \/ SetFails(o)) => SetsAsked(o)]_vars

\* While the block leaves the record alone, each yields the records in the order of the
\* index and none twice, though others are inserted and deleted around it.
TraversalOrdered ==
  \A k \in DOMAIN yielded : \A j \in 1 .. k - 1 :
    Precedes(Followed(index, set), yielded[j], yielded[k])

\* When each, begun on the first record, returns, it has yielded every record that the filter
\* and the set let through and that was there all the time.  One that is ended by an
\* exception, of next or of the block, or begun where first has failed, promises nothing.
TraversalComplete ==
  [][EachStop /\ steady =>
       \A r \in stayed \cap Through(filter, set) : \E k \in DOMAIN yielded : yielded[k] = r]_vars

\* Each ends, unless its block moves the record: other processes cannot keep it going.
EachEnds == looping ~> (~looping \/ ~steady)

-----------------------------------------------------------------------------
(* Refinement of Traversal. *)

\* What each has still to yield.
Owed == {r \in stayed \cap Through(filter, set) : \A k \in DOMAIN yielded : yielded[k] # r}

\* The order it is bound to.
Path == IF steady THEN Order[Followed(index, set)] ELSE {}

Walk ==
  INSTANCE Traversal WITH
    Items   <- Places,
    Orders  <- {Order[i] : i \in Indexes},
    there   <- rows,
    running <- looping,
    kept    <- steady,
    raised  <- answer = "error",
    order   <- Path,
    given   <- yielded,
    owed    <- Owed

\* Each goes through the table as Traversal promises: in order, only over records that are
\* there, and, unless it raises, past none that is there all the time, whatever others
\* insert and delete.
EachTraverses == Walk!Spec
=============================================================================
