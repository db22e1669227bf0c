# ctdb-rb: specifications, model checks and proofs

ctdb-rb is a Ruby gem over FairCom's c-tree database: a C extension
(`ext/ctdb_ext`) wraps the handles of the server's client library, and a Ruby
layer (`lib/ctdb`) builds an active-record style model on top. This directory
holds TLA+ modules of its behaviour, configurations that check them with TLC on
small instances, and proofs that TLAPS checks for every size.

Paths below are relative to the repository.

## The system

| part | where | state | operations |
|---|---|---|---|
| Model | `lib/ctdb/model.rb` | `@attributes`, `@dirty_attributes`, `@new_record`, `@destroyed`; per class: table name, primary index | new, init_with, write_attribute, save (create_record, update_record), destroy, create, find, find_by |
| Query | `lib/ctdb/query.rb` | a `CT::Record`, `@options` | prepare; eq, set, gt, ge, lt, le, first, last, each, all; criteria |
| Record | `ct_record.c`, `lib/ctdb/record.rb` | handle: buffer, position, lock mode, default index, set and filter | clear, find, first/last/next/prev, read, seek, get/set_field, lock/unlock, with_write_lock!, write!, delete!, duplicate |
| Session | `ct_session.c`, `lib/ctdb/session.rb` | handle: logged on, session lock | logon, logout, lock, unlock |
| Session handler | `lib/ctdb/session_handler.rb`, `Model.session=`, `Model.table` | session, hash of open tables | open_table, open_tables |
| Table | `ct_table.c`, `lib/ctdb/table.rb` | handle: open or not, fields, indexes, path | create, open, close, alter, add_field, add_index, look-ups |
| Index, segment | `ct_index.c`, `ct_segment.c` | handle: segments, duplicate flag, key type | add_segment, segments, get_segment, flags |
| Field | `ct_field.c`, `lib/ctdb/field.rb` | handle: name, type, length, null flag | accessors, type predicates |
| Date, Time, DateTime | `ct_date.c`, `ct_time.c`, `ct_date_time.c` | a packed value | pack, unpack, formatting |
| the rest | `ctdb_ext.c`, `core_ext/`, `cli.rb`, `ext/ctdb_sdk` | none | constants, helpers, schema printing; `ctdb_sdk` is superseded and not built by the gem |

How they interact. A program sets `Model.session`, which logs on and wraps the
session in a handler; each model class asks the handler for its table. save and
destroy make a fresh Query, and with it a fresh Record, for every call; the
Query positions the record through the model's primary index; the Record calls
the server. There are no callbacks and no threads in the gem. Everything that is
concurrent is *other processes on the same server*, so each server call is a
point where the table may change.

What is hard, and where:

* update_record reads a row, **then** locks it, and writes the whole buffer back
  (`model.rb:434-449`);
* destroy deletes without a lock (`model.rb:225-235`);
* create_record takes the number after the last row's and inserts in two calls
  (`model.rb:399-428`), and the last row is that of the last *group*;
* the unlock is in an `ensure` that also runs when the lock was refused
  (`record.rb:28-41`), whose retry loop never retries;
* eq swallows every server error (`query.rb:112-118`);
* any call may fail, and a process may end, between any two calls.

What makes each part correct: a model's save must apply all its changes to its
own row or raise and change nothing, must leave no lock behind and must not undo
others' work; a query must return only rows that are there; a lock must exclude
others and belong to one block; the handler must hand out tables that are open;
handles must outlive what was allocated from them and be freed once; schema
setters must set what they are given; a value read back must be the one stored.
`PROJECT.json` lists the hazards, each at its line with the properties that
guard it; where the code runs into the hazard and no property can hold, a note says so.

## Modules

### Persistence

The whole of new / init_with / write_attribute / save / destroy, run by a set of
client processes against one table. A step is one call to the server, or the
Ruby code between two of them.

| in the model | in the code |
|---|---|
| `attributes`, `dirty`, `newRecord`, `destroyed` | the instance variables of `CT::Model`; `Clean` is "no entry" in `@dirty_attributes` |
| `buffer`, `offset` | the record buffer and position of the `CT::Record` the call uses |
| `pc` | the place in create_record, update_record or destroy |
| `rows`, `locks` | the server's table and its record locks (external) |
| `stale` | history: another client changed what this call read |
| `New`, `Load`, `LoadNothing`, `WriteAttribute`, `Forget` | initialize, init_with after a finder, a finder whose record call returned nil, write_attribute, dropping the instance |
| `Save`; `ReadLast(Fails)`, `Insert(Fails)`, `Created` | save; create_record |
| `UpdateFind`, `UpdateNotFound`, `Lock`, `LockRefused`, `Write(Fails)`, `Updated`, `UpdateRaises` | update_record and with_write_lock! |
| `Destroy`, `DestroyFind`, `DestroyNotFound`, `DestroyRaises`, `Delete(Fails)`, `Deleted` | destroy |
| `Crash` | the end of a process at any step; the server drops its locks |

A row is three fields: `group` and `seq`, the segments of the unique primary
index (`seq` is the increment segment), and `data` for all other columns. That
is enough to tell apart what the properties speak of: the key, the number and
"another field". `seq` runs from 1 to `MaxSeq`, the largest number
`set_field_as_unsigned` accepts (`FIX2INT`), and an instance may hold one more
than that. No field is nullable.

What is assumed of the server: it keeps the primary index unique, grants one
write lock per record and only on a record that is there, deletes no locked
record, lets an owner give its lock back, and drops the locks of a process that
ends. Everything else may fail: every read, lock, write and delete has a failing
twin that is always possible. It is *not* assumed that the server refuses a
write without a lock or of a record that changed since it was read: were it to,
fewer behaviours were possible and every safety property would still hold.

### AtomicSaves

What save and destroy promise, with no locks, buffers, positions or numbers: a
call changes at most one row, once and at one instant; save ends without an
exception only after the row took every pending change; an exception means that
nothing changed and the changes are still pending. `Persistence` defines the
mapping (`CallAt`, `PendingIn`, `Promise`), and `KeepsPromise` is the statement
that it implements this module. Two things of the code are deliberately not
promised, because they do not hold: which row an update changes (a changed key
attribute finds another row) and that destroy removes anything (eq may be nil).

### PersistenceProofs and PersistenceRefinement

The theorems about `Persistence` and the proof that it implements `AtomicSaves`
(below).

### Handles and HandlesProofs

One Ruby process: its sessions, tables and records as objects of the extension,
the handler of `CT::Model`, the program's own references and the collector.

| in the model | in the code |
|---|---|
| `session`, `table`, `record` | the handle of each object: unborn, allocated (`null` when the library gave none), logged on / open, freed |
| `hsession`, `htables` | `@@session_handler`: its session and its `@tables` |
| `held` | objects the program refers to by itself |
| `logons`, `opens` | the server's view: sessions logged on, tables open |
| `current`, `meddled` | history: records of queries made since the last `Model.session=`; tables of the handler that the program closed, or its session that it logged out |
| `SessionNew(Fails)`, `Logon`, `Logout`, `TableNew(Fails)`, `SetPath`, `Open`, `Close`, `RecordNew`, `Duplicate` | the methods of those names |
| `SetSession(Fails)`, `OpenTable(Fails)`, `Remembered`, `ModelTable`, `QueryNew` | `Model.session=`, `SessionHandler#open_table` with its memo, `Model.table`, `Query.new` |
| `FreeSession`, `FreeTable`, `FreeRecord` | the free functions |
| `Collect*`, `Drop`, `Exit` | Ruby: the collector frees what is out of reach in any order, and everything when the process ends |

No object of the extension keeps a Ruby reference to the object it was made from,
so the collector is free to free a session under a table. A `CT::Query` does keep its
table (`query.rb:91`), but not the session, and a record keeps neither; the model lets
the collector take the table of a query too, which is stricter than the code. What saves the records of queries is the memo, and only until
`Model.session=` is called again.

One assumption on the library: the free function of a table that runs after its session's
handle was freed does no harm. The code relies on it at every exit (`ct_table.c:16`) and
says nothing of it; of a comparable free, of a record, `ct_record.c:49` says that it
crashes. A crash there would be caught by no property.

### RowLock, RecordLocks and RecordLocksProofs

Several processes lock the rows of one table through record handles, sessions and
`with_write_lock!` blocks, which may be nested and left by an exception.

| in the model | in the code |
|---|---|
| `granted`, `sessionLock` | the server's locks (external: they belong to processes, not to handles) |
| `at`, `lockMode` | position of a record handle and the lock it reports |
| `blocks`, `raising` | `with_write_lock!` calls in progress (asking, inside, refused); an exception on its way |
| `lost`, `loose`, `undercut` | history: a lock given up inside a block; taken by hand or left by a move; ended through another handle |
| `Lock`, `Unlock`, `Move`, `SessionLock`, `SessionUnlock` | lock and unlock by hand, moves, session-wide locks |
| `Begin`, `LockGranted`, `LockRefused`, `Leave` | the parts of `with_write_lock!` |
| `Raise`, `Rescue`, `Crash` | an exception in the program's code, its rescue, the end of a process |

`RowLock` is the promise: one process at a time has a row to itself. The blocks
that were not undermined by their own process implement it (`ImplementsRowLock`).

Assumptions: a session unlock does not change what record handles report; a lock
on a row that a handle leaves may stay or go (both are tried); under a session-wide
lock a move locks the row it comes to. The blocking lock modes are not used by the
code and not modelled.

### Cursor

The finders, `set`, `each` and `all` of a `CT::Query` and the moves of the
`CT::Record` they share.

| in the model | in the code |
|---|---|
| `rows` | the server's table; other processes insert and delete in it |
| `buffer`, `position`, `index`, `filter`, `set` | the record handle: buffer, position, default index, filter, record set |
| `looping`, `answer` | `each` is in its block; what the last call answered |
| `steady`, `yielded`, `stayed` | history of the traversal in progress |
| `Prepared*`, `Valid`, `Invalid` | `prepare` and `validate!`: the buffer is written and the index set before anything is checked |
| `PrepareFails` | a call of `prepare` fails, with part of it done |
| `Find`, `FindMisses`, `FindFails` | eq, gt, ge, lt, le: a record, none there, the call fails (nil from eq, an error from the others) |
| `First`, `Last`, `ReachesNothing` | first and last, which answer the record even if nothing was reached |
| `SetFinds`, `SetMisses`, `SetFails`, `SetOnFails` | set: a record, an empty set, `first` fails (nil as well), `set_on` raises |
| `Next1`, `Prev`, `Read`, `Seek`, `Clear`, `SetOff`, `SetDefaultIndex`; `MoveMisses`, `MoveFails` | the record's methods; their nil, their exceptions |
| `EachStart`, `EachNext`, `EachStop`, `EachRaises` | `each` and `all`, ended by `next`'s nil or by an exception |

A query and its clones differ in their options and share the record, so a search
is the options it is made with. Assumed of the library: a record set stays on the
index it was opened on, moves follow it, find does not; a call that finds nothing, or
fails, leaves buffer and position as they are. Any call may fail, whatever records are
there. `limit`, `offset`, `fields` and `endif` are
stored by the code and never read.

### Traversal

What each promises a program that goes through a table while others change it: items
in an order, `owed` to the program from the beginning on, given one by one. `Cursor`
defines the mapping (`Owed`, `Path`, `Walk`). A traversal that begins in the middle
(each under a set, or after a `first` that failed, starts where the record is) or whose
block moves the record promises nothing more, nor does one that is ended by an exception
(`Break`). Where nothing is wanted, it gives something all the same: the
answer nil of first is ignored (`query.rb:192`), so on an empty view the block runs
once, on the record as it was before.

### FieldCodec

One field of one record: `set_field` and `get_field` with their converters, and
the conversions between Ruby's dates and the extension's. Values are pairs of a
class and a content; `Store` gives the set of what a converter may put into the
buffer (empty when it raises, several where the code uses what it never
initialised) and `Load` what it may answer. Numbers have the width of `Half`, so
`FIX2INT` and the wrap of a negative int in an unsigned field are those of the
code; a field may hold fewer ints, or, a BIGINT, more. set_field takes a date from
whatever answers `year`, `mon` and `day`, and a time from whatever answers `hour`, `min`
and `sec` (`DaysIn`, `ClocksIn`): a Ruby DateTime in a date field is its day, and a Ruby
Date in a time field midnight, as its hour is private and `rb_funcall` does not care.

What is lost on the way is modelled: `Rounded` is what a field makes of a float
(CT_FLOAT, CT_MONEY, the four decimals of a currency), get_field takes off a string what
`rstrip` does, `to_ctdb` drops the day of a Time, a zone and the fraction of a second
(`core_ext/date.rb:14`), and `to_time` and `to_datetime` answer 1970 and offset 0.

`Proper` names the values a field is for; outside it the code stores something else
without an error: an int too wide for the field (`Fitted`: any int of the field, or
refused, the code does not say), a negative int in an unsigned field, a Float in an
integer one (truncated), a time that does not exist (`ctdbTimePack`'s answer is ignored,
`ct_record.c:1324`, `ct_time.c:67`) and any object taken for a `CT::DateTime`
(`ct_date_time.h:10`). Two fields answer something else than they hold: a `number`, of
which get_field answers an address (`ct_record.c:602`), and a BIGINT past an int
(`ct_record.c:568`).

### Schema

The definition of a table, in the memory of its handle (`def`) and at the server
(`stored`): `AddField`, `AddIndex`, `AddSegment`, `AllowDups`, `SetFieldName`,
`SetFieldLength`, `Create`, `Alter`, `Open`, `Close`; the look-ups `GetField`,
`GetIndex`, `GetSegment`; and `SetBytes`, the count `Query#set!` works out. `status`
is the table's status. Assumed of the library: names are unique, create leaves the
table closed, open replaces the definition in memory, and the partial field of a
segment of an old mode is the segment's field (`field_name` asks for it whatever
the mode, `ct_segment.c:81`).

### Sums, CursorProofs, FieldCodecProofs and SchemaProofs

The theorems about those modules (below). `Sums` has the lemmas that two of them use:
least numbers, and sums over finite sets.

### MC modules

`MCPersistence`, `MCHandles`, `MCRecordLocks`, `MCCursor`, `MCFieldCodec` and
`MCSchema` are instances for TLC.

Definitions whose name ends in `Bug` are mistaken variants of the definition
after them (a lock not released on an exception, a missing range check, and so
on). No specification uses them; with one in the place of the right definition,
a property that is listed with it in `PROJECT.json` fails.

## Runs

| run | question | instance |
|---|---|---|
| `race` | lock discipline; which rows save and destroy touch | 2 clients, 2 positions, 1 group, numbers to 2; numbered and explicitly keyed instances, assignments to `data` and to the key |
| `promise` | does it implement AtomicSaves, and RowLock? | as `race`, numbered instances, assignments to `data` |
| `groups` | are numbers fresh? | 2 clients, 3 positions, 2 groups, numbers to 3, no assignments |
| `live` | do all calls end? | 2 clients, 1 position, 1 number, assignments to `data` and of a number past the last one, no symmetry |
| `handles` | what is kept alive, what does the memo hand out, what is the server left with? | 2 sessions, 2 tables, 2 records, 1 file |
| `locks` | whom does a block exclude, what does its exit leave? | 2 processes, 3 record handles, 2 rows, blocks nested 2 deep in the first process; the first locks by hand, the second session-wide |
| `cursor` | what does a search find, what does each yield, when any call may fail? | 3 records, 2 indexes that order them differently, 1 filter, 6 searches |
| `codec` | which values survive? | every kind of field with and without its null flag, ints of 2 bits in fields of 1, 2 and 3 bits, floats kept or rounded, 4 strings, 2 days, 2 times |
| `schema` | what do look-ups find, does set! count the bytes of the stored key? | up to 2 fields, 1 index, 2 segments, 3 names, 2 lengths, one definition stored by another program |
| `phantom` (violated) | is what a finder returns stored? | as `promise` |
| `left` (violated) | does nil from eq mean there is no row? | as `promise` |
| `schema_dups` (violated) | does allow_dups = true allow duplicates? | as `schema` |

What each property of `Persistence` says:

* `LockedInsideBlock`: a client owns a lock only inside with_write_lock!'s block,
  on the record of the save in progress, and owns it throughout. It rules out a
  lock left by any exit (exception, refused lock, failed write) and two savers
  in the block of one row.
* `StoredUntilUnlock`: between write! and unlock the row holds every value save
  is about to report as stored. It needs the lock, the server's refusal to
  delete locked rows and every other client's discipline together.
* `OnlyOwnerChanges`: a locked row changes only in its owner's write!, although
  destroy takes no lock.
* `ActsOnOwnRow`: what update_record locks and writes and what destroy deletes is
  the row with the instance's key as it was read, unless `stale`. The exception
  is the lost update of reading before locking.
* `UpdateKeepsOtherFields`: an update that is not `stale` changes only assigned
  fields. With `stale` it does overwrite other fields: the code reads before it
  locks.
* `CreateOnlyAdds`: whatever number create_record got, it never touches a row
  that exists.
* `FreshNumber`: the number after the last row's is free when nobody wrote in
  between and no row of a later group exists. Both conditions are necessary: the
  first is the race of two creates, the second the search that ignores the
  leading segment.
* `KeepsPromise`: refinement of AtomicSaves.
* `SavesLockRows`: refinement of `RowLock`, where a client is inside a row from the lock
  of its save to the unlock: one save at a time is there, also when a lock was
  refused, a call failed or a process ended.
* `CallsEnd`: each save and destroy ends.

Of `Handles`:

* `QueriesUsable`: whatever the collector took and in whatever order, a query made
  since the last `Model.session=` has a record whose table and session were not
  freed, though neither record nor duplicate refers to them. It says nothing of the
  queries made before.
* `HandsOutOpen`: everything in open_table's memo is open, for its file and on the
  handler's session, unless the program closed the table or logged out by itself.
* `ServerIsOwned`: the server has no logon and no table whose handle the process
  lost, whichever free function ran first.
* `ExitReleases`: once the process exits, everything is given back.

Of `RecordLocks`:

* `BlocksExclude`: two processes are in blocks on one row only if one of them gave
  up its own lock: by an inner block on the same row, by hand or session-wide.
* `NothingLeft`: a process in no block on a row has no lock on it, unless taken by
  hand or left by a move inside the block. It holds for every exit.
* `ReportsItsLock`: a record says it is locked only if it is, unless another handle
  or the session ended the lock.
* `ImplementsRowLock`: the blocks that kept their lock implement `RowLock`.

Of `Cursor`:

* `FindsTarget`: a search that gives its whole index, under no filter but its own, never
  answers another record than the nearest one asked for, and where the library has none
  for it none was asked for, whatever was done on the shared record before. The
  reference, `Asked`, speaks of the values given, not of buffers. That nil, or an
  error, means no record is *not* said: a failed call ends the same way (`left` shows
  it for eq).
* `SetIsAsked`: a record set of leading segments lets through the records asked for
  and no others, also when set answers nil because its `first` failed.
* `TraversalOrdered`: each yields in the order of the index, none twice, while
  others insert and delete, the current record included.
* `TraversalComplete`: an each that began on the first record and returns has
  yielded every record in its filter and set that was there all the time. One that
  `next` or the block ends by raising has not.
* `EachTraverses`: refinement of `Traversal`. Beside the two before, it says so step by
  step: what each yields is there when it is yielded, comes after all it has yielded and
  before all it still owes, a record that is deleted is owed no longer, and only an
  exception ends it with a record owed.
* `EachEnds`: other processes cannot keep each going.

The last four speak of traversals whose block leaves the shared record alone; a
block that searches with a clone of the query moves the record each goes on from.

Of `FieldCodec`:

* `ReadsBack`: of a proper value that set_field took get_field answers what the field
  can keep, and nothing else: an int, a truth value, a CT::DateTime as they are, a float
  as the field rounds it, a string but for its end, of what has a date its day, of what
  has a time its time.
* `CopyKeeps`: a value read from a field and set again is refused or changes nothing,
  whichever program wrote it; except in a number field and for a BIGINT past an int.
  For floats this is the assumption `RoundingSettles`: rounding again changes nothing.
* `NullAllowed`: set_field empties a field only where the definition allows it.
* `ConversionsAgree`: what exists on the calendar and the clock has the same year to
  second after to_ctdb and back, and going there again changes nothing more; only the
  day of a Time, a zone and the fraction of a second are lost. The parts of a
  CT::DateTime are those of its date and its time.

Of `Schema`:

* `NamesAreFound`: get_field, get_index and get_segment find what has the name now.
* `SetBytesFit`: the bytes `Query#set!` counts from the definition in memory are those
  of the first segments in the server's keys, as long as the table's status shows no
  change that was not altered.

Each module's `TypeOK` says, beyond types, what could be wrong in the code: no
converter puts into the buffer what its field cannot have, every segment is of a
field of its own definition, no set has a prefix longer than its index, only the
innermost block waits or was refused.

### Bounds

Persistence: two clients make every pairwise race; a third adds no kind of step, as
no action looks at more than one other client's lock or row. Two positions are
needed for a create beside an existing row, for a re-keyed update that meets a
taken key, and for a freed position that is used again; `groups` needs three to
have rows in front of and behind the last one. With two numbers, numbering runs past
`MaxSeq`.

`handles` needs the second session for a `Model.session=` that replaces the first,
and the second table and record for a table that failed to open beside one that is
open and for a duplicate. `locks` needs a third handle for two records of one
process on one row (a lock ended through the other one), two rows for a record that
moves inside its block, and depth two for an inner block that releases the outer one's
lock. Only the first process nests blocks; that two processes nest them in opposite
orders is left to the theorems. In `cursor` two of the three
records have one key in each index, so that order by place matters, and the searches
cover the ways options can be given: a whole key, a leading segment, none, a
field outside the index, no index, a filter; a segment that does not lead, which no
property promises anything of, is left to the theorems. `codec` has a value of
each class in and out of range; two bits show truncation, range and wrap, fields of one
bit an int too wide for them, and the widest signed one a BIGINT past an int. One float
and one currency field round, the others do not.
`schema` has room for a second segment of another mode and for renaming, with a
name to spare.

The theorems lift these bounds.

Deadlock is checked wherever the system does not stop: in the runs of `Persistence`,
`RecordLocks`, `Cursor`, `FieldCodec` and `Schema` a program can always make a
further call. In `handles` an exited process stops.

### Fairness

* `Persistence` asks weak fairness of `CallStep(c)`, the steps of a call that has
  begun: the client library is synchronous, so a call that was made returns, with
  success or an error, and the Ruby code between two calls runs on. No fairness is
  asked of the program (it need not start calls), of the success of any call, or of
  lock release by others; a lock request does not wait (`ctdbLockRecord` with
  `CT::LOCK_WRITE` returns at once).
* `Cursor` asks it of `EachNext \/ EachStop`: the block given to each returns.
* `Handles` asks it of collection after `Exit`: Ruby runs the free function of every
  object when the process ends. Before, the collector need never run.

## Where the code and its text disagree

* `phantom`: `first`, `last` and `each` ignore the nil of an empty table and hand
  the cleared buffer to the transformer. The resulting instance of nils answers
  `persisted?` with true; the text at `model.rb:204` says this "Checks to see if
  the model has been saved to the table."
* `left`: `eq!` rescues every `CT::Error` as RecordNotFound, so `eq` is nil, and
  destroy marks the instance destroyed, when the server failed; the text at
  `query.rb:103` says nil is returned "if no record is found."
* `schema_dups`: `allow_dups=` compares its argument with the type tag `T_TRUE`
  (`ct_index.c:80`), which `true` is not, so every call clears the flag; the text at
  `ct_index.c:64` says "Set the allow duplicate flag for this index."

Seen while translating, in the models as the code has it, without a run of their own:

* gt, ge, lt and le raise when they find nothing (`record.find` raises); the texts at
  `query.rb:142`, `151`, `160` and `169` say nil.
* `InvalidQuery` and `RecordNotFound` are not `CT::Error`s, so eq! lets the first out.
* `suspend_locks!` (`session.rb:12`) names a constant the extension does not define.
* `ct_segment.c:81` has `|| CTSEG_INTSEG ||` without a comparison, so every segment
  is taken for one of an old mode.
* `limit`, `offset`, `fields` and `endif` of a query are stored and never read.
* `get_segment` never answers the nil that `validate!` expects (`query.rb:304`): it calls
  `field_name` on nil (`ct_index.c:146`). `set` is nil when the server failed, as eq is.

## Proofs

Every theorem is proved from the named assumptions on the constants in its module
(numbers are natural, `None` and `Nil` are no values, what the program passes is of
its type), for any sizes. Some of these are assumptions on the library: a valid date or
time has a number of its own (`DatesPack`, `TimesPack`), and rounding a float twice is
rounding it once (`RoundingSettles`).

| module | theorem | property |
|---|---|---|
| `PersistenceProofs` | `TypeCorrect` | `TypeOK` |
| | `LocksAreScoped` | `LockedInsideBlock` |
| | `StoredIsKept` | `StoredUntilUnlock` |
| | `OwnRow` | `ActsOnOwnRow` |
| | `NumbersAreFresh` | `FreshNumber` |
| | `OwnerWrites` | `OnlyOwnerChanges` |
| | `CreateAdds` | `CreateOnlyAdds` |
| | `UpdateKeeps` | `UpdateKeepsOtherFields` |
| | `CallsAreShort` | a call is over after at most four steps of its own; for `CallsEnd` |
| `PersistenceRefinement` | `Refines` | `KeepsPromise`: `Persistence` implements `AtomicSaves` |
| | `LocksRows` | `SavesLockRows`: `Persistence` implements `RowLock` |
| `HandlesProofs` | `TypesHold` | `TypeOK` |
| | `QueriesAreUsable` | `QueriesUsable` |
| | `HandsOutAreOpen` | `HandsOutOpen` |
| | `ServerOwned` | `ServerIsOwned` |
| | `ExitFreesAll` | after Exit each step frees one object for good, and all of them is everything; for `ExitReleases` |
| `RecordLocksProofs` | `TypesHold` | `TypeOK` |
| | `BlocksAreExclusive` | `BlocksExclude` |
| | `NothingIsLeft` | `NothingLeft` |
| | `ReportsTrue` | `ReportsItsLock` |
| | `Refinement` | `ImplementsRowLock`: `RecordLocks` implements `RowLock` |
| | `RequestsEnd` | a lock request ends with its one answer, and nobody else prolongs it |
| `CursorProofs` | `TypesHold` | `TypeOK` |
| | `YieldsInOrder` | `TraversalOrdered` |
| | `YieldsAll` | `TraversalComplete` |
| | `SearchFinds` | `FindsTarget` |
| | `SetsAreAsked` | `SetIsAsked`, where no index has a field twice |
| | `EachIsTraversal` | `EachTraverses`: `Cursor` implements `Traversal` |
| | `EachIsBounded` | in a finite file, each yields at most once for every place; for `EachEnds` |
| | `OneNearest` | of any finite set of records, an index has exactly one first and one last |
| `FieldCodecProofs` | `TypesHold` | `TypeOK` |
| | `ReadsBackAlways` | `ReadsBack` |
| | `CopiesKeep` | `CopyKeeps` |
| | `NullsAllowed` | `NullAllowed` |
| | `Conversions` | `ConversionsAgree` |
| `SchemaProofs` | `TypesHold` | `TypeOK` |
| | `LookUpsFind` | `NamesAreFound` |
| | `BytesFit` | `SetBytesFit` |

### Persistence

The inductive invariant `IInv` is the conjunction of the checked
invariants and two auxiliary ones: `Positioned` (past eq the client has a
position and a buffer; without it `TypeOK` fails to be inductive at `Write`) and
`LockedIsPresent` (no locked position is empty; without it a create could fill a
locked position). Three lemmas carry most of the work, so that each invariant
needs a look at only the few actions that can disturb it: `OnlyOwnState` (a step
of one client leaves the others' instance and record alone), `RowsChange` (the
three ways a row changes, and who becomes stale) and `LocksChange` (the two ways
a lock changes). `EntersBy` names the one action that leads to each place of a
call. `InitInv` and `NextInv` put the parts together. TLC has checked `IInv` on the
instances of `race` and `groups`.

For the refinement one more invariant is needed, `CallFitsInstance`: create_record
runs for a new instance only, update_record and destroy for another only (without
it a number chosen in create_record would look like a pending change). Each
`Map...` lemma takes one kind of step to the step of `AtomicSaves` it implements,
or to a stutter: searching, locking and numbering are not seen, `Insert`, `Write`
and `Delete` are the instants at which a call takes effect, `Created` and
`Updated` are returns, and every failing step is the end of a call that had no
effect. `OneCall` is the frame: a step changes what the abstraction sees of its
own client only.

For `RowLock` the mapping is `Writing`, the clients in the block of a row that they have
locked. `BlockEntered` is where the invariant is needed: the server grants a lock only
when nobody has the row, and by `LockedInsideBlock` nobody without its lock is inside.
`BlockLeft` covers the exits: the unlock of a save that wrote, the one after an
exception, and the end of a process.

### Handles

`QueriesUsable` is not inductive: it needs that the memo keeps the table of every
current query (`CurrentRemembered`) and that what the handler refers to was not
freed (`HandlerLive`), which is what the collector's guard, out of reach, preserves.
`ServerIsOwned` needs that a table handle has a session (`TablesOnSessions`) and that
both sides agree on who is logged on (`LogonsTrue`).

### RecordLocks

`IInv` adds four facts: blocks are on their process's own handles (`OwnBlocks`), a
write lock excludes every other lock (`WriteExclusive`), a block that was not
undermined has its row write-locked (`BlockLocked`), and a lock nobody took by hand
is that of a block whose record is still on the row (`Anchored`). Exclusion follows
from the second and third; that nothing is left from the last. The refinement maps a
row to the processes in blocks on it that were not undermined: `LockGranted` enters,
and every other step leaves rows or changes nothing.

### Cursor

`Inv` is `TypeOK`, the order of what was yielded, `Standing` (the record stands on what
was yielded last) and `Covered` (what was there all the time was yielded or is still
ahead). The step case is that an index orders records transitively, whose core is the
lemma on comparing keys at the least position where they differ. `SearchFinds` adds
that keys are totally ordered and that the key in the prepared buffer is the key of
the values given, whatever the buffer had before (`TargetIsGiven`); a call that failed
has answered no record and needs no argument. `SetsAreAsked`
needs a hypothesis, `EachFieldOnce`: with a field twice in an index the number of
leading segments is not that of the fields given.

`EachIsTraversal` needs no more than `Inv` and the total order: `Covered` says that what
is owed lies ahead, `Standing` that ahead means after the last one given, so the nearest
record ahead comes before everything else that is owed. One lemma for each step of
`Traversal` (`WalkBegins`, `WalkGives`, `WalkEnds`, `WalkChanges`, `WalkDisturbed`).
`OneNearest` (an induction over the size of the set) says that the choice in `FirstOf`
and `LastOf`, and with it every finder's answer, leaves nothing open.

### FieldCodec

`Inv` adds to `TypeOK` that the buffer has one of the contents the converter stores for
the last value set. The rest is lemmas about the converters, case by case:
`FittedIn`, `StoreFits`, `LoadTyped`, `Unpacked`, `OneDay`, `ProperReadsBack`,
`CopyChangesNothing`, `ConvertsBack`.

### Schema

`Inv` is that both definitions are sound (every segment of a field, one name each),
the history has one entry for each index, and an open table whose status shows no
change has in memory what the server stores (`AsStored`). `get_segment` pops
segments until the name fits; the model has it as a recursive function, and the
lemmas `PopsExists` and `PopsFindsLast` show by a least counterexample that it stops at the
last segment with the name.

`BytesFit` compares two sums: over the fields that `set!` is given and over the segments
of the stored key. `MapThenSumSet` is a fold defined by recursion over sets, about which
the provers know nothing; `Sums` shows that there is such a function (`SumExists`), that
it does not depend on the order of the elements (`SumOfAny`) and that two sums are the
same when their terms are matched one to one (`SameTerms`). The match is `SegmentByName`:
where no index has a field twice, which `SetBytesFit` supposes, get_segment finds each
segment by its name. Subset induction (`BySize`) is stated over a set of
subsets, not over a predicate, and shown from a least counterexample.

### Only model-checked

Every invariant, action property and refinement that a passing run checks is also
proved. `CallsEnd`, `ExitReleases` and `EachEnds` are not: liveness under
fairness is out of the prover's reach. What of each can be said step by step is proved:
`CallsAreShort`, `ExitFreesAll` and `EachIsBounded` give the quantity that falls (the
steps left of a call, the objects to be freed) or the limit of one that grows (what was
yielded). What is left to TLC is that the step is always
possible and, by fairness, taken.

## Not modelled

* Formatting of dates and times (`to_s`, `inspect`), the current date and time.
* Setters that only pass a value to the library (`path_prefix=`, `group_id=`,
  `precision=`, `default_date_type=`); those that do nothing (`type=`, `scale=`,
  `pad_char=`, `permission=`, `rebuild`, all of CT::Segment).
* `clear_field` and `data_length` of a record, which hand the library a handle of
  another kind: what it does with one cannot be told from here.
* CT::Field, CT::Index and CT::Segment objects kept over close, open or alter: they
  hold pointers into a definition that is gone.
* The blocking lock modes, which the Ruby layer has no method for, and an `unlock`
  that fails: with the non-raising call in the `ensure` clause it would leave the
  lock to the end of the process.
* `cli.rb` (prints a schema), the entry point (registers classes and constants),
  `ext/ctdb_sdk` (superseded, not built), helpers of `core_ext` without state.
* In `Persistence`, reading with a finder is one step: an instance appears from a
  row. The steps of a finder are in `Cursor`, those of a lock in `RecordLocks`, and
  what a value becomes in a column in `FieldCodec`; the modules are checked apart.

## Plan

Done: `Persistence` with `AtomicSaves`, `Handles`, `RecordLocks` with `RowLock`,
`Cursor` with `Traversal`, `FieldCodec`, `Schema`, and the proofs about each.

What would add most from here:

1. A composition of `Persistence` with the search of `Cursor`, so that update_record
   and destroy position their record by a buffer and an index in place of a row with
   the key.
2. The same for the lock: update_record's block as one of `RecordLocks`, in place of
   two modules that each implement `RowLock`.
3. The objects CT::Field, CT::Index and CT::Segment as handles of a definition, if
   the library's rules for them become known.
