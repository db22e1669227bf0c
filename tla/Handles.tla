------------------------------- MODULE Handles -------------------------------
(***************************************************************************)
(* The handles of one Ruby process: CT::Session, CT::Table and CT::Record  *)
(* objects wrap handles of the client library (ext/ctdb_ext/ct_session.c,  *)
(* ct_table.c, ct_record.c), Ruby's garbage collector runs their free      *)
(* functions, and the session handler of CT::Model                         *)
(* (lib/ctdb/session_handler.rb, model.rb) keeps a session and a memo of   *)
(* open tables.                                                            *)
(*                                                                         *)
(* A table's handle points into its session's and a record's into its      *)
(* table's, but no object of these classes refers to the one it was made   *)
(* from: the collector may free the parent first.  What keeps parents      *)
(* alive is the program and the handler.  The collector is external: it    *)
(* may free any object that is not reachable, at any time and in any       *)
(* order, and frees all of them when the process exits.                    *)
(*                                                                         *)
(* Assumed of the library: the free function of a table may run after its  *)
(* session's handle was freed, and then finds the table closed and does    *)
(* no harm.  The code relies on it (ct_table.c:16) and says nothing of it; *)
(* of a comparable free, of a record, it says that it crashes              *)
(* (ct_record.c:49).                                                       *)
(*                                                                         *)
(* A definition whose name ends in Bug is a mistaken variant of the one    *)
(* below it.                                                               *)
(***************************************************************************)
EXTENDS Naturals

CONSTANTS
  Sessions, Tables, Records,  \* objects the process may make
  Paths, Names,               \* directories and table names
  None                        \* nil, or no object

Objects == Sessions \cup Tables \cup Records
Files   == Paths \X Names

ASSUME ObjectsAreDistinct ==
  /\ Sessions \cap Tables = {} /\ Sessions \cap Records = {} /\ Tables \cap Records = {}
ASSUME ObjectsAreNumbered == Objects \subseteq Nat
ASSUME NoneIsNothing == None \notin Objects \cup Paths \cup Files

VARIABLES
  session,   \* state of each session handle
  table,     \* each table handle: state, session, directory, open file
  record,    \* each record handle: state, table
  hsession,  \* session of the current handler (None: no handler)
  htables,   \* its @tables
  held,      \* objects the program itself refers to
  exiting,   \* the program ended; only the collector runs
  logons,    \* the server: sessions logged on
  opens,     \* the server: open table handles
  current,   \* history: records of queries made since the last Model.session=
  meddled    \* history: the handler's objects the program closed or logged out itself

handler == <<hsession, htables>>
server  == <<logons, opens>>
vars    == <<session, table, record, hsession, htables, held, exiting, logons, opens,
             current, meddled>>

\* null: the library gave no handle, but the object is there and will be freed.
\* A record's handle is lost, not freed, with its object.
SessionStates == {"unborn", "null", "out", "in", "freed"}
TableStates   == {"unborn", "null", "closed", "open", "freed"}
RecordStates  == {"unborn", "live", "lost"}

TableHandle   == [state : TableStates, on : Sessions \cup {None},
                  path : Paths \cup {None}, file : Files \cup {None}]
RecordHandle  == [state : RecordStates, of : Tables \cup {None}]

EmptyMemo == [f \in Files |-> None]
NoTable   == [state |-> "unborn", on |-> None, path |-> None, file |-> None]
NoRecord  == [state |-> "unborn", of |-> None]

\* The objects the program can name, by itself or through Model.session.
InHandler == {x \in {hsession} \cup {htables[f] : f \in Files} : x # None}
Reachable == held \cup InHandler

\* Objects are numbered as they are made.
NewSession(s) == session[s] = "unborn" /\ \A u \in Sessions : u < s => session[u] # "unborn"
NewTable(t) == /\ table[t].state = "unborn"
               /\ \A u \in Tables : u < t => table[u].state # "unborn"
NewRecord(r) == /\ record[r].state = "unborn"
                /\ \A q \in Records : q < r => record[q].state # "unborn"

UsableSession(s) == session[s] \in {"out", "in"}
UsableTable(t)   == table[t].state \in {"closed", "open"} /\ UsableSession(table[t].on)

\* Logging out, or freeing a session that is logged on, closes its tables.
CloseAllOf(s) ==
  /\ table' = [t \in Tables |-> IF table[t].on = s /\ table[t].state = "open"
                                  THEN [table[t] EXCEPT !.state = "closed", !.file = None]
                                  ELSE table[t]]
  /\ opens' = {t \in opens : table[t].on # s}
  /\ logons' = logons \ {s}

-----------------------------------------------------------------------------
(* The extension's calls, as a program makes them. *)

\* CT::Session.new.
SessionNew(s) ==
  /\ NewSession(s)
  /\ session' = [session EXCEPT ![s] = "out"]
  /\ held' = held \cup {s}
  /\ UNCHANGED <<table, record, handler, exiting, server, current, meddled>>

\* ctdbAllocSession gave no handle: the object stays behind, for the collector.
SessionNewFails(s) ==
  /\ NewSession(s)
  /\ session' = [session EXCEPT ![s] = "null"]
  /\ UNCHANGED <<table, record, handler, held, exiting, server, current, meddled>>

\* CT::Session#logon.
Logon(s) ==
  /\ s \in Reachable \cap Sessions /\ session[s] = "out"
  /\ session' = [session EXCEPT ![s] = "in"]
  /\ logons' = logons \cup {s}
  /\ UNCHANGED <<table, record, handler, held, exiting, opens, current, meddled>>

\* CT::Session#logout.
Logout(s) ==
  /\ s \in Reachable \cap Sessions /\ session[s] = "in"
  /\ session' = [session EXCEPT ![s] = "out"]
  /\ CloseAllOf(s)
  /\ meddled' = meddled \cup ({s} \cap InHandler)
  /\ UNCHANGED <<record, handler, held, exiting, current>>

\* CT::Table.new(session).
TableNew(t, s) ==
  /\ NewTable(t)
  /\ s \in Reachable \cap Sessions /\ UsableSession(s)
  /\ table' = [table EXCEPT ![t] = [state |-> "closed", on |-> s, path |-> None, file |-> None]]
  /\ held' = held \cup {t}
  /\ UNCHANGED <<session, record, handler, exiting, server, current, meddled>>

\* ctdbAllocTable gave no handle.
TableNewFails(t, s) ==
  /\ NewTable(t)
  /\ s \in Reachable \cap Sessions /\ UsableSession(s)
  /\ table' = [table EXCEPT ![t] = [state |-> "null", on |-> s, path |-> None, file |-> None]]
  /\ UNCHANGED <<session, record, handler, held, exiting, server, current, meddled>>

\* CT::Table#path=.
SetPath(t, p) ==
  /\ t \in Reachable \cap Tables /\ UsableTable(t) /\ table[t].state = "closed"
  /\ table' = [table EXCEPT ![t].path = p]
  /\ UNCHANGED <<session, record, handler, held, exiting, server, current, meddled>>

\* CT::Table#open, always with CTOPEN_NORMAL, whatever mode it is given.
Open(t, n) ==
  /\ t \in Reachable \cap Tables /\ UsableTable(t)
  /\ table[t].state = "closed" /\ table[t].path # None
  /\ session[table[t].on] = "in"
  /\ table' = [table EXCEPT ![t].state = "open", ![t].file = <<table[t].path, n>>]
  /\ opens' = opens \cup {t}
  /\ UNCHANGED <<session, record, handler, held, exiting, logons, current, meddled>>

\* CT::Table#close.
Close(t) ==
  /\ t \in Reachable \cap Tables /\ UsableTable(t) /\ table[t].state = "open"
  /\ table' = [table EXCEPT ![t].state = "closed", ![t].file = None]
  /\ opens' = opens \ {t}
  /\ meddled' = meddled \cup ({t} \cap InHandler)
  /\ UNCHANGED <<session, record, handler, held, exiting, logons, current>>

\* CT::Record.new(table) by the program itself.
RecordNew(r, t) ==
  /\ NewRecord(r)
  /\ t \in Reachable \cap Tables /\ UsableTable(t)
  /\ record' = [record EXCEPT ![r] = [state |-> "live", of |-> t]]
  /\ held' = held \cup {r}
  /\ UNCHANGED <<session, table, handler, exiting, server, current, meddled>>

\* CT::Record#duplicate: a handle on the same table.
Duplicate(r, q) ==
  /\ NewRecord(r)
  /\ q \in Reachable \cap Records /\ UsableTable(record[q].of)
  /\ record' = [record EXCEPT ![r] = record[q]]
  /\ held' = held \cup {r}
  /\ current' = IF q \in current THEN current \cup {r} ELSE current
  /\ UNCHANGED <<session, table, handler, exiting, server, meddled>>

-----------------------------------------------------------------------------
(* CT::Model and the session handler *)

\* Model.session=: a new session, logged on, in a new handler.  The old
\* handler is dropped as it is; its session is not logged out.
SetSession(s) ==
  /\ NewSession(s)
  /\ session' = [session EXCEPT ![s] = "in"]
  /\ logons' = logons \cup {s}
  /\ hsession' = s
  /\ htables' = EmptyMemo
  /\ current' = {} /\ meddled' = {}
  /\ UNCHANGED <<table, record, held, exiting, opens>>

\* The logon is refused: the old handler stays, the new session is garbage.
SetSessionFails(s) ==
  /\ NewSession(s)
  /\ session' = [session EXCEPT ![s] = "out"]
  /\ UNCHANGED <<table, record, handler, held, exiting, server, current, meddled>>

\* A memo that is looked up but never written.
MemoiseBug(t, f) == UNCHANGED htables

\* open's return code in place of the table (CT::Table#open returns self).
MemoiseCodeBug(t, f) == htables' = [htables EXCEPT ![f] = 0]

\* @tables[File.join(path, name)] ||= table
Memoise(t, f) == htables' = [htables EXCEPT ![f] = t]

\* open_table finds nothing for the file: Table.new, path=, open.
OpenTable(t, f) ==
  /\ htables[f] = None
  /\ NewTable(t) /\ session[hsession] = "in"
  /\ table' = [table EXCEPT ![t] = [state |-> "open", on |-> hsession, path |-> f[1], file |-> f]]
  /\ opens' = opens \cup {t}
  /\ Memoise(t, f)

\* open_table finds the table it opened earlier, and does not look at it.
Remembered(t, f) ==
  /\ htables[f] = t
  /\ UNCHANGED <<table, opens, htables>>

\* What SessionHandler#open_table hands out for a file.
HandsOut(t, f) == hsession # None /\ (OpenTable(t, f) \/ Remembered(t, f))

\* Memoised before it is opened.
OpenTableFailsBug(t, f) ==
  /\ hsession # None /\ htables[f] = None
  /\ NewTable(t) /\ UsableSession(hsession)
  /\ table' = [table EXCEPT ![t] = [state |-> "closed", on |-> hsession, path |-> f[1], file |-> None]]
  /\ htables' = [htables EXCEPT ![f] = t]
  /\ UNCHANGED <<session, record, hsession, held, exiting, server, current, meddled>>

\* path= or open raises, as it must when the session was logged out: the table
\* that was made is garbage, and nothing is memoised.
OpenTableFails(t, f) ==
  /\ hsession # None /\ htables[f] = None
  /\ NewTable(t) /\ UsableSession(hsession)
  /\ table' = [table EXCEPT ![t] = [state |-> "closed", on |-> hsession, path |-> f[1], file |-> None]]
  /\ UNCHANGED <<session, record, handler, held, exiting, server, current, meddled>>

\* Model.table, by a program that keeps what it gets.
ModelTable(t, f) ==
  /\ HandsOut(t, f)
  /\ held' = held \cup {t}
  /\ UNCHANGED <<session, record, hsession, exiting, logons, current, meddled>>

\* Query.new(model): a record on the model's table.  The query refers to the record, to the
\* model class and to the table, but not to the session.  The reference to the table is left
\* out here, so that the collector may take more than it can: the program's r stands for the
\* record, which may outlive its query.
QueryNew(r, t, f) ==
  /\ HandsOut(t, f) /\ UsableSession(hsession)
  /\ NewRecord(r)
  /\ record' = [record EXCEPT ![r] = [state |-> "live", of |-> t]]
  /\ held' = held \cup {r}
  /\ current' = current \cup {r}
  /\ UNCHANGED <<session, hsession, exiting, logons, meddled>>

-----------------------------------------------------------------------------
(* Garbage *)

\* The program lets go of an object.
Drop(x) ==
  /\ held' = held \ {x}
  /\ UNCHANGED <<session, table, record, handler, exiting, server, current, meddled>>

\* The session is freed as it is, logged on or not.
FreeSessionBug(s) ==
  /\ session[s] \in {"null", "out", "in"}
  /\ session' = [session EXCEPT ![s] = "freed"]
  /\ UNCHANGED <<table, server>>

\* free_rb_ct_session: log out if logged on, then free the handle.
FreeSession(s) ==
  /\ session[s] \in {"null", "out", "in"}
  /\ session' = [session EXCEPT ![s] = "freed"]
  /\ IF session[s] = "in" THEN CloseAllOf(s) ELSE UNCHANGED <<table, server>>

\* free_rb_ct_table: close if open, then free the handle, also that of a freed session.
FreeTable(t) ==
  /\ table[t].state \in {"null", "closed", "open"}
  /\ table' = [table EXCEPT ![t] = [NoTable EXCEPT !.state = "freed"]]
  /\ opens' = opens \ {t}

\* free_rb_ct_record: the handle itself is not freed.
FreeRecord(r) ==
  /\ record[r].state = "live"
  /\ record' = [record EXCEPT ![r] = [NoRecord EXCEPT !.state = "lost"]]

\* The collector frees an object nothing refers to.
CollectSession(s) ==
  /\ s \notin Reachable /\ FreeSession(s)
  /\ UNCHANGED <<record, handler, held, exiting, current, meddled>>
CollectTable(t) ==
  /\ t \notin Reachable /\ FreeTable(t)
  /\ UNCHANGED <<session, record, handler, held, exiting, logons, current, meddled>>
CollectRecord(r) ==
  /\ r \notin Reachable /\ FreeRecord(r)
  /\ current' = current \ {r}
  /\ UNCHANGED <<session, table, handler, held, exiting, server, meddled>>

Collect == \/ \E s \in Sessions : CollectSession(s)
           \/ \E t \in Tables : CollectTable(t)
           \/ \E r \in Records : CollectRecord(r)

\* The program ends: nothing is reachable any more.
Exit ==
  /\ exiting' = TRUE
  /\ held' = {} /\ hsession' = None /\ htables' = EmptyMemo
  /\ current' = {} /\ meddled' = {}
  /\ UNCHANGED <<session, table, record, server>>

-----------------------------------------------------------------------------
Init ==
  /\ session = [s \in Sessions |-> "unborn"]
  /\ table = [t \in Tables |-> NoTable]
  /\ record = [r \in Records |-> NoRecord]
  /\ hsession = None /\ htables = EmptyMemo
  /\ held = {} /\ exiting = FALSE
  /\ logons = {} /\ opens = {}
  /\ current = {} /\ meddled = {}

SessionStep == \E s \in Sessions : SessionNew(s) \/ SessionNewFails(s) \/ Logon(s) \/ Logout(s)
TableStep   == \E t \in Tables : \/ \E s \in Sessions : TableNew(t, s) \/ TableNewFails(t, s)
                                 \/ \E p \in Paths : SetPath(t, p)
                                 \/ \E n \in Names : Open(t, n)
                                 \/ Close(t)
RecordStep  == \E r \in Records : \/ \E t \in Tables : RecordNew(r, t)
                                  \/ \E q \in Records : Duplicate(r, q)
ModelStep   == \/ \E s \in Sessions : SetSession(s) \/ SetSessionFails(s)
               \/ \E t \in Tables, f \in Files :
                    \/ ModelTable(t, f) \/ OpenTableFails(t, f)
                    \/ \E r \in Records : QueryNew(r, t, f)
DropStep    == \E x \in held : Drop(x)

Program == ~exiting /\ (SessionStep \/ TableStep \/ RecordStep \/ ModelStep \/ DropStep \/ Exit)

Next == Program \/ Collect

Spec == Init /\ [][Next]_vars

\* When the process exits, Ruby calls every free function that is left.
FairSpec == Spec /\ WF_vars(exiting /\ Collect)

-----------------------------------------------------------------------------
(* Properties *)

TypeOK ==
  /\ session \in [Sessions -> SessionStates]
  /\ table \in [Tables -> TableHandle]
  /\ record \in [Records -> RecordHandle]
  /\ hsession \in Sessions \cup {None} /\ htables \in [Files -> Tables \cup {None}]
  /\ held \subseteq Objects /\ exiting \in BOOLEAN
  /\ logons \subseteq Sessions /\ opens \subseteq Tables
  /\ current \subseteq Records /\ meddled \subseteq Sessions \cup Tables

\* Until Model.session= is called again, the table and the session under the
\* record of a query, or of a duplicate of it, are not freed, although the record
\* refers to neither and the query to the table only (query.rb:91): the handler's
\* memo does (session_handler.rb open_table; free_rb_ct_table, free_rb_ct_session).
QueriesUsable == \A r \in current : record[r].state = "live" /\ UsableTable(record[r].of)

\* What open_table hands out from its memo is open, on the handler's session
\* and for the file asked for, unless the program itself closed the table or
\* logged the session out.
HandsOutOpen ==
  \A f \in Files : LET t == htables[f] IN
    t # None => \/ table[t] = [state |-> "open", on |-> hsession, path |-> f[1], file |-> f]
                \/ t \in meddled \/ hsession \in meddled

\* The server has no logon and no open table that the process has lost the
\* handle of: the free functions log out and close first.
ServerIsOwned ==
  /\ \A s \in logons : session[s] = "in"
  /\ \A t \in opens : table[t].state = "open" /\ table[t].on \in logons

\* A session dropped by Model.session= or by a refused logon is not logged out
\* at once, but when the process exits everything is given back: no logon, no
\* open table, and no session or table handle that was not freed.
ExitReleases ==
  exiting ~> /\ logons = {} /\ opens = {}
             /\ \A s \in Sessions : session[s] \in {"unborn", "freed"}
             /\ \A t \in Tables : table[t].state \in {"unborn", "freed"}
=============================================================================
