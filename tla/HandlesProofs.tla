---------------------------- MODULE HandlesProofs ----------------------------
(***************************************************************************)
(* Proofs that every behaviour of Handles, with any number of sessions,    *)
(* tables, records, directories and names, keeps its invariants.  The      *)
(* inductive invariant IInv adds four facts to the checked ones: what the  *)
(* handler has is live and on its session (HandlerLive), the record of a   *)
(* current query is on a table that the handler's memo has                 *)
(* (CurrentRemembered), a live table is on a session (TablesOnSessions),   *)
(* and the server knows exactly the sessions that say they are logged on   *)
(* (LogonsTrue).                                                           *)
(***************************************************************************)
EXTENDS Handles, TLAPS

\* No object of the handler was freed or lost its parent.
HandlerLive ==
  /\ hsession # None => UsableSession(hsession)
  /\ \A f \in Files : htables[f] # None =>
       /\ hsession # None
       /\ table[htables[f]].state \in {"closed", "open"}
       /\ table[htables[f]].on = hsession

\* A current query is on a table that the memo keeps.
CurrentRemembered ==
  \A r \in current : /\ record[r].state = "live"
                     /\ record[r].of # None
                     /\ \E f \in Files : htables[f] = record[r].of

\* A table handle that was not freed has a session.
TablesOnSessions ==
  \A t \in Tables : table[t].state \in {"closed", "open"} => table[t].on \in Sessions

\* The two sides agree on who is logged on.
LogonsTrue == \A s \in Sessions : session[s] = "in" <=> s \in logons

IInv == /\ TypeOK /\ HandlerLive /\ CurrentRemembered
        /\ TablesOnSessions /\ LogonsTrue /\ ServerIsOwned /\ HandsOutOpen

-----------------------------------------------------------------------------
(* Types *)

\* Closing all tables of a session keeps their type.
LEMMA CloseAllTyped ==
  ASSUME TypeOK, NEW s \in Sessions, CloseAllOf(s)
  PROVE  /\ table' \in [Tables -> TableHandle]
         /\ logons' \subseteq Sessions /\ opens' \subseteq Tables
<1>1. ASSUME NEW t \in Tables
      PROVE  [table[t] EXCEPT !.state = "closed", !.file = None] \in TableHandle
  BY <1>1 DEF TypeOK, TableHandle, TableStates
<1> QED
  BY <1>1 DEF TypeOK, CloseAllOf

\* It changes the state of some, and the session and directory of none.
LEMMA CloseAllKeeps ==
  ASSUME TypeOK, NEW s \in Sessions, CloseAllOf(s), NEW t \in Tables
  PROVE  /\ table'[t].on = table[t].on
         /\ table[t].on # s => table'[t] = table[t]
         /\ table'[t].state = IF table[t].on = s /\ table[t].state = "open"
                                THEN "closed" ELSE table[t].state
<1>1. table[t] \in TableHandle
  BY DEF TypeOK
<1>2. table'[t] = IF table[t].on = s /\ table[t].state = "open"
                    THEN [table[t] EXCEPT !.state = "closed", !.file = None] ELSE table[t]
  BY DEF CloseAllOf
<1> QED
  BY <1>1, <1>2 DEF TableHandle

\* So does opening one, or remembering it.
LEMMA HandsOutTyped ==
  ASSUME TypeOK, NEW t \in Tables, NEW f \in Files, HandsOut(t, f)
  PROVE  /\ table' \in [Tables -> TableHandle] /\ opens' \subseteq Tables
         /\ htables' \in [Files -> Tables \cup {None}]
<1>1. CASE OpenTable(t, f)
  <2>1. hsession \in Sessions
    BY NoneIsNothing DEF TypeOK, HandsOut, Objects
  <2>2. [state |-> "open", on |-> hsession, path |-> f[1], file |-> f] \in TableHandle
    BY <2>1 DEF TableHandle, TableStates, Files
  <2> QED
    BY <1>1, <2>2 DEF TypeOK, OpenTable, Memoise
<1>2. CASE Remembered(t, f)
  BY <1>2 DEF TypeOK, Remembered
<1> QED
  BY <1>1, <1>2 DEF HandsOut

\* Every step keeps the types: an object of one class never gets the state of another.
LEMMA TypeStep ==
  ASSUME TypeOK, [Next]_vars
  PROVE  TypeOK'
<1>1. ASSUME NEW s \in Sessions, SessionNew(s) PROVE TypeOK'
  BY <1>1, NoneIsNothing DEF SessionNew, NewSession, handler, server, Objects, TypeOK,
     SessionStates
<1>2. ASSUME NEW s \in Sessions, SessionNewFails(s) PROVE TypeOK'
  BY <1>2, NoneIsNothing DEF SessionNewFails, NewSession, handler, server, TypeOK,
     SessionStates
<1>3. ASSUME NEW s \in Sessions, Logon(s) PROVE TypeOK'
  BY <1>3, NoneIsNothing DEF Logon, handler, server, TypeOK, SessionStates
<1>4. ASSUME NEW s \in Sessions, Logout(s) PROVE TypeOK'
  BY <1>4, CloseAllTyped DEF TypeOK, SessionStates, Logout, handler
<1>5. ASSUME NEW t \in Tables, NEW s \in Sessions, TableNew(t, s) PROVE TypeOK'
  BY <1>5, NoneIsNothing DEF TableNew, NewTable, NoTable, handler, server, TableHandle,
     TableStates, Objects, TypeOK, SessionStates
<1>6. ASSUME NEW t \in Tables, NEW s \in Sessions, TableNewFails(t, s) PROVE TypeOK'
  BY <1>6, NoneIsNothing DEF TableNewFails, NewTable, NoTable, handler, server, TableHandle,
     TableStates, Objects, TypeOK, SessionStates
<1>7. ASSUME NEW t \in Tables, NEW p \in Paths, SetPath(t, p) PROVE TypeOK'
  <2>1. [table[t] EXCEPT !.path = p] \in TableHandle
    BY DEF TypeOK, TableHandle
  <2> QED
    BY <1>7, <2>1 DEF TypeOK, SetPath, handler, server
<1>8. ASSUME NEW t \in Tables, NEW n \in Names, Open(t, n) PROVE TypeOK'
  <2>1. <<table[t].path, n>> \in Files
    BY <1>8 DEF TypeOK, TableHandle, Open, Files
  <2>2. [table[t] EXCEPT !.state = "open", !.file = <<table[t].path, n>>] \in TableHandle
    BY <2>1 DEF TypeOK, TableHandle, TableStates
  <2> QED
    BY <1>8, <2>2 DEF TypeOK, Open, handler
<1>9. ASSUME NEW t \in Tables, Close(t) PROVE TypeOK'
  <2>1. [table[t] EXCEPT !.state = "closed", !.file = None] \in TableHandle
    BY DEF TypeOK, TableHandle, TableStates
  <2> QED
    BY <1>9, <2>1 DEF TypeOK, Close, handler
<1>10. ASSUME NEW r \in Records, NEW t \in Tables, RecordNew(r, t) PROVE TypeOK'
  BY <1>10, NoneIsNothing DEF RecordNew, NewRecord, handler, server, RecordHandle,
     RecordStates, Objects, TypeOK, SessionStates
<1>11. ASSUME NEW r \in Records, NEW q \in Records, Duplicate(r, q) PROVE TypeOK'
  BY <1>11, NoneIsNothing DEF Duplicate, NewRecord, handler, server, RecordHandle,
     RecordStates, Objects, TypeOK, SessionStates
<1>12. ASSUME NEW s \in Sessions, SetSession(s) PROVE TypeOK'
  BY <1>12, NoneIsNothing DEF SetSession, NewSession, EmptyMemo, handler, server, TypeOK,
     SessionStates
<1>13. ASSUME NEW s \in Sessions, SetSessionFails(s) PROVE TypeOK'
  BY <1>13, NoneIsNothing DEF SetSessionFails, NewSession, handler, server, TypeOK,
     SessionStates
<1>14. ASSUME NEW t \in Tables, NEW f \in Files, ModelTable(t, f) PROVE TypeOK'
  BY <1>14, HandsOutTyped DEF TypeOK, ModelTable, Objects
<1>15. ASSUME NEW t \in Tables, NEW f \in Files, OpenTableFails(t, f) PROVE TypeOK'
  BY <1>15, NoneIsNothing DEF OpenTableFails, NewTable, handler, server, TableHandle,
     TableStates, NoTable, Files, TypeOK, SessionStates
<1>16. ASSUME NEW r \in Records, NEW t \in Tables, NEW f \in Files, QueryNew(r, t, f)
      PROVE TypeOK'
  BY <1>16, HandsOutTyped DEF TypeOK, QueryNew, RecordHandle, RecordStates, Objects
<1>17. ASSUME NEW x \in held, Drop(x) PROVE TypeOK'
  BY <1>17, NoneIsNothing DEF Drop, handler, server, TypeOK, SessionStates
<1>18. CASE Exit
  BY <1>18, NoneIsNothing DEF Exit, EmptyMemo, handler, server, Reachable, TypeOK,
     SessionStates
<1>19. ASSUME NEW s \in Sessions, CollectSession(s) PROVE TypeOK'
  <2>1. CASE session[s] = "in"
    BY <1>19, <2>1, CloseAllTyped DEF TypeOK, SessionStates, CollectSession, FreeSession,
       handler
  <2>2. CASE session[s] # "in"
    BY <1>19, <2>2 DEF TypeOK, SessionStates, CollectSession, FreeSession, handler, server
  <2> QED
    BY <2>1, <2>2
<1>20. ASSUME NEW t \in Tables, CollectTable(t) PROVE TypeOK'
  BY <1>20, NoneIsNothing DEF CollectTable, FreeTable, NoTable, handler, server,
     TableHandle, TableStates, TypeOK, SessionStates
<1>21. ASSUME NEW r \in Records, CollectRecord(r) PROVE TypeOK'
  BY <1>21, NoneIsNothing DEF CollectRecord, FreeRecord, NoRecord, handler, server,
     RecordHandle, RecordStates, TypeOK, SessionStates
<1>22. CASE UNCHANGED vars
  BY <1>22 DEF vars, handler, server, TypeOK, SessionStates
<1> QED
  BY <1>1, <1>2, <1>3, <1>4, <1>5, <1>6, <1>7, <1>8, <1>9, <1>10, <1>11, <1>12, <1>13,
     <1>14, <1>15, <1>16, <1>17, <1>18, <1>19, <1>20, <1>21, <1>22 DEF Next, Program,
     SessionStep, TableStep, RecordStep, ModelStep, DropStep, Collect

\* A table is made on a session, and stays on it until it is freed.
LEMMA TablesStep ==
  ASSUME TypeOK, TablesOnSessions, [Next]_vars
  PROVE  TablesOnSessions'
<1>1. ASSUME NEW s \in Sessions, SessionNew(s) PROVE TablesOnSessions'
  BY <1>1 DEF SessionNew, NewSession, handler, server, TablesOnSessions, TypeOK
<1>2. ASSUME NEW s \in Sessions, SessionNewFails(s) PROVE TablesOnSessions'
  BY <1>2 DEF SessionNewFails, NewSession, handler, server, TablesOnSessions, TypeOK
<1>3. ASSUME NEW s \in Sessions, Logon(s) PROVE TablesOnSessions'
  BY <1>3 DEF Logon, handler, server, TablesOnSessions, TypeOK
<1>4. ASSUME NEW s \in Sessions, Logout(s) PROVE TablesOnSessions'
  BY <1>4, CloseAllKeeps DEF Logout, TablesOnSessions
<1>5. ASSUME NEW t \in Tables, NEW s \in Sessions, TableNew(t, s) PROVE TablesOnSessions'
  BY <1>5 DEF TableNew, NewTable, NoTable, handler, server, TablesOnSessions, TypeOK
<1>6. ASSUME NEW t \in Tables, NEW s \in Sessions, TableNewFails(t, s)
      PROVE TablesOnSessions'
  BY <1>6 DEF TableNewFails, NewTable, NoTable, handler, server, TablesOnSessions, TypeOK
<1>7. ASSUME NEW t \in Tables, NEW p \in Paths, SetPath(t, p) PROVE TablesOnSessions'
  BY <1>7 DEF SetPath, UsableTable, handler, server, TablesOnSessions, TypeOK
<1>8. ASSUME NEW t \in Tables, NEW n \in Names, Open(t, n) PROVE TablesOnSessions'
  BY <1>8 DEF Open, UsableTable, handler, server, TablesOnSessions, TypeOK
<1>9. ASSUME NEW t \in Tables, Close(t) PROVE TablesOnSessions'
  BY <1>9 DEF Close, UsableTable, handler, server, TablesOnSessions, TypeOK
<1>10. ASSUME NEW r \in Records, NEW t \in Tables, RecordNew(r, t) PROVE TablesOnSessions'
  BY <1>10 DEF RecordNew, NewRecord, handler, server, TablesOnSessions, TypeOK
<1>11. ASSUME NEW r \in Records, NEW q \in Records, Duplicate(r, q) PROVE TablesOnSessions'
  BY <1>11 DEF Duplicate, NewRecord, handler, server, TablesOnSessions, TypeOK
<1>12. ASSUME NEW s \in Sessions, SetSession(s) PROVE TablesOnSessions'
  BY <1>12 DEF SetSession, NewSession, EmptyMemo, handler, server, TablesOnSessions, TypeOK
<1>13. ASSUME NEW s \in Sessions, SetSessionFails(s) PROVE TablesOnSessions'
  BY <1>13 DEF SetSessionFails, NewSession, handler, server, TablesOnSessions, TypeOK
<1>14. ASSUME NEW t \in Tables, NEW f \in Files, ModelTable(t, f) PROVE TablesOnSessions'
  BY <1>14, NoneIsNothing DEF ModelTable, HandsOut, OpenTable, Remembered, Memoise,
     NewTable, handler, server, Objects, TablesOnSessions, TypeOK
<1>15. ASSUME NEW t \in Tables, NEW f \in Files, OpenTableFails(t, f)
      PROVE TablesOnSessions'
  BY <1>15 DEF OpenTableFails, NewTable, handler, server, TablesOnSessions, TypeOK
<1>16. ASSUME NEW r \in Records, NEW t \in Tables, NEW f \in Files, QueryNew(r, t, f)
      PROVE TablesOnSessions'
  BY <1>16, NoneIsNothing DEF QueryNew, HandsOut, OpenTable, Remembered, Memoise, NewTable,
     NewRecord, handler, server, Objects, TablesOnSessions, TypeOK
<1>17. ASSUME NEW x \in held, Drop(x) PROVE TablesOnSessions'
  BY <1>17 DEF Drop, handler, server, TablesOnSessions, TypeOK
<1>18. CASE Exit
  BY <1>18 DEF Exit, EmptyMemo, handler, server, TablesOnSessions, TypeOK
<1>19. ASSUME NEW s \in Sessions, CollectSession(s) PROVE TablesOnSessions'
  <2>1. CASE session[s] = "in"
    BY <1>19, <2>1, CloseAllKeeps DEF CollectSession, FreeSession, TablesOnSessions
  <2>2. CASE session[s] # "in"
    BY <1>19, <2>2 DEF CollectSession, FreeSession, server, TablesOnSessions
  <2> QED
    BY <2>1, <2>2
<1>20. ASSUME NEW t \in Tables, CollectTable(t) PROVE TablesOnSessions'
  BY <1>20 DEF CollectTable, FreeTable, NoTable, handler, server, TablesOnSessions, TypeOK
<1>21. ASSUME NEW r \in Records, CollectRecord(r) PROVE TablesOnSessions'
  BY <1>21 DEF CollectRecord, FreeRecord, NoRecord, handler, server, TablesOnSessions,
     TypeOK
<1>22. CASE UNCHANGED vars
  BY <1>22 DEF vars, handler, server, TablesOnSessions, TypeOK
<1> QED
  BY <1>1, <1>2, <1>3, <1>4, <1>5, <1>6, <1>7, <1>8, <1>9, <1>10, <1>11, <1>12, <1>13,
     <1>14, <1>15, <1>16, <1>17, <1>18, <1>19, <1>20, <1>21, <1>22 DEF Next, Program,
     SessionStep, TableStep, RecordStep, ModelStep, DropStep, Collect

\* A session says it is logged on exactly while the server has its logon: the free function
\* logs out.
LEMMA LogonsStep ==
  ASSUME TypeOK, LogonsTrue, [Next]_vars
  PROVE  LogonsTrue'
<1>1. ASSUME NEW s \in Sessions, SessionNew(s) PROVE LogonsTrue'
  BY <1>1 DEF SessionNew, NewSession, handler, server, LogonsTrue, TypeOK
<1>2. ASSUME NEW s \in Sessions, SessionNewFails(s) PROVE LogonsTrue'
  BY <1>2 DEF SessionNewFails, NewSession, handler, server, LogonsTrue, TypeOK
<1>3. ASSUME NEW s \in Sessions, Logon(s) PROVE LogonsTrue'
  BY <1>3 DEF Logon, handler, server, LogonsTrue, TypeOK
<1>4. ASSUME NEW s \in Sessions, Logout(s) PROVE LogonsTrue'
  BY <1>4 DEF Logout, CloseAllOf, handler, server, LogonsTrue, TypeOK
<1>5. ASSUME NEW t \in Tables, NEW s \in Sessions, TableNew(t, s) PROVE LogonsTrue'
  BY <1>5 DEF TableNew, NewTable, NoTable, handler, server, LogonsTrue, TypeOK
<1>6. ASSUME NEW t \in Tables, NEW s \in Sessions, TableNewFails(t, s) PROVE LogonsTrue'
  BY <1>6 DEF TableNewFails, NewTable, NoTable, handler, server, LogonsTrue, TypeOK
<1>7. ASSUME NEW t \in Tables, NEW p \in Paths, SetPath(t, p) PROVE LogonsTrue'
  BY <1>7 DEF SetPath, UsableTable, handler, server, LogonsTrue, TypeOK
<1>8. ASSUME NEW t \in Tables, NEW n \in Names, Open(t, n) PROVE LogonsTrue'
  BY <1>8 DEF Open, UsableTable, handler, server, LogonsTrue, TypeOK
<1>9. ASSUME NEW t \in Tables, Close(t) PROVE LogonsTrue'
  BY <1>9 DEF Close, UsableTable, handler, server, LogonsTrue, TypeOK
<1>10. ASSUME NEW r \in Records, NEW t \in Tables, RecordNew(r, t) PROVE LogonsTrue'
  BY <1>10 DEF RecordNew, NewRecord, handler, server, LogonsTrue, TypeOK
<1>11. ASSUME NEW r \in Records, NEW q \in Records, Duplicate(r, q) PROVE LogonsTrue'
  BY <1>11 DEF Duplicate, NewRecord, handler, server, LogonsTrue, TypeOK
<1>12. ASSUME NEW s \in Sessions, SetSession(s) PROVE LogonsTrue'
  BY <1>12 DEF SetSession, NewSession, EmptyMemo, handler, server, LogonsTrue, TypeOK
<1>13. ASSUME NEW s \in Sessions, SetSessionFails(s) PROVE LogonsTrue'
  BY <1>13 DEF SetSessionFails, NewSession, handler, server, LogonsTrue, TypeOK
<1>14. ASSUME NEW t \in Tables, NEW f \in Files, ModelTable(t, f) PROVE LogonsTrue'
  BY <1>14 DEF ModelTable, HandsOut, OpenTable, Remembered, Memoise, NewTable, handler,
     server, LogonsTrue, TypeOK
<1>15. ASSUME NEW t \in Tables, NEW f \in Files, OpenTableFails(t, f) PROVE LogonsTrue'
  BY <1>15 DEF OpenTableFails, NewTable, handler, server, LogonsTrue, TypeOK
<1>16. ASSUME NEW r \in Records, NEW t \in Tables, NEW f \in Files, QueryNew(r, t, f)
      PROVE LogonsTrue'
  BY <1>16 DEF QueryNew, HandsOut, OpenTable, Remembered, Memoise, NewTable, NewRecord,
     handler, server, LogonsTrue, TypeOK
<1>17. ASSUME NEW x \in held, Drop(x) PROVE LogonsTrue'
  BY <1>17 DEF Drop, handler, server, LogonsTrue, TypeOK
<1>18. CASE Exit
  BY <1>18 DEF Exit, EmptyMemo, handler, server, LogonsTrue, TypeOK
<1>19. ASSUME NEW s \in Sessions, CollectSession(s) PROVE LogonsTrue'
  BY <1>19 DEF CollectSession, FreeSession, CloseAllOf, handler, server, LogonsTrue, TypeOK
<1>20. ASSUME NEW t \in Tables, CollectTable(t) PROVE LogonsTrue'
  BY <1>20 DEF CollectTable, FreeTable, NoTable, handler, server, LogonsTrue, TypeOK
<1>21. ASSUME NEW r \in Records, CollectRecord(r) PROVE LogonsTrue'
  BY <1>21 DEF CollectRecord, FreeRecord, NoRecord, handler, server, LogonsTrue, TypeOK
<1>22. CASE UNCHANGED vars
  BY <1>22 DEF vars, handler, server, LogonsTrue, TypeOK
<1> QED
  BY <1>1, <1>2, <1>3, <1>4, <1>5, <1>6, <1>7, <1>8, <1>9, <1>10, <1>11, <1>12, <1>13,
     <1>14, <1>15, <1>16, <1>17, <1>18, <1>19, <1>20, <1>21, <1>22 DEF Next, Program,
     SessionStep, TableStep, RecordStep, ModelStep, DropStep, Collect

\* No step leaves the server with a logon or an open table that nobody has the handle of.
LEMMA ServerStep ==
  ASSUME TypeOK, TablesOnSessions, LogonsTrue, ServerIsOwned, [Next]_vars
  PROVE  ServerIsOwned'
<1>1. ASSUME NEW s \in Sessions, SessionNew(s) PROVE ServerIsOwned'
  BY <1>1 DEF SessionNew, NewSession, handler, server, ServerIsOwned, TypeOK
<1>2. ASSUME NEW s \in Sessions, SessionNewFails(s) PROVE ServerIsOwned'
  BY <1>2 DEF SessionNewFails, NewSession, handler, server, ServerIsOwned, TypeOK
<1>3. ASSUME NEW s \in Sessions, Logon(s) PROVE ServerIsOwned'
  BY <1>3 DEF Logon, handler, server, ServerIsOwned, TypeOK
<1>4. ASSUME NEW s \in Sessions, Logout(s) PROVE ServerIsOwned'
  BY <1>4 DEF Logout, CloseAllOf, handler, server, ServerIsOwned, TypeOK
<1>5. ASSUME NEW t \in Tables, NEW s \in Sessions, TableNew(t, s) PROVE ServerIsOwned'
  BY <1>5 DEF TableNew, NewTable, NoTable, handler, server, ServerIsOwned, TypeOK
<1>6. ASSUME NEW t \in Tables, NEW s \in Sessions, TableNewFails(t, s) PROVE ServerIsOwned'
  BY <1>6 DEF TableNewFails, NewTable, NoTable, handler, server, ServerIsOwned, TypeOK
<1>7. ASSUME NEW t \in Tables, NEW p \in Paths, SetPath(t, p) PROVE ServerIsOwned'
  BY <1>7 DEF SetPath, UsableTable, handler, server, ServerIsOwned, TypeOK
<1>8. ASSUME NEW t \in Tables, NEW n \in Names, Open(t, n) PROVE ServerIsOwned'
  BY <1>8 DEF Open, UsableTable, handler, server, LogonsTrue, TablesOnSessions,
     ServerIsOwned, TypeOK
<1>9. ASSUME NEW t \in Tables, Close(t) PROVE ServerIsOwned'
  BY <1>9 DEF Close, UsableTable, handler, server, ServerIsOwned, TypeOK
<1>10. ASSUME NEW r \in Records, NEW t \in Tables, RecordNew(r, t) PROVE ServerIsOwned'
  BY <1>10 DEF RecordNew, NewRecord, handler, server, ServerIsOwned, TypeOK
<1>11. ASSUME NEW r \in Records, NEW q \in Records, Duplicate(r, q) PROVE ServerIsOwned'
  BY <1>11 DEF Duplicate, NewRecord, handler, server, ServerIsOwned, TypeOK
<1>12. ASSUME NEW s \in Sessions, SetSession(s) PROVE ServerIsOwned'
  BY <1>12 DEF SetSession, NewSession, EmptyMemo, handler, server, ServerIsOwned, TypeOK
<1>13. ASSUME NEW s \in Sessions, SetSessionFails(s) PROVE ServerIsOwned'
  BY <1>13 DEF SetSessionFails, NewSession, handler, server, ServerIsOwned, TypeOK
<1>14. ASSUME NEW t \in Tables, NEW f \in Files, ModelTable(t, f) PROVE ServerIsOwned'
  BY <1>14, NoneIsNothing DEF ModelTable, HandsOut, OpenTable, Remembered, Memoise,
     NewTable, handler, server, LogonsTrue, Objects, ServerIsOwned, TypeOK
<1>15. ASSUME NEW t \in Tables, NEW f \in Files, OpenTableFails(t, f) PROVE ServerIsOwned'
  BY <1>15 DEF OpenTableFails, NewTable, handler, server, ServerIsOwned, TypeOK
<1>16. ASSUME NEW r \in Records, NEW t \in Tables, NEW f \in Files, QueryNew(r, t, f)
      PROVE ServerIsOwned'
  BY <1>16, NoneIsNothing DEF QueryNew, HandsOut, OpenTable, Remembered, Memoise, NewTable,
     NewRecord, handler, server, LogonsTrue, Objects, ServerIsOwned, TypeOK
<1>17. ASSUME NEW x \in held, Drop(x) PROVE ServerIsOwned'
  BY <1>17 DEF Drop, handler, server, ServerIsOwned, TypeOK
<1>18. CASE Exit
  BY <1>18 DEF Exit, EmptyMemo, handler, server, ServerIsOwned, TypeOK
<1>19. ASSUME NEW s \in Sessions, CollectSession(s) PROVE ServerIsOwned'
  <2>1. CASE session[s] = "in"
    <3>1. ASSUME NEW t \in opens' PROVE table'[t].state = "open" /\ table'[t].on \in logons'
      <4>1. t \in Tables /\ t \in opens /\ table[t].on # s
        BY <1>19, <2>1 DEF CollectSession, FreeSession, CloseAllOf, TypeOK
      <4>2. table'[t] = table[t]
        BY <1>19, <2>1, <4>1, CloseAllKeeps DEF CollectSession, FreeSession
      <4> QED
        BY <1>19, <2>1, <4>1, <4>2 DEF CollectSession, FreeSession, CloseAllOf, ServerIsOwned
    <3>2. ASSUME NEW u \in logons' PROVE session'[u] = "in"
      BY <1>19, <2>1 DEF CollectSession, FreeSession, CloseAllOf, TypeOK, ServerIsOwned
    <3> QED
      BY <3>1, <3>2 DEF ServerIsOwned
  <2>2. CASE session[s] # "in"
    BY <1>19, <2>2 DEF CollectSession, FreeSession, server, TypeOK, ServerIsOwned
  <2> QED
    BY <2>1, <2>2
<1>20. ASSUME NEW t \in Tables, CollectTable(t) PROVE ServerIsOwned'
  BY <1>20 DEF CollectTable, FreeTable, NoTable, handler, server, ServerIsOwned, TypeOK
<1>21. ASSUME NEW r \in Records, CollectRecord(r) PROVE ServerIsOwned'
  BY <1>21 DEF CollectRecord, FreeRecord, NoRecord, handler, server, ServerIsOwned, TypeOK
<1>22. CASE UNCHANGED vars
  BY <1>22 DEF vars, handler, server, ServerIsOwned, TypeOK
<1> QED
  BY <1>1, <1>2, <1>3, <1>4, <1>5, <1>6, <1>7, <1>8, <1>9, <1>10, <1>11, <1>12, <1>13,
     <1>14, <1>15, <1>16, <1>17, <1>18, <1>19, <1>20, <1>21, <1>22 DEF Next, Program,
     SessionStep, TableStep, RecordStep, ModelStep, DropStep, Collect

\* What the handler has is not freed, and only its own tables are in its memo.
LEMMA HandlerStep ==
  ASSUME TypeOK, HandlerLive, [Next]_vars
  PROVE  HandlerLive'
<1>1. ASSUME NEW s \in Sessions, SessionNew(s) PROVE HandlerLive'
  BY <1>1 DEF SessionNew, NewSession, handler, server, HandlerLive, UsableSession, TypeOK
<1>2. ASSUME NEW s \in Sessions, SessionNewFails(s) PROVE HandlerLive'
  BY <1>2 DEF SessionNewFails, NewSession, handler, server, HandlerLive, UsableSession,
     TypeOK
<1>3. ASSUME NEW s \in Sessions, Logon(s) PROVE HandlerLive'
  BY <1>3 DEF Logon, handler, server, HandlerLive, UsableSession, TypeOK
<1>4. ASSUME NEW s \in Sessions, Logout(s) PROVE HandlerLive'
  <2>1. ASSUME NEW t \in Tables
        PROVE  /\ table'[t].on = table[t].on
               /\ table[t].state \in {"closed", "open"} => table'[t].state \in {"closed", "open"}
    BY <1>4, CloseAllKeeps DEF Logout
  <2> QED
    BY <1>4, <2>1 DEF Logout, handler, HandlerLive, UsableSession, TypeOK
<1>5. ASSUME NEW t \in Tables, NEW s \in Sessions, TableNew(t, s) PROVE HandlerLive'
  BY <1>5 DEF TableNew, NewTable, NoTable, handler, server, UsableSession, HandlerLive,
     TypeOK
<1>6. ASSUME NEW t \in Tables, NEW s \in Sessions, TableNewFails(t, s) PROVE HandlerLive'
  BY <1>6 DEF TableNewFails, NewTable, NoTable, handler, server, HandlerLive, UsableSession,
     TypeOK
<1>7. ASSUME NEW t \in Tables, NEW p \in Paths, SetPath(t, p) PROVE HandlerLive'
  BY <1>7 DEF SetPath, UsableTable, handler, server, HandlerLive, UsableSession, TypeOK
<1>8. ASSUME NEW t \in Tables, NEW n \in Names, Open(t, n) PROVE HandlerLive'
  BY <1>8 DEF Open, UsableTable, handler, server, HandlerLive, UsableSession, TypeOK
<1>9. ASSUME NEW t \in Tables, Close(t) PROVE HandlerLive'
  BY <1>9 DEF Close, UsableTable, handler, server, HandlerLive, UsableSession, TypeOK
<1>10. ASSUME NEW r \in Records, NEW t \in Tables, RecordNew(r, t) PROVE HandlerLive'
  BY <1>10 DEF RecordNew, NewRecord, handler, server, HandlerLive, UsableSession, TypeOK
<1>11. ASSUME NEW r \in Records, NEW q \in Records, Duplicate(r, q) PROVE HandlerLive'
  BY <1>11 DEF Duplicate, NewRecord, handler, server, HandlerLive, UsableSession, TypeOK
<1>12. ASSUME NEW s \in Sessions, SetSession(s) PROVE HandlerLive'
  BY <1>12 DEF SetSession, NewSession, EmptyMemo, handler, server, HandlerLive,
     UsableSession, TypeOK
<1>13. ASSUME NEW s \in Sessions, SetSessionFails(s) PROVE HandlerLive'
  BY <1>13 DEF SetSessionFails, NewSession, handler, server, HandlerLive, UsableSession,
     TypeOK
<1>14. ASSUME NEW t \in Tables, NEW f \in Files, ModelTable(t, f) PROVE HandlerLive'
  BY <1>14, NoneIsNothing DEF ModelTable, HandsOut, OpenTable, Remembered, Memoise,
     NewTable, handler, server, Objects, HandlerLive, UsableSession, TypeOK
<1>15. ASSUME NEW t \in Tables, NEW f \in Files, OpenTableFails(t, f) PROVE HandlerLive'
  BY <1>15 DEF OpenTableFails, NewTable, handler, server, HandlerLive, UsableSession, TypeOK
<1>16. ASSUME NEW r \in Records, NEW t \in Tables, NEW f \in Files, QueryNew(r, t, f)
      PROVE HandlerLive'
  BY <1>16, NoneIsNothing DEF QueryNew, HandsOut, OpenTable, Remembered, Memoise, NewTable,
     NewRecord, handler, server, Objects, HandlerLive, UsableSession, TypeOK
<1>17. ASSUME NEW x \in held, Drop(x) PROVE HandlerLive'
  BY <1>17 DEF Drop, handler, server, HandlerLive, UsableSession, TypeOK
<1>18. CASE Exit
  BY <1>18 DEF Exit, EmptyMemo, handler, server, HandlerLive, UsableSession, TypeOK
<1>19. ASSUME NEW s \in Sessions, CollectSession(s) PROVE HandlerLive'
  <2>1. s # hsession
    BY <1>19, NoneIsNothing DEF CollectSession, Reachable, InHandler, Objects
  <2>2. ASSUME NEW t \in Tables
        PROVE  /\ table'[t].on = table[t].on
               /\ table[t].state \in {"closed", "open"} => table'[t].state \in {"closed", "open"}
    BY <1>19, CloseAllKeeps DEF CollectSession, FreeSession
  <2> QED
    BY <1>19, <2>1, <2>2 DEF CollectSession, FreeSession, handler, HandlerLive, UsableSession,
       TypeOK
<1>20. ASSUME NEW t \in Tables, CollectTable(t) PROVE HandlerLive'
  BY <1>20 DEF CollectTable, FreeTable, NoTable, handler, server, Reachable, InHandler,
     HandlerLive, UsableSession, TypeOK
<1>21. ASSUME NEW r \in Records, CollectRecord(r) PROVE HandlerLive'
  BY <1>21 DEF CollectRecord, FreeRecord, NoRecord, handler, server, HandlerLive,
     UsableSession, TypeOK
<1>22. CASE UNCHANGED vars
  BY <1>22 DEF vars, handler, server, HandlerLive, UsableSession, TypeOK
<1> QED
  BY <1>1, <1>2, <1>3, <1>4, <1>5, <1>6, <1>7, <1>8, <1>9, <1>10, <1>11, <1>12, <1>13,
     <1>14, <1>15, <1>16, <1>17, <1>18, <1>19, <1>20, <1>21, <1>22 DEF Next, Program,
     SessionStep, TableStep, RecordStep, ModelStep, DropStep, Collect

\* The memo keeps the table of every query made since Model.session= was called last.
LEMMA CurrentStep ==
  ASSUME TypeOK, CurrentRemembered, [Next]_vars
  PROVE  CurrentRemembered'
<1>1. ASSUME NEW s \in Sessions, SessionNew(s) PROVE CurrentRemembered'
  BY <1>1 DEF SessionNew, NewSession, handler, server, CurrentRemembered, TypeOK
<1>2. ASSUME NEW s \in Sessions, SessionNewFails(s) PROVE CurrentRemembered'
  BY <1>2 DEF SessionNewFails, NewSession, handler, server, CurrentRemembered, TypeOK
<1>3. ASSUME NEW s \in Sessions, Logon(s) PROVE CurrentRemembered'
  BY <1>3 DEF Logon, handler, server, CurrentRemembered, TypeOK
<1>4. ASSUME NEW s \in Sessions, Logout(s) PROVE CurrentRemembered'
  BY <1>4 DEF Logout, CloseAllOf, handler, server, CurrentRemembered, TypeOK
<1>5. ASSUME NEW t \in Tables, NEW s \in Sessions, TableNew(t, s) PROVE CurrentRemembered'
  BY <1>5 DEF TableNew, NewTable, NoTable, handler, server, CurrentRemembered, TypeOK
<1>6. ASSUME NEW t \in Tables, NEW s \in Sessions, TableNewFails(t, s)
      PROVE CurrentRemembered'
  BY <1>6 DEF TableNewFails, NewTable, NoTable, handler, server, CurrentRemembered, TypeOK
<1>7. ASSUME NEW t \in Tables, NEW p \in Paths, SetPath(t, p) PROVE CurrentRemembered'
  BY <1>7 DEF SetPath, UsableTable, handler, server, CurrentRemembered, TypeOK
<1>8. ASSUME NEW t \in Tables, NEW n \in Names, Open(t, n) PROVE CurrentRemembered'
  BY <1>8 DEF Open, UsableTable, handler, server, CurrentRemembered, TypeOK
<1>9. ASSUME NEW t \in Tables, Close(t) PROVE CurrentRemembered'
  BY <1>9 DEF Close, UsableTable, handler, server, CurrentRemembered, TypeOK
<1>10. ASSUME NEW r \in Records, NEW t \in Tables, RecordNew(r, t) PROVE CurrentRemembered'
  BY <1>10 DEF RecordNew, NewRecord, handler, server, CurrentRemembered, TypeOK
<1>11. ASSUME NEW r \in Records, NEW q \in Records, Duplicate(r, q) PROVE CurrentRemembered'
  BY <1>11 DEF Duplicate, NewRecord, handler, server, CurrentRemembered, TypeOK
<1>12. ASSUME NEW s \in Sessions, SetSession(s) PROVE CurrentRemembered'
  BY <1>12 DEF SetSession, NewSession, EmptyMemo, handler, server, CurrentRemembered, TypeOK
<1>13. ASSUME NEW s \in Sessions, SetSessionFails(s) PROVE CurrentRemembered'
  BY <1>13 DEF SetSessionFails, NewSession, handler, server, CurrentRemembered, TypeOK
<1>14. ASSUME NEW t \in Tables, NEW f \in Files, ModelTable(t, f) PROVE CurrentRemembered'
  BY <1>14, NoneIsNothing DEF ModelTable, HandsOut, OpenTable, Remembered, Memoise,
     NewTable, handler, server, Objects, CurrentRemembered, TypeOK
<1>15. ASSUME NEW t \in Tables, NEW f \in Files, OpenTableFails(t, f)
      PROVE CurrentRemembered'
  BY <1>15 DEF OpenTableFails, NewTable, handler, server, CurrentRemembered, TypeOK
<1>16. ASSUME NEW r \in Records, NEW t \in Tables, NEW f \in Files, QueryNew(r, t, f)
      PROVE CurrentRemembered'
  BY <1>16, NoneIsNothing DEF QueryNew, HandsOut, OpenTable, Remembered, Memoise, NewTable,
     NewRecord, handler, server, Objects, CurrentRemembered, TypeOK
<1>17. ASSUME NEW x \in held, Drop(x) PROVE CurrentRemembered'
  BY <1>17 DEF Drop, handler, server, CurrentRemembered, TypeOK
<1>18. CASE Exit
  BY <1>18 DEF Exit, EmptyMemo, handler, server, CurrentRemembered, TypeOK
<1>19. ASSUME NEW s \in Sessions, CollectSession(s) PROVE CurrentRemembered'
  BY <1>19 DEF CollectSession, FreeSession, CloseAllOf, handler, server, CurrentRemembered,
     TypeOK
<1>20. ASSUME NEW t \in Tables, CollectTable(t) PROVE CurrentRemembered'
  BY <1>20 DEF CollectTable, FreeTable, NoTable, handler, server, CurrentRemembered, TypeOK
<1>21. ASSUME NEW r \in Records, CollectRecord(r) PROVE CurrentRemembered'
  BY <1>21 DEF CollectRecord, FreeRecord, NoRecord, handler, server, CurrentRemembered,
     TypeOK
<1>22. CASE UNCHANGED vars
  BY <1>22 DEF vars, handler, server, CurrentRemembered, TypeOK
<1> QED
  BY <1>1, <1>2, <1>3, <1>4, <1>5, <1>6, <1>7, <1>8, <1>9, <1>10, <1>11, <1>12, <1>13,
     <1>14, <1>15, <1>16, <1>17, <1>18, <1>19, <1>20, <1>21, <1>22 DEF Next, Program,
     SessionStep, TableStep, RecordStep, ModelStep, DropStep, Collect

\* A table of the memo that is not as it was opened was closed, or its session logged out, by
\* the program.
LEMMA HandsOutStep ==
  ASSUME TypeOK, HandlerLive, HandsOutOpen, [Next]_vars
  PROVE  HandsOutOpen'
<1>1. ASSUME NEW s \in Sessions, SessionNew(s) PROVE HandsOutOpen'
  BY <1>1 DEF SessionNew, NewSession, handler, server, HandsOutOpen, TypeOK
<1>2. ASSUME NEW s \in Sessions, SessionNewFails(s) PROVE HandsOutOpen'
  BY <1>2 DEF SessionNewFails, NewSession, handler, server, HandsOutOpen, TypeOK
<1>3. ASSUME NEW s \in Sessions, Logon(s) PROVE HandsOutOpen'
  BY <1>3 DEF Logon, handler, server, HandsOutOpen, TypeOK
<1>4. ASSUME NEW s \in Sessions, Logout(s) PROVE HandsOutOpen'
  <2>1. ASSUME NEW f \in Files, htables[f] # None, table[htables[f]].on # s
        PROVE  table'[htables[f]] = table[htables[f]]
    BY <1>4, <2>1, CloseAllKeeps DEF Logout, TypeOK
  <2>2. hsession = s => s \in meddled'
    BY <1>4, NoneIsNothing DEF Logout, InHandler, Objects
  <2> QED
    BY <1>4, <2>1, <2>2 DEF Logout, handler, HandlerLive, HandsOutOpen, TypeOK
<1>5. ASSUME NEW t \in Tables, NEW s \in Sessions, TableNew(t, s) PROVE HandsOutOpen'
  BY <1>5 DEF TableNew, NewTable, NoTable, handler, server, HandlerLive, HandsOutOpen,
     TypeOK
<1>6. ASSUME NEW t \in Tables, NEW s \in Sessions, TableNewFails(t, s) PROVE HandsOutOpen'
  BY <1>6 DEF TableNewFails, NewTable, NoTable, handler, server, HandlerLive, HandsOutOpen,
     TypeOK
<1>7. ASSUME NEW t \in Tables, NEW p \in Paths, SetPath(t, p) PROVE HandsOutOpen'
  BY <1>7 DEF SetPath, UsableTable, handler, server, HandsOutOpen, TypeOK
<1>8. ASSUME NEW t \in Tables, NEW n \in Names, Open(t, n) PROVE HandsOutOpen'
  BY <1>8 DEF Open, UsableTable, handler, server, HandsOutOpen, TypeOK
<1>9. ASSUME NEW t \in Tables, Close(t) PROVE HandsOutOpen'
  BY <1>9 DEF Close, UsableTable, handler, server, InHandler, HandsOutOpen, TypeOK
<1>10. ASSUME NEW r \in Records, NEW t \in Tables, RecordNew(r, t) PROVE HandsOutOpen'
  BY <1>10 DEF RecordNew, NewRecord, handler, server, HandsOutOpen, TypeOK
<1>11. ASSUME NEW r \in Records, NEW q \in Records, Duplicate(r, q) PROVE HandsOutOpen'
  BY <1>11 DEF Duplicate, NewRecord, handler, server, HandsOutOpen, TypeOK
<1>12. ASSUME NEW s \in Sessions, SetSession(s) PROVE HandsOutOpen'
  BY <1>12 DEF SetSession, NewSession, EmptyMemo, handler, server, HandsOutOpen, TypeOK
<1>13. ASSUME NEW s \in Sessions, SetSessionFails(s) PROVE HandsOutOpen'
  BY <1>13 DEF SetSessionFails, NewSession, handler, server, HandsOutOpen, TypeOK
<1>14. ASSUME NEW t \in Tables, NEW f \in Files, ModelTable(t, f) PROVE HandsOutOpen'
  BY <1>14, NoneIsNothing DEF ModelTable, HandsOut, OpenTable, Remembered, Memoise,
     NewTable, handler, server, HandlerLive, HandsOutOpen, TypeOK
<1>15. ASSUME NEW t \in Tables, NEW f \in Files, OpenTableFails(t, f) PROVE HandsOutOpen'
  BY <1>15 DEF OpenTableFails, NewTable, handler, server, HandlerLive, HandsOutOpen, TypeOK
<1>16. ASSUME NEW r \in Records, NEW t \in Tables, NEW f \in Files, QueryNew(r, t, f)
      PROVE HandsOutOpen'
  BY <1>16, NoneIsNothing DEF QueryNew, HandsOut, OpenTable, Remembered, Memoise, NewTable,
     NewRecord, handler, server, HandlerLive, HandsOutOpen, TypeOK
<1>17. ASSUME NEW x \in held, Drop(x) PROVE HandsOutOpen'
  BY <1>17 DEF Drop, handler, server, HandsOutOpen, TypeOK
<1>18. CASE Exit
  BY <1>18 DEF Exit, EmptyMemo, handler, server, HandsOutOpen, TypeOK
<1>19. ASSUME NEW s \in Sessions, CollectSession(s) PROVE HandsOutOpen'
  <2>1. s # hsession
    BY <1>19, NoneIsNothing DEF CollectSession, Reachable, InHandler, Objects
  <2>2. ASSUME NEW f \in Files, htables[f] # None
        PROVE  table'[htables[f]] = table[htables[f]]
    BY <1>19, <2>1, <2>2, CloseAllKeeps DEF CollectSession, FreeSession, HandlerLive, server,
       TypeOK
  <2> QED
    BY <1>19, <2>2 DEF CollectSession, handler, HandsOutOpen, TypeOK
<1>20. ASSUME NEW t \in Tables, CollectTable(t) PROVE HandsOutOpen'
  BY <1>20 DEF CollectTable, FreeTable, NoTable, handler, server, Reachable, InHandler,
     HandsOutOpen, TypeOK
<1>21. ASSUME NEW r \in Records, CollectRecord(r) PROVE HandsOutOpen'
  BY <1>21 DEF CollectRecord, FreeRecord, NoRecord, handler, server, HandsOutOpen, TypeOK
<1>22. CASE UNCHANGED vars
  BY <1>22 DEF vars, handler, server, HandsOutOpen, TypeOK
<1> QED
  BY <1>1, <1>2, <1>3, <1>4, <1>5, <1>6, <1>7, <1>8, <1>9, <1>10, <1>11, <1>12, <1>13,
     <1>14, <1>15, <1>16, <1>17, <1>18, <1>19, <1>20, <1>21, <1>22 DEF Next, Program,
     SessionStep, TableStep, RecordStep, ModelStep, DropStep, Collect

-----------------------------------------------------------------------------
(* The invariant *)

\* A process that has made nothing satisfies the inductive invariant.
LEMMA InvariantInit == Init => IInv
<1> SUFFICES ASSUME Init PROVE IInv
  OBVIOUS
<1>1. TypeOK
  BY DEF Init, TypeOK, NoTable, NoRecord, EmptyMemo, TableHandle, RecordHandle,
     SessionStates, TableStates, RecordStates
<1>2. HandlerLive /\ HandsOutOpen
  BY DEF Init, HandlerLive, HandsOutOpen, EmptyMemo
<1>3. TablesOnSessions /\ LogonsTrue /\ ServerIsOwned /\ CurrentRemembered
  BY DEF Init, TablesOnSessions, LogonsTrue, ServerIsOwned, CurrentRemembered, NoTable
<1> QED
  BY <1>1, <1>2, <1>3 DEF IInv

\* Every step keeps the inductive invariant.
LEMMA InvariantStep == IInv /\ [Next]_vars => IInv'
  BY TypeStep, HandlerStep, CurrentStep, TablesStep, LogonsStep, ServerStep, HandsOutStep
     DEF IInv

\* The inductive invariant holds in every state.
THEOREM Invariant == Spec => []IInv
  BY InvariantInit, InvariantStep, PTL DEF Spec

\* Every object is in a state that its class has.
THEOREM TypesHold == Spec => []TypeOK
  BY Invariant, PTL DEF IInv

\* The memo of the handler has the table of every current query, the collector spares what
\* the memo has, and the table is on the handler's session, which it spares too.
THEOREM QueriesAreUsable == Spec => []QueriesUsable
<1>1. IInv => QueriesUsable
  <2> SUFFICES ASSUME IInv, NEW r \in current
               PROVE  record[r].state = "live" /\ UsableTable(record[r].of)
    BY DEF QueriesUsable
  <2>1. PICK f \in Files : htables[f] = record[r].of
    BY DEF IInv, CurrentRemembered
  <2>2. record[r].state = "live" /\ htables[f] # None
    BY <2>1 DEF IInv, CurrentRemembered
  <2> QED
    BY <2>1, <2>2 DEF IInv, HandlerLive, UsableTable
<1> QED
  BY <1>1, Invariant, PTL

\* A table that open_table remembers is open, unless the program undid that.
THEOREM HandsOutAreOpen == Spec => []HandsOutOpen
  BY Invariant, PTL DEF IInv

\* Whatever the collector frees, and when, the server keeps nothing without an owner.
THEOREM ServerOwned == Spec => []ServerIsOwned
  BY Invariant, PTL DEF IInv

-----------------------------------------------------------------------------
(* The end of the process: the argument behind ExitReleases *)

\* The objects whose free function has not run.
Living == {s \in Sessions : session[s] \in {"null", "out", "in"}}
            \cup {t \in Tables : table[t].state \in {"null", "closed", "open"}}
            \cup {r \in Records : record[r].state = "live"}

\* What ExitReleases says is reached.
Released == /\ logons = {} /\ opens = {}
            /\ \A s \in Sessions : session[s] \in {"unborn", "freed"}
            /\ \A t \in Tables : table[t].state \in {"unborn", "freed"}

\* An ended process refers to nothing.
Ended == exiting => Reachable = {}

\* Exit drops all references, and nothing makes one again.
LEMMA EndedStep == Ended /\ [Next]_vars => Ended'
<1>1. Ended /\ Program => Ended'
  <2>1. Exit => Reachable' = {}
    BY DEF Exit, Reachable, InHandler, EmptyMemo
  <2>2. Program /\ ~Exit => ~exiting'
    BY DEF Program, SessionStep, SessionNew, SessionNewFails, Logon, Logout, TableStep, TableNew,
           TableNewFails, SetPath, Open, Close, RecordStep, RecordNew, Duplicate, ModelStep,
           SetSession, SetSessionFails, ModelTable, OpenTableFails, QueryNew, DropStep, Drop
  <2> QED
    BY <2>1, <2>2 DEF Ended
<1>2. Ended /\ Collect => Ended'
  BY DEF Ended, Collect, CollectSession, CollectTable, CollectRecord, handler, Reachable, InHandler
<1>3. Ended /\ UNCHANGED vars => Ended'
  BY DEF Ended, vars, Reachable, InHandler
<1> QED
  BY <1>1, <1>2, <1>3 DEF Next

\* A free function ends one object: freeing a session closes its tables, but leaves their
\* own handles to their own free functions.
LEMMA CollectEndsOne ==
  ASSUME TypeOK, Collect
  PROVE  \E x \in Living : Living' = Living \ {x}
<1>1. ASSUME NEW s \in Sessions, CollectSession(s)
      PROVE  s \in Living /\ Living' = Living \ {s}
  <2>1. session[s] \in {"null", "out", "in"} /\ session' = [session EXCEPT ![s] = "freed"]
        /\ record' = record
    BY <1>1 DEF CollectSession, FreeSession
  <2>2. \A t \in Tables : table'[t].state \in {"null", "closed", "open"}
                            <=> table[t].state \in {"null", "closed", "open"}
    BY <1>1, CloseAllKeeps DEF CollectSession, FreeSession
  <2>3. \A u \in Sessions : session'[u] = IF u = s THEN "freed" ELSE session[u]
    BY <2>1 DEF TypeOK
  <2> QED
    BY <2>1, <2>2, <2>3, ObjectsAreDistinct DEF Living
<1>2. ASSUME NEW t \in Tables, CollectTable(t)
      PROVE  t \in Living /\ Living' = Living \ {t}
  <2>1. \A u \in Tables : table'[u] = IF u = t THEN [NoTable EXCEPT !.state = "freed"] ELSE table[u]
    BY <1>2 DEF CollectTable, FreeTable, TypeOK
  <2>2. [NoTable EXCEPT !.state = "freed"].state = "freed"
    BY DEF NoTable
  <2>3. table[t].state \in {"null", "closed", "open"} /\ session' = session /\ record' = record
    BY <1>2 DEF CollectTable, FreeTable
  <2> QED
    BY <2>1, <2>2, <2>3, ObjectsAreDistinct DEF Living
<1>3. ASSUME NEW r \in Records, CollectRecord(r)
      PROVE  r \in Living /\ Living' = Living \ {r}
  <2>1. \A q \in Records : record'[q] = IF q = r THEN [NoRecord EXCEPT !.state = "lost"] ELSE record[q]
    BY <1>3 DEF CollectRecord, FreeRecord, TypeOK
  <2>2. [NoRecord EXCEPT !.state = "lost"].state = "lost"
    BY DEF NoRecord
  <2>3. record[r].state = "live" /\ session' = session /\ table' = table
    BY <1>3 DEF CollectRecord, FreeRecord
  <2> QED
    BY <2>1, <2>2, <2>3, ObjectsAreDistinct DEF Living
<1> QED
  BY <1>1, <1>2, <1>3 DEF Collect

\* When the free functions have run, nothing is left at the server or in the process.
LEMMA NothingLiving ==
  ASSUME IInv, Living = {}
  PROVE  Released
<1>1. \A s \in Sessions : session[s] \in {"unborn", "freed"}
  BY DEF Living, IInv, TypeOK, SessionStates
<1>2. \A t \in Tables : table[t].state \in {"unborn", "freed"}
  <2> SUFFICES ASSUME NEW t \in Tables PROVE table[t].state \in {"unborn", "freed"}
    OBVIOUS
  <2>1. table[t].state \in TableStates
    BY DEF IInv, TypeOK, TableHandle
  <2> QED
    BY <2>1 DEF Living, TableStates
<1>3. logons = {} /\ opens = {}
  BY <1>1, <1>2 DEF IInv, ServerIsOwned, TypeOK
<1> QED
  BY <1>1, <1>2, <1>3 DEF Released

\* After Exit nothing is referred to, so no free function is held up; each step runs one,
\* for good; and when all have run, the process has given everything back.
THEOREM ExitFreesAll ==
  Spec => /\ [](exiting => Reachable = {})
          /\ [][exiting => exiting' /\ \E x \in Living : Living' = Living \ {x}]_vars
          /\ [](exiting /\ Living = {} => Released)
<1>1. Init => Ended
  BY DEF Init, Ended
<1>2. TypeOK /\ [Next]_vars =>
        [exiting => exiting' /\ \E x \in Living : Living' = Living \ {x}]_vars
  BY CollectEndsOne DEF Next, Program, Collect, CollectSession, CollectTable, CollectRecord
<1>3. IInv => (exiting /\ Living = {} => Released)
  BY NothingLiving
<1> QED
  BY <1>1, <1>2, <1>3, EndedStep, Invariant, TypesHold, PTL DEF Spec, Ended
=============================================================================
