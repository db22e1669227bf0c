----------------------------- MODULE RecordLocks -----------------------------
(***************************************************************************)
(* Record and session locks as several processes use them on the rows of   *)
(* one table: CT::Record#lock, unlock and lock_mode and CT::Session#lock   *)
(* and unlock (ext/ctdb_ext/ct_record.c, ct_session.c), and the blocks of  *)
(* CT::Record#with_write_lock! (lib/ctdb/record.rb), nested in one another *)
(* and left by exceptions.                                                 *)
(*                                                                         *)
(* The server is external: it grants read and write locks to processes,    *)
(* not to record handles; a process may own a lock it took through one     *)
(* handle and lose it through another.  It may refuse any request.         *)
(*                                                                         *)
(* with_write_lock! has a loop that is meant to sleep and ask again, but   *)
(* its first turn raises: Time is CT::Time there, which has no to_f, and   *)
(* CT::LockTimeoutError is not defined.  A refused lock is an exception.   *)
(*                                                                         *)
(* A definition whose name ends in Bug is a mistaken variant of the one    *)
(* below it.                                                               *)
(***************************************************************************)
EXTENDS Naturals, Sequences

CONSTANTS
  Clients,    \* processes, each with one session
  Handles,    \* CT::Record objects
  Owner,      \* the process of each
  Rows,       \* records of the table
  Visits,        \* the rows each handle moves to
  HandModes,     \* the modes each process passes to CT::Record#lock
  SessionModes,  \* the modes each process passes to CT::Session#lock
  MaxDepth,   \* blocks that each process nests
  None        \* no position

Modes == {"free", "read", "write"}

ASSUME OwnerTyped    == Owner \in [Handles -> Clients]
ASSUME ModesTyped    == /\ HandModes \in [Clients -> SUBSET {"read", "write"}]
                        /\ SessionModes \in [Clients -> SUBSET {"read", "write"}]
ASSUME VisitsTyped   == Visits \in [Handles -> SUBSET Rows]
ASSUME DepthsAreNumbers == MaxDepth \in [Clients -> Nat]
ASSUME NoneIsNoRow   == None \notin Rows

VARIABLES
  granted,      \* the server: each process's lock on each row
  sessionLock,  \* the server: each process's session-wide lock mode
  at,           \* position of each record handle
  lockMode,     \* the lock each record handle says it has
  blocks,       \* with_write_lock! calls in progress, innermost last
  raising,      \* an exception is on its way
  lost,         \* history: rows whose lock a process gave up inside a block
  loose,        \* history: locks taken by hand, or left behind by a move
  undercut      \* history: handles whose lock ended through something else

locks   == <<granted, sessionLock>>
records == <<at, lockMode>>
calls   == <<blocks, raising>>
history == <<lost, loose, undercut>>
vars    == <<granted, sessionLock, at, lockMode, blocks, raising, lost, loose, undercut>>

Phases == {"asking", "inside", "refused"}
Block  == [handle : Handles, row : Rows \cup {None}, phase : Phases]

HandlesOf(c) == {h \in Handles : Owner[h] = c}
Depth(c)     == Len(blocks[c])
Top(c)       == blocks[c][Depth(c)]
Popped(c)    == SubSeq(blocks[c], 1, Depth(c) - 1)

\* c runs the body of a block on row r in the stack bs.
RunsOn(bs, r)  == \E i \in DOMAIN bs : bs[i].phase = "inside" /\ bs[i].row = r
InBlock(c, r)  == RunsOn(blocks[c], r)

\* c is running Ruby code: not unwinding, and not waiting for the server.
Running(c) == ~raising[c] /\ (Depth(c) > 0 => Top(c).phase = "inside")

-----------------------------------------------------------------------------
(* The server *)

Compatible(c, r, m) ==
  \A d \in Clients \ {c} : granted[d][r] = "free" \/ (m = "read" /\ granted[d][r] = "read")

Grant(c, r, m) == granted' = [granted EXCEPT ![c][r] = m]

\* Handles of c, other than h, that think they have a lock on row r.
OthersOn(c, h, r) == {g \in HandlesOf(c) \ {h} : at[g] = r /\ lockMode[g] # "free"}

\* No bookkeeping in the handle.
UnlockRecordBug(c, h) ==
  /\ granted' = [granted EXCEPT ![c] = [r \in Rows |-> IF r = at[h] THEN "free" ELSE @[r]]]
  /\ UNCHANGED lockMode
  /\ undercut' = undercut \cup OthersOn(c, h, at[h])
  /\ loose' = loose \ {<<c, at[h]>>}

\* ctdbUnlockRecord: the process's lock on the handle's row is gone, whoever
\* took it.
UnlockRecord(c, h) ==
  /\ granted' = [granted EXCEPT ![c] = [r \in Rows |-> IF r = at[h] THEN "free" ELSE @[r]]]
  /\ lockMode' = [lockMode EXCEPT ![h] = "free"]
  /\ undercut' = (undercut \cup OthersOn(c, h, at[h])) \ {h}
  /\ loose' = loose \ {<<c, at[h]>>}

\* History: of the rows c is still in a block on, those in S are unprotected.
Loses(c, S, bs) ==
  lost' = {x \in lost : x[1] # c \/ RunsOn(bs, x[2])}
            \cup {<<c, r>> : r \in {q \in S : RunsOn(bs, q)}}

-----------------------------------------------------------------------------
(* CT::Record#lock, lock!, unlock and unlock! by hand.  A refusal changes  *)
(* nothing (lock!: see Raise).                                             *)

Lock(c, h, m) ==
  /\ Running(c) /\ Owner[h] = c
  /\ at[h] # None /\ Compatible(c, at[h], m)
  /\ Grant(c, at[h], m)
  /\ lockMode' = [lockMode EXCEPT ![h] = m]
  /\ loose' = loose \cup {<<c, at[h]>>}
  /\ undercut' = (undercut \cup OthersOn(c, h, at[h])) \ {h}
  /\ Loses(c, IF m = "write" THEN {} ELSE {at[h]}, blocks[c])
  /\ UNCHANGED <<sessionLock, at, calls>>

\* unlock, and lock(CT::LOCK_FREE).
Unlock(c, h) ==
  /\ Running(c) /\ Owner[h] = c
  /\ UnlockRecord(c, h)
  /\ Loses(c, {at[h]}, blocks[c])
  /\ UNCHANGED <<sessionLock, at, calls>>

\* The locks of c after its handle h moved from at[h] to r: the lock on the row it
\* leaves may stay or go; a session-wide lock is taken on the row it comes to.
Moved(c, h, r, keep) ==
  [q \in Rows |-> IF q = r /\ sessionLock[c] # "free" THEN sessionLock[c]
                  ELSE IF ~keep /\ q = at[h] THEN "free" ELSE granted[c][q]]

\* The handle moves to another row (find, first, next, prev, seek, read).
Move(c, h, r) ==
  /\ Running(c) /\ Owner[h] = c /\ r # at[h]
  /\ sessionLock[c] # "free" => Compatible(c, r, sessionLock[c])
  /\ lockMode' = [lockMode EXCEPT ![h] = sessionLock[c]]
  /\ at' = [at EXCEPT ![h] = r]
  /\ \E keep \in BOOLEAN :
       LET after == Moved(c, h, r, keep)
           left  == IF keep THEN {} ELSE {at[h]}
       IN /\ granted' = [granted EXCEPT ![c] = after]
          /\ loose' = (loose \ {<<c, q>> : q \in left})
                        \cup {<<c, q>> : q \in {p \in {at[h], r} : p # None /\ after[p] # "free"}}
          /\ undercut' = (undercut \cup (IF keep THEN {} ELSE OthersOn(c, h, at[h]))
                            \cup (IF sessionLock[c] = "free" THEN {} ELSE OthersOn(c, h, r))) \ {h}
          /\ Loses(c, {q \in Rows : after[q] # "write"}, blocks[c])
  /\ UNCHANGED <<sessionLock, calls>>

-----------------------------------------------------------------------------
(* CT::Session#lock and unlock *)

\* read_lock! and write_lock!.  suspend_locks! raises: CT::LOCK_SUSPEND is not
\* defined.
SessionLock(c, m) ==
  /\ Running(c)
  /\ sessionLock' = [sessionLock EXCEPT ![c] = m]
  /\ UNCHANGED <<granted, records, calls, history>>

\* unlock, and free_all_locks!: every lock of the process, also those of
\* records.  What record handles say of their lock does not change.
SessionUnlock(c) ==
  /\ Running(c) /\ SessionModes[c] # {}
  /\ sessionLock' = [sessionLock EXCEPT ![c] = "free"]
  /\ granted' = [granted EXCEPT ![c] = [r \in Rows |-> "free"]]
  /\ loose' = {x \in loose : x[1] # c}
  /\ undercut' = undercut \cup {h \in HandlesOf(c) : lockMode[h] # "free"}
  /\ Loses(c, Rows, blocks[c])
  /\ UNCHANGED <<records, calls>>

-----------------------------------------------------------------------------
(* CT::Record#with_write_lock! *)

Push(c, b)    == blocks' = [blocks EXCEPT ![c] = Append(@, b)]
SetTop(c, b)  == blocks' = [blocks EXCEPT ![c] = Append(Popped(c), b)]

\* The call: lock(CT::LOCK_WRITE) is on its way to the server.
Begin(c, h) ==
  /\ Running(c) /\ Owner[h] = c /\ Depth(c) < MaxDepth[c]
  /\ Push(c, [handle |-> h, row |-> None, phase |-> "asking"])
  /\ UNCHANGED <<locks, records, raising, history>>

\* lock returned true: the block runs.
LockGranted(c) ==
  /\ Depth(c) > 0 /\ Top(c).phase = "asking"
  /\ LET h == Top(c).handle IN
       /\ at[h] # None /\ Compatible(c, at[h], "write")
       /\ Grant(c, at[h], "write")
       /\ lockMode' = [lockMode EXCEPT ![h] = "write"]
       /\ undercut' = (undercut \cup OthersOn(c, h, at[h])) \ {h}
       /\ SetTop(c, [handle |-> h, row |-> at[h], phase |-> "inside"])
  /\ UNCHANGED <<sessionLock, at, raising, lost, loose>>

\* The result of lock is not looked at.
LockRefusedBug(c) ==
  /\ Depth(c) > 0 /\ Top(c).phase = "asking"
  /\ at[Top(c).handle] # None
  /\ SetTop(c, [Top(c) EXCEPT !.row = at[Top(c).handle], !.phase = "inside"])
  /\ UNCHANGED <<locks, records, raising, history>>

\* lock returned false: the loop's body raises.
LockRefused(c) ==
  /\ Depth(c) > 0 /\ Top(c).phase = "asking"
  /\ SetTop(c, [Top(c) EXCEPT !.phase = "refused"])
  /\ raising' = [raising EXCEPT ![c] = TRUE]
  /\ UNCHANGED <<locks, records, history>>

\* No ensure clause: an exception passes the unlock by.
LeaveBug(c) ==
  /\ Depth(c) > 0 /\ Top(c).phase # "asking"
  /\ raising[c] \/ Top(c).phase = "inside"
  /\ blocks' = [blocks EXCEPT ![c] = Popped(c)]
  /\ IF raising[c] THEN UNCHANGED <<granted, lockMode, undercut, loose>>
                   ELSE UnlockRecord(c, Top(c).handle)
  /\ Loses(c, {at[Top(c).handle]}, Popped(c))
  /\ UNCHANGED <<sessionLock, at, raising>>

\* The ensure clause: unlock, also when the block raised or was never entered.
Leave(c) ==
  /\ Depth(c) > 0 /\ Top(c).phase # "asking"
  /\ raising[c] \/ Top(c).phase = "inside"
  /\ blocks' = [blocks EXCEPT ![c] = Popped(c)]
  /\ UnlockRecord(c, Top(c).handle)
  /\ Loses(c, {at[Top(c).handle]}, Popped(c))
  /\ UNCHANGED <<sessionLock, at, raising>>

\* The program's code raises: lock!, find, write!, suspend_locks!, ...
Raise(c) ==
  /\ Running(c) /\ Depth(c) > 0
  /\ raising' = [raising EXCEPT ![c] = TRUE]
  /\ UNCHANGED <<locks, records, blocks, history>>

\* with_write_lock! rescues the refusal itself, before its ensure clause.
RescueBug(c) ==
  /\ raising[c]
  /\ raising' = [raising EXCEPT ![c] = FALSE]
  /\ UNCHANGED <<locks, records, blocks, history>>

\* The program rescues the exception: outside all blocks, or in the body of one.
Rescue(c) ==
  /\ raising[c] /\ (Depth(c) > 0 => Top(c).phase = "inside")
  /\ raising' = [raising EXCEPT ![c] = FALSE]
  /\ UNCHANGED <<locks, records, blocks, history>>

\* The process ends; the server drops its locks and a new one takes its place.
Crash(c) ==
  /\ granted' = [granted EXCEPT ![c] = [r \in Rows |-> "free"]]
  /\ sessionLock' = [sessionLock EXCEPT ![c] = "free"]
  /\ at' = [h \in Handles |-> IF Owner[h] = c THEN None ELSE at[h]]
  /\ lockMode' = [h \in Handles |-> IF Owner[h] = c THEN "free" ELSE lockMode[h]]
  /\ blocks' = [blocks EXCEPT ![c] = <<>>]
  /\ raising' = [raising EXCEPT ![c] = FALSE]
  /\ lost' = {x \in lost : x[1] # c}
  /\ loose' = {x \in loose : x[1] # c}
  /\ undercut' = undercut \ HandlesOf(c)

-----------------------------------------------------------------------------
Init ==
  /\ granted = [c \in Clients |-> [r \in Rows |-> "free"]]
  /\ sessionLock = [c \in Clients |-> "free"]
  /\ at = [h \in Handles |-> None]
  /\ lockMode = [h \in Handles |-> "free"]
  /\ blocks = [c \in Clients |-> <<>>]
  /\ raising = [c \in Clients |-> FALSE]
  /\ lost = {} /\ loose = {} /\ undercut = {}

ByHand(c)  == \E h \in Handles : \/ \E m \in HandModes[c] : Lock(c, h, m)
                                 \/ Unlock(c, h)
                                 \/ \E r \in Visits[h] : Move(c, h, r)
Session(c) == (\E m \in SessionModes[c] : SessionLock(c, m)) \/ SessionUnlock(c)
Answer(c)  == LockGranted(c) \/ LockRefused(c)
WithWriteLock(c) == (\E h \in Handles : Begin(c, h)) \/ Answer(c) \/ Leave(c)

Next == \E c \in Clients :
          ByHand(c) \/ Session(c) \/ WithWriteLock(c) \/ Raise(c) \/ Rescue(c) \/ Crash(c)

Spec == Init /\ [][Next]_vars

-----------------------------------------------------------------------------
(* Properties *)

\* Types, and the shape of the stack: only the innermost call can be one that
\* waits for its lock or was refused it, and a refused one is unwinding.
TypeOK ==
  /\ granted \in [Clients -> [Rows -> Modes]]
  /\ sessionLock \in [Clients -> Modes]
  /\ at \in [Handles -> Rows \cup {None}]
  /\ lockMode \in [Handles -> Modes]
  /\ blocks \in [Clients -> Seq(Block)]
  /\ raising \in [Clients -> BOOLEAN]
  /\ lost \subseteq Clients \X Rows
  /\ loose \subseteq Clients \X Rows
  /\ undercut \subseteq Handles
  /\ \A c \in Clients :
       /\ Depth(c) <= MaxDepth[c]
       /\ \A i \in DOMAIN blocks[c] : blocks[c][i].phase # "inside" => i = Depth(c)
       /\ Depth(c) > 0 => (Top(c).phase = "refused" => raising[c])
                            /\ (Top(c).phase = "asking" => ~raising[c])

\* Two processes are in with_write_lock! blocks on one row only if one of them
\* gave its lock up itself: by an inner block on the row, whose end releases
\* the outer one's lock (record.rb:41), by hand, or by a session-wide unlock.
BlocksExclude ==
  \A c, d \in Clients, r \in Rows :
    c # d /\ InBlock(c, r) /\ InBlock(d, r) => <<c, r>> \in lost \/ <<d, r>> \in lost

\* A process that is in no block on a row, left by whatever exit, has no lock on
\* it, unless it took one by hand or moved the record inside the block.
NothingLeft ==
  \A c \in Clients, r \in Rows :
    granted[c][r] # "free" => InBlock(c, r) \/ <<c, r>> \in loose

\* locked?, read_locked? and write_locked? of a record tell the truth, unless the
\* lock was changed through another record or the session.
ReportsItsLock ==
  \A h \in Handles :
    lockMode[h] # "free" =>
      \/ h \in undercut
      \/ at[h] # None /\ granted[Owner[h]][at[h]] = lockMode[h]

\* Blocks that were not undermined implement the abstract lock.
Holders == [r \in Rows |-> {c \in Clients : InBlock(c, r) /\ <<c, r>> \notin lost}]
Abstract == INSTANCE RowLock WITH inside <- Holders
ImplementsRowLock == Abstract!Spec
=============================================================================
