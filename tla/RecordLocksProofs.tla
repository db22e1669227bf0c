-------------------------- MODULE RecordLocksProofs --------------------------
(***************************************************************************)
(* Proofs that every behaviour of RecordLocks, with any number of          *)
(* processes, record handles, rows and nested blocks, keeps its            *)
(* invariants, and that its blocks implement the abstract lock RowLock.    *)
(*                                                                         *)
(* The inductive invariant IInv adds four facts to the checked ones: a     *)
(* process's blocks are on its own handles (OwnBlocks), a write lock       *)
(* excludes every other one (WriteExclusive), a block whose lock was not   *)
(* given up has it (BlockLocked), and a lock nobody took by hand is that   *)
(* of a block whose record is still where it was locked (Anchored).        *)
(***************************************************************************)
EXTENDS RecordLocks, SequenceTheorems, TLAPS

Step(c) == ByHand(c) \/ Session(c) \/ WithWriteLock(c) \/ Raise(c) \/ Rescue(c) \/ Crash(c)

\* The shape of a stack, as the type invariant has it.
Shape(c) ==
  /\ Depth(c) <= MaxDepth[c]
  /\ \A i \in DOMAIN blocks[c] : blocks[c][i].phase # "inside" => i = Depth(c)
  /\ Depth(c) > 0 => (Top(c).phase = "refused" => raising[c])
                       /\ (Top(c).phase = "asking" => ~raising[c])

Shapes == \A c \in Clients : Shape(c)

\* The types alone.
Types ==
  /\ granted \in [Clients -> [Rows -> Modes]]
  /\ sessionLock \in [Clients -> Modes]
  /\ at \in [Handles -> Rows \cup {None}]
  /\ lockMode \in [Handles -> Modes]
  /\ blocks \in [Clients -> Seq(Block)]
  /\ raising \in [Clients -> BOOLEAN]
  /\ lost \subseteq Clients \X Rows
  /\ loose \subseteq Clients \X Rows
  /\ undercut \subseteq Handles

\* A block is on a handle of its process, and runs on a row.
Own(c) ==
  \A i \in DOMAIN blocks[c] : /\ Owner[blocks[c][i].handle] = c
                              /\ blocks[c][i].phase = "inside" => blocks[c][i].row \in Rows
OwnBlocks == \A c \in Clients : Own(c)

\* The server's rule.
WriteExclusive ==
  \A c, d \in Clients, r \in Rows :
    c # d /\ granted[c][r] = "write" => granted[d][r] = "free"

\* What with_write_lock! is for.
Locked(c) == \A r \in Rows : InBlock(c, r) /\ <<c, r>> \notin lost => granted[c][r] = "write"
BlockLocked == \A c \in Clients : Locked(c)

\* c runs a block on row r whose record has not left the row: its end unlocks r.
HasAnchor(c, r) ==
  \E i \in DOMAIN blocks[c] : /\ blocks[c][i].phase = "inside" /\ blocks[c][i].row = r
                              /\ at[blocks[c][i].handle] = r

AnchoredOf(c) ==
  \A r \in Rows : granted[c][r] # "free" => HasAnchor(c, r) \/ <<c, r>> \in loose
Anchored == \A c \in Clients : AnchoredOf(c)

\* What a step of one process leaves as it is of another one's record.
SameHandle(g) == /\ at'[g] = at[g] /\ lockMode'[g] = lockMode[g]
                 /\ (g \in undercut' <=> g \in undercut)

\* A record tells the truth of its lock.
ReportsOf(h) ==
  lockMode[h] # "free" =>
    \/ h \in undercut
    \/ at[h] # None /\ granted[Owner[h]][at[h]] = lockMode[h]

IInv == /\ TypeOK /\ OwnBlocks /\ WriteExclusive /\ BlockLocked
        /\ Anchored /\ ReportsItsLock

-----------------------------------------------------------------------------
(* The stack of blocks *)

\* A stack without its top.
LEMMA PoppedStack ==
  ASSUME TypeOK, NEW c \in Clients, Depth(c) > 0
  PROVE  /\ Popped(c) \in Seq(Block) /\ Len(Popped(c)) = Depth(c) - 1
         /\ DOMAIN Popped(c) = 1 .. Depth(c) - 1
         /\ \A i \in 1 .. Depth(c) - 1 : Popped(c)[i] = blocks[c][i]
<1>1. blocks[c] \in Seq(Block) /\ Depth(c) \in Nat
  BY DEF TypeOK, Depth
<1> QED
  BY <1>1 DEF Popped, Depth

\* A stack with another block on top of it.
LEMMA PushedStack ==
  ASSUME NEW s \in Seq(Block), NEW b \in Block
  PROVE  /\ Append(s, b) \in Seq(Block) /\ Len(Append(s, b)) = Len(s) + 1
         /\ DOMAIN Append(s, b) = 1 .. Len(s) + 1
         /\ \A i \in 1 .. Len(s) : Append(s, b)[i] = s[i]
         /\ Append(s, b)[Len(s) + 1] = b
  OBVIOUS

\* The top is one of the blocks.
LEMMA TopOfStack ==
  ASSUME TypeOK, NEW c \in Clients, Depth(c) > 0
  PROVE  /\ Depth(c) \in DOMAIN blocks[c] /\ Depth(c) \in Nat
         /\ Top(c) = blocks[c][Depth(c)] /\ Top(c) \in Block
         /\ DOMAIN blocks[c] = 1 .. Depth(c)
<1>1. blocks[c] \in Seq(Block)
  BY DEF TypeOK
<1> QED
  BY <1>1 DEF Depth, Top

\* How a call changes the blocks.
LEMMA PushEffect ==
  ASSUME TypeOK, NEW c \in Clients, NEW b \in Block, Push(c, b)
  PROVE  /\ blocks' \in [Clients -> Seq(Block)] /\ blocks'[c] = Append(blocks[c], b)
         /\ \A d \in Clients \ {c} : blocks'[d] = blocks[d]
<1>1. blocks[c] \in Seq(Block)
  BY DEF TypeOK
<1>2. Append(blocks[c], b) \in Seq(Block)
  BY <1>1, PushedStack
<1> QED
  BY <1>2 DEF Push, TypeOK

\* Changing the top block of one process changes nothing below it, nor any other stack.
LEMMA SetTopEffect ==
  ASSUME TypeOK, NEW c \in Clients, Depth(c) > 0, NEW b \in Block, SetTop(c, b)
  PROVE  /\ blocks' \in [Clients -> Seq(Block)]
         /\ Len(blocks'[c]) = Depth(c) /\ DOMAIN blocks'[c] = 1 .. Depth(c)
         /\ \A i \in 1 .. Depth(c) - 1 : blocks'[c][i] = blocks[c][i]
         /\ blocks'[c][Depth(c)] = b
         /\ \A d \in Clients \ {c} : blocks'[d] = blocks[d]
<1>1. /\ Popped(c) \in Seq(Block) /\ Len(Popped(c)) = Depth(c) - 1
      /\ \A i \in 1 .. Depth(c) - 1 : Popped(c)[i] = blocks[c][i]
  BY PoppedStack
<1>2. Depth(c) \in Nat
  BY TopOfStack
<1>3. blocks'[c] = Append(Popped(c), b)
  BY DEF SetTop, TypeOK
<1>4. Append(Popped(c), b) \in Seq(Block)
  BY <1>1, PushedStack
<1>5. blocks' \in [Clients -> Seq(Block)] /\ \A d \in Clients \ {c} : blocks'[d] = blocks[d]
  BY <1>4 DEF SetTop, TypeOK
<1>6. /\ Len(Append(Popped(c), b)) = Len(Popped(c)) + 1
      /\ DOMAIN Append(Popped(c), b) = 1 .. Len(Popped(c)) + 1
      /\ \A i \in 1 .. Len(Popped(c)) : Append(Popped(c), b)[i] = Popped(c)[i]
      /\ Append(Popped(c), b)[Len(Popped(c)) + 1] = b
  BY <1>1, PushedStack
<1>7. Len(Popped(c)) + 1 = Depth(c) /\ Len(Popped(c)) = Depth(c) - 1
  BY <1>1, <1>2
<1> QED
  BY <1>1, <1>3, <1>5, <1>6, <1>7

\* Leaving a block removes the top one of one process's stack and nothing else.
LEMMA PopEffect ==
  ASSUME TypeOK, NEW c \in Clients, Depth(c) > 0,
         blocks' = [blocks EXCEPT ![c] = Popped(c)]
  PROVE  /\ blocks' \in [Clients -> Seq(Block)]
         /\ Len(blocks'[c]) = Depth(c) - 1 /\ DOMAIN blocks'[c] = 1 .. Depth(c) - 1
         /\ \A i \in 1 .. Depth(c) - 1 : blocks'[c][i] = blocks[c][i]
         /\ \A d \in Clients \ {c} : blocks'[d] = blocks[d]
  BY PoppedStack DEF TypeOK

\* The blocks that run keep their rows: those of a stack without its top are among those
\* of the stack.
LEMMA RunsOnPopped ==
  ASSUME TypeOK, NEW c \in Clients, Depth(c) > 0, NEW r, RunsOn(Popped(c), r)
  PROVE  InBlock(c, r)
  BY PoppedStack, TopOfStack DEF RunsOn, InBlock

\* What Loses does to the rows of one process.
LEMMA LosesEffect ==
  ASSUME TypeOK, NEW c \in Clients, NEW S, NEW bs, Loses(c, S, bs),
         NEW d \in Clients, NEW r \in Rows
  PROVE  <<d, r>> \in lost' <=> IF d = c THEN RunsOn(bs, r) /\ (<<c, r>> \in lost \/ r \in S)
                                         ELSE <<d, r>> \in lost
  BY DEF Loses

\* And to its type.
LEMMA LosesTyped ==
  ASSUME TypeOK, NEW c \in Clients, NEW S, NEW bs, Loses(c, S, bs),
         \A r : RunsOn(bs, r) => r \in Rows
  PROVE  lost' \subseteq Clients \X Rows
  BY DEF Loses, TypeOK

\* Blocks run on rows.
LEMMA RunsOnRows ==
  ASSUME TypeOK, OwnBlocks, NEW c \in Clients, NEW r, InBlock(c, r)
  PROVE  r \in Rows
  BY DEF OwnBlocks, Own, InBlock, RunsOn

\* A stack that is not touched keeps its shape.
LEMMA ShapeKept ==
  ASSUME TypeOK, NEW c \in Clients, blocks'[c] = blocks[c], raising'[c] = raising[c]
  PROVE  Shape(c)'
  BY DEF TypeOK, Shape, Depth, Top

\* The type invariant in two parts: the plain types, and the shape of every stack.
LEMMA TypesAndShapes == TypeOK <=> Types /\ Shapes
  BY DEF TypeOK, Types, Shape, Shapes


\* The locks after a move are locks.
LEMMA MovedTyped ==
  ASSUME TypeOK, NEW c \in Clients, NEW h \in Handles, NEW r \in Rows, NEW keep \in BOOLEAN
  PROVE  Moved(c, h, r, keep) \in [Rows -> Modes]
  BY DEF Moved, TypeOK, Modes


\* Every step keeps the types.
LEMMA TypesStep ==
  ASSUME TypeOK, OwnBlocks, [Next]_vars
  PROVE  Types'
<1> SUFFICES ASSUME NEW c \in Clients, Step(c)
             PROVE  Types'
  BY DEF Next, Step, vars, locks, records, calls, history, Types, TypeOK
<1>1. ASSUME NEW h \in Handles, NEW m \in HandModes[c], Lock(c, h, m) PROVE Types'
  <2>1. at[h] \in Rows /\ m \in Modes
    <3>1. m \in {"read", "write"}
      BY ModesTyped
    <3> QED
      BY <1>1, <3>1 DEF Lock, TypeOK, Modes
  <2>2. lost' \subseteq Clients \X Rows
    BY <1>1, LosesTyped, RunsOnRows DEF Lock, InBlock
  <2>3. granted' \in [Clients -> [Rows -> Modes]]
    BY <1>1, <2>1 DEF Lock, Grant, TypeOK
  <2> QED
    BY <1>1, <2>1, <2>2, <2>3 DEF Lock, calls, OthersOn, HandlesOf, Types, TypeOK
<1>2. ASSUME NEW h \in Handles, Unlock(c, h) PROVE Types'
  BY <1>2, ModesTyped, VisitsTyped, LosesTyped, RunsOnRows DEF Unlock, locks, records,
     calls, history, Types, TypeOK, Modes, Grant, UnlockRecord, OthersOn, HandlesOf, InBlock
<1>3. ASSUME NEW h \in Handles, NEW r \in Visits[h], Move(c, h, r) PROVE Types'
  <2>1. r \in Rows /\ sessionLock[c] \in Modes
    BY <1>3, VisitsTyped DEF TypeOK
  <2>2. granted' \in [Clients -> [Rows -> Modes]]
    BY <1>3, <2>1, MovedTyped DEF Move, TypeOK
  <2>3. lost' \subseteq Clients \X Rows
    BY <1>3, LosesTyped, RunsOnRows DEF Move, InBlock
  <2>4. at[h] # None => at[h] \in Rows
    BY DEF TypeOK
  <2>5. loose' \subseteq Clients \X Rows
    BY <1>3, <2>1, <2>4 DEF Move, TypeOK
  <2>6. undercut' \subseteq Handles
    BY <1>3 DEF Move, TypeOK, OthersOn, HandlesOf
  <2> QED
    BY <1>3, <2>1, <2>2, <2>3, <2>5, <2>6 DEF Move, calls, Types, TypeOK
<1>4. ASSUME NEW m \in SessionModes[c], SessionLock(c, m) PROVE Types'
  BY <1>4, ModesTyped, VisitsTyped, LosesTyped, RunsOnRows DEF SessionLock, locks, records,
     calls, history, Types, TypeOK, Modes, Grant, UnlockRecord, OthersOn, HandlesOf, InBlock
<1>5. CASE SessionUnlock(c)
  BY <1>5, ModesTyped, VisitsTyped, LosesTyped, RunsOnRows DEF SessionUnlock, locks,
     records, calls, history, Types, TypeOK, Modes, Grant, UnlockRecord, OthersOn,
     HandlesOf, InBlock
<1>6. ASSUME NEW h \in Handles, Begin(c, h) PROVE Types'
  <2>1. [handle |-> h, row |-> None, phase |-> "asking"] \in Block
    BY DEF Block, Phases
  <2>2. blocks' \in [Clients -> Seq(Block)]
    BY <1>6, <2>1, PushEffect DEF Begin
  <2> QED
    BY <1>6, <2>2 DEF Begin, locks, records, history, Types, TypeOK
<1>7. CASE LockGranted(c)
  <2> DEFINE h == Top(c).handle
  <2>1. Top(c) \in Block
    BY <1>7, TopOfStack DEF LockGranted
  <2>2. h \in Handles /\ at[h] \in Rows
    BY <1>7, <2>1 DEF LockGranted, Block, TypeOK
  <2>3. [handle |-> h, row |-> at[h], phase |-> "inside"] \in Block
    BY <2>2 DEF Block, Phases
  <2>4. blocks' \in [Clients -> Seq(Block)]
    BY <1>7, <2>3, SetTopEffect DEF LockGranted
  <2> QED
    BY <1>7, <2>2, <2>4 DEF LockGranted, Grant, OthersOn, HandlesOf, Types, TypeOK, Modes
<1>8. CASE LockRefused(c)
  <2>1. [Top(c) EXCEPT !.phase = "refused"] \in Block
    BY <1>8, TopOfStack DEF LockRefused, Block, Phases
  <2>2. blocks' \in [Clients -> Seq(Block)]
    BY <1>8, <2>1, SetTopEffect DEF LockRefused
  <2> QED
    BY <1>8, <2>2 DEF LockRefused, locks, records, history, Types, TypeOK
<1>9. CASE Leave(c)
  <2>1. blocks' \in [Clients -> Seq(Block)] /\ Top(c) \in Block
    BY <1>9, PopEffect, TopOfStack DEF Leave
  <2>2. \A r : RunsOn(Popped(c), r) => r \in Rows
    BY <1>9, RunsOnPopped, RunsOnRows DEF Leave
  <2>3. lost' \subseteq Clients \X Rows
    BY <1>9, <2>2, LosesTyped DEF Leave
  <2>4. Top(c).handle \in Handles
    BY <2>1 DEF Block
  <2>5. granted' \in [Clients -> [Rows -> Modes]]
    BY <1>9 DEF Leave, UnlockRecord, TypeOK, Modes
  <2>6. undercut' \subseteq Handles /\ loose' \subseteq Clients \X Rows
    BY <1>9 DEF Leave, UnlockRecord, OthersOn, HandlesOf, TypeOK
  <2> QED
    BY <1>9, <2>1, <2>3, <2>4, <2>5, <2>6 DEF Leave, UnlockRecord, Types, TypeOK, Modes
<1>10. CASE Raise(c)
  BY <1>10, ModesTyped, VisitsTyped, LosesTyped, RunsOnRows DEF Raise, locks, records,
     calls, history, Types, TypeOK, Modes, Grant, UnlockRecord, OthersOn, HandlesOf, InBlock
<1>11. CASE Rescue(c)
  BY <1>11, ModesTyped, VisitsTyped, LosesTyped, RunsOnRows DEF Rescue, locks, records,
     calls, history, Types, TypeOK, Modes, Grant, UnlockRecord, OthersOn, HandlesOf, InBlock
<1>12. CASE Crash(c)
  BY <1>12, ModesTyped, VisitsTyped, LosesTyped, RunsOnRows DEF Crash, locks, records,
     calls, history, Types, TypeOK, Modes, Grant, UnlockRecord, OthersOn, HandlesOf, InBlock
<1> QED
  BY <1>1, <1>2, <1>3, <1>4, <1>5, <1>6, <1>7, <1>8, <1>9, <1>10, <1>11, <1>12 DEF Step, ByHand, Session, WithWriteLock, Answer

\* Every step keeps the shape of the stacks: calls end innermost first, and only the innermost
\* one waits or was refused.
LEMMA ShapesStep ==
  ASSUME TypeOK, [Next]_vars
  PROVE  Shapes'
<1> SUFFICES ASSUME NEW c \in Clients, Step(c)
             PROVE  Shapes'
  BY DEF Next, Step, vars, locks, records, calls, history, Shapes, Shape, Depth, Top, TypeOK
<1>1. ASSUME NEW h \in Handles, NEW m \in HandModes[c], Lock(c, h, m) PROVE Shapes'
  BY <1>1, ShapeKept DEF Lock, calls, Shapes
<1>2. ASSUME NEW h \in Handles, Unlock(c, h) PROVE Shapes'
  BY <1>2, ShapeKept DEF Unlock, calls, Shapes
<1>3. ASSUME NEW h \in Handles, NEW r \in Visits[h], Move(c, h, r) PROVE Shapes'
  BY <1>3, ShapeKept DEF Move, calls, Shapes
<1>4. ASSUME NEW m \in SessionModes[c], SessionLock(c, m) PROVE Shapes'
  BY <1>4, ShapeKept DEF SessionLock, calls, Shapes
<1>5. CASE SessionUnlock(c)
  BY <1>5, ShapeKept DEF SessionUnlock, calls, Shapes
<1>6. ASSUME NEW h \in Handles, Begin(c, h) PROVE Shapes'
  <2> DEFINE b == [handle |-> h, row |-> None, phase |-> "asking"]
  <2>1. b \in Block
    BY DEF Block, Phases
  <2>2. blocks[c] \in Seq(Block) /\ MaxDepth[c] \in Nat
    BY DepthsAreNumbers DEF TypeOK
  <2>3. /\ blocks'[c] = Append(blocks[c], b)
        /\ \A d \in Clients \ {c} : blocks'[d] = blocks[d]
    BY <1>6, <2>1, PushEffect DEF Begin
  <2>4. Depth(c)' = Depth(c) + 1 /\ Top(c)' = b
    BY <2>1, <2>2, <2>3, PushedStack DEF Depth, Top
  <2>5. \A i \in DOMAIN blocks[c] : blocks[c][i].phase = "inside"
    BY <1>6, <2>2 DEF Begin, Running, Depth, Top, TypeOK
  <2>6. \A i \in DOMAIN blocks'[c] : blocks'[c][i].phase # "inside" => i = Depth(c)'
    BY <2>1, <2>2, <2>3, <2>4, <2>5, PushedStack DEF Depth
  <2>7. Depth(c)' <= MaxDepth[c] /\ raising'[c] = FALSE
    BY <1>6, <2>2, <2>4 DEF Begin, Running, Depth, TypeOK
  <2>8. Shape(c)'
    BY <2>4, <2>6, <2>7 DEF Shape
  <2>9. ASSUME NEW d \in Clients \ {c} PROVE Shape(d)'
    BY <1>6, <2>3, ShapeKept DEF Begin
  <2> QED
    BY <2>8, <2>9 DEF Shapes
<1>7. CASE LockGranted(c)
  <2> DEFINE b == [handle |-> Top(c).handle, row |-> at[Top(c).handle], phase |-> "inside"]
  <2>1. Top(c) \in Block
    BY <1>7, TopOfStack DEF LockGranted
  <2>2. b \in Block
    BY <2>1 DEF Block, Phases, TypeOK
  <2>3. /\ Len(blocks'[c]) = Depth(c) /\ DOMAIN blocks'[c] = 1 .. Depth(c)
        /\ \A i \in 1 .. Depth(c) - 1 : blocks'[c][i] = blocks[c][i]
        /\ blocks'[c][Depth(c)] = b
        /\ \A d \in Clients \ {c} : blocks'[d] = blocks[d]
    BY <1>7, <2>2, SetTopEffect DEF LockGranted
  <2>4. Depth(c) \in Nat /\ Depth(c) > 0 /\ DOMAIN blocks[c] = 1 .. Depth(c)
    BY <1>7, TopOfStack DEF LockGranted
  <2>5. Depth(c)' = Depth(c) /\ Top(c)' = b
    BY <2>3 DEF Depth, Top
  <2>8. Shape(c)'
    BY <2>3, <2>4, <2>5 DEF Shape, TypeOK
  <2>9. ASSUME NEW d \in Clients \ {c} PROVE Shape(d)'
    BY <1>7, <2>3, ShapeKept DEF LockGranted
  <2> QED
    BY <2>8, <2>9 DEF Shapes
<1>8. CASE LockRefused(c)
  <2> DEFINE b == [Top(c) EXCEPT !.phase = "refused"]
  <2>1. Top(c) \in Block
    BY <1>8, TopOfStack DEF LockRefused
  <2>2. b \in Block /\ b.phase = "refused"
    BY <2>1 DEF Block, Phases
  <2>3. /\ Len(blocks'[c]) = Depth(c) /\ DOMAIN blocks'[c] = 1 .. Depth(c)
        /\ \A i \in 1 .. Depth(c) - 1 : blocks'[c][i] = blocks[c][i]
        /\ blocks'[c][Depth(c)] = b
        /\ \A d \in Clients \ {c} : blocks'[d] = blocks[d]
    BY <1>8, <2>2, SetTopEffect DEF LockRefused
  <2>4. Depth(c) \in Nat /\ Depth(c) > 0 /\ DOMAIN blocks[c] = 1 .. Depth(c)
    BY <1>8, TopOfStack DEF LockRefused
  <2>5. Depth(c)' = Depth(c) /\ Top(c)' = b /\ raising'[c] = TRUE
    BY <1>8, <2>3 DEF LockRefused, Depth, Top, TypeOK
  <2>8. Shape(c)'
    BY <2>2, <2>3, <2>4, <2>5 DEF Shape, TypeOK
  <2>9. ASSUME NEW d \in Clients \ {c} PROVE Shape(d)'
    BY <1>8, <2>3, ShapeKept DEF LockRefused, TypeOK
  <2> QED
    BY <2>8, <2>9 DEF Shapes
<1>9. CASE Leave(c)
  <2>3. /\ Len(blocks'[c]) = Depth(c) - 1 /\ DOMAIN blocks'[c] = 1 .. Depth(c) - 1
        /\ \A i \in 1 .. Depth(c) - 1 : blocks'[c][i] = blocks[c][i]
        /\ \A d \in Clients \ {c} : blocks'[d] = blocks[d]
    BY <1>9, PopEffect DEF Leave
  <2>4. Depth(c) \in Nat /\ Depth(c) > 0 /\ DOMAIN blocks[c] = 1 .. Depth(c)
    BY <1>9, TopOfStack DEF Leave
  <2>1. Shape(c)
    BY TypesAndShapes DEF Shapes
  <2>5. \A i \in DOMAIN blocks'[c] : blocks'[c][i].phase = "inside"
    <3> SUFFICES ASSUME NEW i \in 1 .. Depth(c) - 1 PROVE blocks[c][i].phase = "inside"
      BY <2>3
    <3>1. i \in DOMAIN blocks[c] /\ i # Depth(c)
      BY <2>4
    <3> QED
      BY <3>1, <2>1 DEF Shape
  <2>6. Depth(c)' <= MaxDepth[c]
    <3>1. Depth(c)' = Depth(c) - 1 /\ Depth(c) <= MaxDepth[c] /\ MaxDepth[c] \in Nat
      BY <2>1, <2>3, DepthsAreNumbers DEF Depth, Shape
    <3> QED
      BY <3>1, <2>4
  <2>7. Depth(c)' > 0 => Top(c)'.phase = "inside"
    BY <2>3, <2>4, <2>5 DEF Depth, Top
  <2>8. Shape(c)'
    BY <2>5, <2>6, <2>7 DEF Shape
  <2>9. ASSUME NEW d \in Clients \ {c} PROVE Shape(d)'
    BY <1>9, <2>3, ShapeKept DEF Leave
  <2> QED
    BY <2>8, <2>9 DEF Shapes
<1>10. CASE Raise(c)
  <2>8. Shape(c)'
    BY <1>10 DEF Raise, Running, records, Shape, Depth, Top, TypeOK
  <2>9. ASSUME NEW d \in Clients \ {c} PROVE Shape(d)'
    BY <1>10, ShapeKept DEF Raise, TypeOK
  <2> QED
    BY <2>8, <2>9 DEF Shapes
<1>11. CASE Rescue(c)
  <2>8. Shape(c)'
    BY <1>11 DEF Rescue, Shape, Depth, Top, TypeOK
  <2>9. ASSUME NEW d \in Clients \ {c} PROVE Shape(d)'
    BY <1>11, ShapeKept DEF Rescue, TypeOK
  <2> QED
    BY <2>8, <2>9 DEF Shapes
<1>12. CASE Crash(c)
  <2>1. blocks'[c] = <<>>
    BY <1>12 DEF Crash, TypeOK
  <2>8. Shape(c)'
    BY <2>1, DepthsAreNumbers DEF Shape, Depth
  <2>9. ASSUME NEW d \in Clients \ {c} PROVE Shape(d)'
    BY <1>12, ShapeKept DEF Crash, TypeOK
  <2> QED
    BY <2>8, <2>9 DEF Shapes
<1> QED
  BY <1>1, <1>2, <1>3, <1>4, <1>5, <1>6, <1>7, <1>8, <1>9, <1>10, <1>11, <1>12 DEF Step, ByHand, Session, WithWriteLock, Answer

\* A process changes no lock and no block of another one.
LEMMA OthersKept ==
  ASSUME TypeOK, NEW c \in Clients, Step(c)
  PROVE  \A d \in Clients \ {c} : granted'[d] = granted[d] /\ blocks'[d] = blocks[d]
<1>1. ASSUME NEW h \in Handles, NEW m \in HandModes[c], Lock(c, h, m)
      PROVE \A d \in Clients \ {c} : granted'[d] = granted[d] /\ blocks'[d] = blocks[d]
  BY <1>1 DEF Lock, locks, records, calls, history, UnlockRecord, Grant, TypeOK
<1>2. ASSUME NEW h \in Handles, Unlock(c, h)
      PROVE \A d \in Clients \ {c} : granted'[d] = granted[d] /\ blocks'[d] = blocks[d]
  BY <1>2 DEF Unlock, locks, records, calls, history, UnlockRecord, Grant, TypeOK
<1>3. ASSUME NEW h \in Handles, NEW r \in Visits[h], Move(c, h, r)
      PROVE \A d \in Clients \ {c} : granted'[d] = granted[d] /\ blocks'[d] = blocks[d]
  BY <1>3 DEF Move, locks, records, calls, history, UnlockRecord, Grant, TypeOK
<1>4. ASSUME NEW m \in SessionModes[c], SessionLock(c, m)
      PROVE \A d \in Clients \ {c} : granted'[d] = granted[d] /\ blocks'[d] = blocks[d]
  BY <1>4 DEF SessionLock, locks, records, calls, history, UnlockRecord, Grant, TypeOK
<1>5. CASE SessionUnlock(c)
  BY <1>5 DEF SessionUnlock, locks, records, calls, history, UnlockRecord, Grant, TypeOK
<1>6. ASSUME NEW h \in Handles, Begin(c, h)
      PROVE \A d \in Clients \ {c} : granted'[d] = granted[d] /\ blocks'[d] = blocks[d]
  <2>1. [handle |-> h, row |-> None, phase |-> "asking"] \in Block
    BY DEF Block, Phases
  <2> QED
    BY <1>6, <2>1, PushEffect DEF Begin, locks
<1>7. CASE LockGranted(c)
  <2>1. Top(c) \in Block /\ Depth(c) > 0
    BY <1>7, TopOfStack DEF LockGranted
  <2>2. [handle |-> Top(c).handle, row |-> at[Top(c).handle], phase |-> "inside"] \in Block
    BY <2>1 DEF Block, Phases, TypeOK
  <2>3. \A d \in Clients \ {c} : blocks'[d] = blocks[d]
    BY <1>7, <2>1, <2>2, SetTopEffect DEF LockGranted
  <2> QED
    BY <1>7, <2>3 DEF LockGranted, Grant, TypeOK
<1>8. CASE LockRefused(c)
  <2>1. [Top(c) EXCEPT !.phase = "refused"] \in Block /\ Depth(c) > 0
    BY <1>8, TopOfStack DEF LockRefused, Block, Phases
  <2>2. \A d \in Clients \ {c} : blocks'[d] = blocks[d]
    BY <1>8, <2>1, SetTopEffect DEF LockRefused
  <2> QED
    BY <1>8, <2>2 DEF LockRefused, locks
<1>9. CASE Leave(c)
  BY <1>9 DEF Leave, locks, records, calls, history, UnlockRecord, Grant, TypeOK
<1>10. CASE Raise(c)
  BY <1>10 DEF Raise, locks, records, calls, history, UnlockRecord, Grant, TypeOK
<1>11. CASE Rescue(c)
  BY <1>11 DEF Rescue, locks, records, calls, history, UnlockRecord, Grant, TypeOK
<1>12. CASE Crash(c)
  BY <1>12 DEF Crash, locks, records, calls, history, UnlockRecord, Grant, TypeOK
<1> QED
  BY <1>1, <1>2, <1>3, <1>4, <1>5, <1>6, <1>7, <1>8, <1>9, <1>10, <1>11, <1>12 DEF Step, ByHand, Session,
     WithWriteLock, Answer

\* Nor does it give up the locks of another one.
LEMMA OthersNotLost ==
  ASSUME TypeOK, NEW c \in Clients, Step(c)
  PROVE  \A d \in Clients \ {c}, q \in Rows : <<d, q>> \in lost' <=> <<d, q>> \in lost
<1>1. ASSUME NEW h \in Handles, NEW m \in HandModes[c], Lock(c, h, m)
      PROVE \A d \in Clients \ {c}, q \in Rows : <<d, q>> \in lost' <=> <<d, q>> \in lost
  BY <1>1, LosesEffect DEF Lock
<1>2. ASSUME NEW h \in Handles, Unlock(c, h)
      PROVE \A d \in Clients \ {c}, q \in Rows : <<d, q>> \in lost' <=> <<d, q>> \in lost
  BY <1>2, LosesEffect DEF Unlock
<1>3. ASSUME NEW h \in Handles, NEW r \in Visits[h], Move(c, h, r)
      PROVE \A d \in Clients \ {c}, q \in Rows : <<d, q>> \in lost' <=> <<d, q>> \in lost
  BY <1>3, LosesEffect DEF Move
<1>4. ASSUME NEW m \in SessionModes[c], SessionLock(c, m)
      PROVE \A d \in Clients \ {c}, q \in Rows : <<d, q>> \in lost' <=> <<d, q>> \in lost
  BY <1>4 DEF SessionLock, locks, records, calls, history
<1>5. CASE SessionUnlock(c)
  BY <1>5, LosesEffect DEF SessionUnlock
<1>6. ASSUME NEW h \in Handles, Begin(c, h)
      PROVE \A d \in Clients \ {c}, q \in Rows : <<d, q>> \in lost' <=> <<d, q>> \in lost
  BY <1>6 DEF Begin, locks, records, calls, history
<1>7. CASE LockGranted(c)
  BY <1>7 DEF LockGranted, locks, records, calls, history
<1>8. CASE LockRefused(c)
  BY <1>8 DEF LockRefused, locks, records, calls, history
<1>9. CASE Leave(c)
  BY <1>9, LosesEffect DEF Leave
<1>10. CASE Raise(c)
  BY <1>10 DEF Raise, locks, records, calls, history
<1>11. CASE Rescue(c)
  BY <1>11 DEF Rescue, locks, records, calls, history
<1>12. CASE Crash(c)
  BY <1>12 DEF Crash, TypeOK
<1> QED
  BY <1>1, <1>2, <1>3, <1>4, <1>5, <1>6, <1>7, <1>8, <1>9, <1>10, <1>11, <1>12 DEF Step, ByHand, Session,
     WithWriteLock, Answer

\* Nor does it take or leave a lock for another one.
LEMMA OthersNotLoose ==
  ASSUME TypeOK, NEW c \in Clients, Step(c)
  PROVE  \A d \in Clients \ {c}, q \in Rows : <<d, q>> \in loose' <=> <<d, q>> \in loose
<1>1. ASSUME NEW h \in Handles, NEW m \in HandModes[c], Lock(c, h, m)
      PROVE \A d \in Clients \ {c}, q \in Rows : <<d, q>> \in loose' <=> <<d, q>> \in loose
  BY <1>1 DEF Lock, locks, records, calls, history, UnlockRecord, TypeOK
<1>2. ASSUME NEW h \in Handles, Unlock(c, h)
      PROVE \A d \in Clients \ {c}, q \in Rows : <<d, q>> \in loose' <=> <<d, q>> \in loose
  BY <1>2 DEF Unlock, locks, records, calls, history, UnlockRecord, TypeOK
<1>3. ASSUME NEW h \in Handles, NEW r \in Visits[h], Move(c, h, r)
      PROVE \A d \in Clients \ {c}, q \in Rows : <<d, q>> \in loose' <=> <<d, q>> \in loose
  BY <1>3 DEF Move, locks, records, calls, history, UnlockRecord, TypeOK
<1>4. ASSUME NEW m \in SessionModes[c], SessionLock(c, m)
      PROVE \A d \in Clients \ {c}, q \in Rows : <<d, q>> \in loose' <=> <<d, q>> \in loose
  BY <1>4 DEF SessionLock, locks, records, calls, history, UnlockRecord, TypeOK
<1>5. CASE SessionUnlock(c)
  BY <1>5 DEF SessionUnlock, locks, records, calls, history, UnlockRecord, TypeOK
<1>6. ASSUME NEW h \in Handles, Begin(c, h)
      PROVE \A d \in Clients \ {c}, q \in Rows : <<d, q>> \in loose' <=> <<d, q>> \in loose
  BY <1>6 DEF Begin, locks, records, calls, history, UnlockRecord, TypeOK
<1>7. CASE LockGranted(c)
  BY <1>7 DEF LockGranted, locks, records, calls, history, UnlockRecord, TypeOK
<1>8. CASE LockRefused(c)
  BY <1>8 DEF LockRefused, locks, records, calls, history, UnlockRecord, TypeOK
<1>9. CASE Leave(c)
  BY <1>9 DEF Leave, locks, records, calls, history, UnlockRecord, TypeOK
<1>10. CASE Raise(c)
  BY <1>10 DEF Raise, locks, records, calls, history, UnlockRecord, TypeOK
<1>11. CASE Rescue(c)
  BY <1>11 DEF Rescue, locks, records, calls, history, UnlockRecord, TypeOK
<1>12. CASE Crash(c)
  BY <1>12 DEF Crash, locks, records, calls, history, UnlockRecord, TypeOK
<1> QED
  BY <1>1, <1>2, <1>3, <1>4, <1>5, <1>6, <1>7, <1>8, <1>9, <1>10, <1>11, <1>12 DEF Step, ByHand, Session,
     WithWriteLock, Answer

\* Nor does it change what the records of another one say, or where they are.
LEMMA OthersHandlesKept ==
  ASSUME TypeOK, OwnBlocks, NEW c \in Clients, Step(c)
  PROVE  \A g \in Handles : Owner[g] # c => SameHandle(g)
<1>1. ASSUME NEW h \in Handles, NEW m \in HandModes[c], Lock(c, h, m)
      PROVE \A g \in Handles : Owner[g] # c => SameHandle(g)
  BY <1>1 DEF Lock, locks, records, calls, history, SameHandle, UnlockRecord, OthersOn,
     HandlesOf, TypeOK
<1>2. ASSUME NEW h \in Handles, Unlock(c, h)
      PROVE \A g \in Handles : Owner[g] # c => SameHandle(g)
  BY <1>2 DEF Unlock, locks, records, calls, history, SameHandle, UnlockRecord, OthersOn,
     HandlesOf, TypeOK
<1>3. ASSUME NEW h \in Handles, NEW r \in Visits[h], Move(c, h, r)
      PROVE \A g \in Handles : Owner[g] # c => SameHandle(g)
  BY <1>3 DEF Move, locks, records, calls, history, SameHandle, UnlockRecord, OthersOn,
     HandlesOf, TypeOK
<1>4. ASSUME NEW m \in SessionModes[c], SessionLock(c, m)
      PROVE \A g \in Handles : Owner[g] # c => SameHandle(g)
  BY <1>4 DEF SessionLock, locks, records, calls, history, SameHandle, UnlockRecord,
     OthersOn, HandlesOf, TypeOK
<1>5. CASE SessionUnlock(c)
  BY <1>5 DEF SessionUnlock, locks, records, calls, history, SameHandle, UnlockRecord,
     OthersOn, HandlesOf, TypeOK
<1>6. ASSUME NEW h \in Handles, Begin(c, h)
      PROVE \A g \in Handles : Owner[g] # c => SameHandle(g)
  BY <1>6 DEF Begin, locks, records, calls, history, SameHandle, UnlockRecord, OthersOn,
     HandlesOf, TypeOK
<1>7. CASE LockGranted(c)
  <2>1. Owner[Top(c).handle] = c
    BY <1>7, TopOfStack DEF LockGranted, OwnBlocks, Own
  <2> QED
    BY <1>7, <2>1 DEF LockGranted, records, SameHandle, UnlockRecord, OthersOn, HandlesOf,
       TypeOK
<1>8. CASE LockRefused(c)
  BY <1>8 DEF LockRefused, locks, records, calls, history, SameHandle, UnlockRecord,
     OthersOn, HandlesOf, TypeOK
<1>9. CASE Leave(c)
  <2>1. Owner[Top(c).handle] = c
    BY <1>9, TopOfStack DEF Leave, OwnBlocks, Own
  <2> QED
    BY <1>9, <2>1 DEF Leave, records, SameHandle, UnlockRecord, OthersOn, HandlesOf, TypeOK
<1>10. CASE Raise(c)
  BY <1>10 DEF Raise, locks, records, calls, history, SameHandle, UnlockRecord, OthersOn,
     HandlesOf, TypeOK
<1>11. CASE Rescue(c)
  BY <1>11 DEF Rescue, locks, records, calls, history, SameHandle, UnlockRecord, OthersOn,
     HandlesOf, TypeOK
<1>12. CASE Crash(c)
  BY <1>12 DEF Crash, locks, records, calls, history, SameHandle, UnlockRecord, OthersOn,
     HandlesOf, TypeOK
<1> QED
  BY <1>1, <1>2, <1>3, <1>4, <1>5, <1>6, <1>7, <1>8, <1>9, <1>10, <1>11, <1>12 DEF Step, ByHand, Session,
     WithWriteLock, Answer

\* A call is on a record of the caller, and its block runs where the record was locked.
LEMMA OwnBlocksStep ==
  ASSUME TypeOK, OwnBlocks, NEW c \in Clients, Step(c)
  PROVE  Own(c)'
<1>1. ASSUME NEW h \in Handles, NEW m \in HandModes[c], Lock(c, h, m) PROVE Own(c)'
  BY <1>1 DEF Lock, records, calls, Own, OwnBlocks
<1>2. ASSUME NEW h \in Handles, Unlock(c, h) PROVE Own(c)'
  BY <1>2 DEF Unlock, records, calls, Own, OwnBlocks
<1>3. ASSUME NEW h \in Handles, NEW r \in Visits[h], Move(c, h, r) PROVE Own(c)'
  BY <1>3 DEF Move, records, calls, Own, OwnBlocks
<1>4. ASSUME NEW m \in SessionModes[c], SessionLock(c, m) PROVE Own(c)'
  BY <1>4 DEF SessionLock, records, calls, Own, OwnBlocks
<1>5. CASE SessionUnlock(c)
  BY <1>5 DEF SessionUnlock, records, calls, Own, OwnBlocks
<1>6. ASSUME NEW h \in Handles, Begin(c, h) PROVE Own(c)'
  <2> DEFINE b == [handle |-> h, row |-> None, phase |-> "asking"]
  <2>1. b \in Block /\ blocks[c] \in Seq(Block)
    BY DEF Block, Phases, TypeOK
  <2>2. blocks'[c] = Append(blocks[c], b)
    BY <1>6, <2>1, PushEffect DEF Begin
  <2> QED
    BY <1>6, <2>1, <2>2, PushedStack DEF Begin, Own, OwnBlocks
<1>7. CASE LockGranted(c)
  <2> DEFINE b == [handle |-> Top(c).handle, row |-> at[Top(c).handle], phase |-> "inside"]
  <2>1. /\ Top(c) \in Block /\ Top(c) = blocks[c][Depth(c)] /\ Depth(c) \in Nat \ {0}
        /\ DOMAIN blocks[c] = 1 .. Depth(c)
    BY <1>7, TopOfStack DEF LockGranted
  <2>2. Owner[b.handle] = c /\ b.row \in Rows /\ b \in Block
    <3>1. Top(c).handle \in Handles /\ Owner[Top(c).handle] = c
      BY <2>1 DEF Own, OwnBlocks, Block
    <3>2. at[Top(c).handle] \in Rows
      BY <1>7, <3>1 DEF LockGranted, TypeOK
    <3> QED
      BY <3>1, <3>2 DEF Block, Phases
  <2>3. /\ DOMAIN blocks'[c] = 1 .. Depth(c) /\ blocks'[c][Depth(c)] = b
        /\ \A i \in 1 .. Depth(c) - 1 : blocks'[c][i] = blocks[c][i]
    BY <1>7, <2>1, <2>2, SetTopEffect DEF LockGranted
  <2> QED
    BY <2>1, <2>2, <2>3 DEF Own, OwnBlocks
<1>8. CASE LockRefused(c)
  <2> DEFINE b == [Top(c) EXCEPT !.phase = "refused"]
  <2>1. /\ Top(c) \in Block /\ Top(c) = blocks[c][Depth(c)] /\ Depth(c) \in Nat \ {0}
        /\ DOMAIN blocks[c] = 1 .. Depth(c)
    BY <1>8, TopOfStack DEF LockRefused
  <2>2. Owner[b.handle] = c /\ b.phase = "refused" /\ b \in Block
    BY <2>1 DEF Own, OwnBlocks, Block, Phases
  <2>3. /\ DOMAIN blocks'[c] = 1 .. Depth(c) /\ blocks'[c][Depth(c)] = b
        /\ \A i \in 1 .. Depth(c) - 1 : blocks'[c][i] = blocks[c][i]
    BY <1>8, <2>1, <2>2, SetTopEffect DEF LockRefused
  <2> HIDE DEF b
  <2>4. ASSUME NEW i \in 1 .. Depth(c)
        PROVE  /\ Owner[blocks'[c][i].handle] = c
               /\ blocks'[c][i].phase = "inside" => blocks'[c][i].row \in Rows
    <3>1. CASE i = Depth(c)
      BY <2>2, <2>3, <3>1
    <3>2. CASE i # Depth(c)
      BY <2>1, <2>3, <3>2 DEF Own, OwnBlocks
    <3> QED
      BY <3>1, <3>2
  <2> QED
    BY <2>3, <2>4 DEF Own
<1>9. CASE Leave(c)
  <2>1. Depth(c) \in Nat \ {0} /\ DOMAIN blocks[c] = 1 .. Depth(c)
    BY <1>9, TopOfStack DEF Leave
  <2>2. /\ DOMAIN blocks'[c] = 1 .. Depth(c) - 1
        /\ \A i \in 1 .. Depth(c) - 1 : blocks'[c][i] = blocks[c][i]
    BY <1>9, PopEffect DEF Leave
  <2> QED
    BY <2>1, <2>2 DEF Own, OwnBlocks
<1>10. CASE Raise(c)
  BY <1>10 DEF Raise, records, calls, Own, OwnBlocks
<1>11. CASE Rescue(c)
  BY <1>11 DEF Rescue, records, calls, Own, OwnBlocks
<1>12. CASE Crash(c)
  BY <1>12 DEF Crash, Own, TypeOK
<1> QED
  BY <1>1, <1>2, <1>3, <1>4, <1>5, <1>6, <1>7, <1>8, <1>9, <1>10, <1>11, <1>12 DEF Step, ByHand, Session,
     WithWriteLock, Answer

\* The server grants no lock beside a write lock.
LEMMA WriteExclusiveStep ==
  ASSUME TypeOK, WriteExclusive, NEW c \in Clients, Step(c)
  PROVE  WriteExclusive'
<1>1. ASSUME NEW h \in Handles, NEW m \in HandModes[c], Lock(c, h, m) PROVE WriteExclusive'
  <2>1. m \in {"read", "write"} /\ at[h] \in Rows
    BY <1>1, ModesTyped DEF Lock, TypeOK
  <2> QED
    BY <1>1, <2>1 DEF Lock, Grant, Compatible, WriteExclusive, TypeOK, Modes
<1>2. ASSUME NEW h \in Handles, Unlock(c, h) PROVE WriteExclusive'
  BY <1>2 DEF Unlock, locks, calls, UnlockRecord, WriteExclusive, TypeOK
<1>3. ASSUME NEW h \in Handles, NEW r \in Visits[h], Move(c, h, r) PROVE WriteExclusive'
  <2>1. PICK keep \in BOOLEAN : granted' = [granted EXCEPT ![c] = Moved(c, h, r, keep)]
    BY <1>3 DEF Move
  <2>2. sessionLock[c] # "free" => Compatible(c, r, sessionLock[c])
    BY <1>3 DEF Move
  <2>3. sessionLock[c] \in Modes /\ r \in Rows
    BY VisitsTyped DEF TypeOK
  <2> QED
    BY <2>1, <2>2, <2>3 DEF Moved, Compatible, WriteExclusive, TypeOK, Modes
<1>4. ASSUME NEW m \in SessionModes[c], SessionLock(c, m) PROVE WriteExclusive'
  BY <1>4 DEF SessionLock, locks, calls, UnlockRecord, WriteExclusive, TypeOK
<1>5. CASE SessionUnlock(c)
  BY <1>5 DEF SessionUnlock, locks, calls, UnlockRecord, WriteExclusive, TypeOK
<1>6. ASSUME NEW h \in Handles, Begin(c, h) PROVE WriteExclusive'
  BY <1>6 DEF Begin, locks, calls, UnlockRecord, WriteExclusive, TypeOK
<1>7. CASE LockGranted(c)
  <2>1. at[Top(c).handle] \in Rows
    BY <1>7, TopOfStack DEF LockGranted, Block, TypeOK
  <2> QED
    BY <1>7, <2>1 DEF LockGranted, Grant, Compatible, WriteExclusive, TypeOK, Modes
<1>8. CASE LockRefused(c)
  BY <1>8 DEF LockRefused, locks, calls, UnlockRecord, WriteExclusive, TypeOK
<1>9. CASE Leave(c)
  BY <1>9 DEF Leave, locks, calls, UnlockRecord, WriteExclusive, TypeOK
<1>10. CASE Raise(c)
  BY <1>10 DEF Raise, locks, calls, UnlockRecord, WriteExclusive, TypeOK
<1>11. CASE Rescue(c)
  BY <1>11 DEF Rescue, locks, calls, UnlockRecord, WriteExclusive, TypeOK
<1>12. CASE Crash(c)
  BY <1>12 DEF Crash, locks, calls, UnlockRecord, WriteExclusive, TypeOK
<1> QED
  BY <1>1, <1>2, <1>3, <1>4, <1>5, <1>6, <1>7, <1>8, <1>9, <1>10, <1>11, <1>12 DEF Step, ByHand, Session,
     WithWriteLock, Answer

-----------------------------------------------------------------------------
(* What runs, and what is anchored, before and after a call *)

\* A call that waits or was refused runs nothing.
LEMMA BeginRuns ==
  ASSUME TypeOK, OwnBlocks, NEW c \in Clients, NEW h \in Handles, Begin(c, h), NEW r
  PROVE  (InBlock(c, r)' <=> InBlock(c, r)) /\ (HasAnchor(c, r)' <=> HasAnchor(c, r))
<1> DEFINE b == [handle |-> h, row |-> None, phase |-> "asking"]
<1>1. b \in Block /\ blocks[c] \in Seq(Block) /\ b.phase = "asking"
  BY DEF Block, Phases, TypeOK
<1>2. blocks'[c] = Append(blocks[c], b) /\ at' = at
  BY <1>1, PushEffect DEF Begin, records
<1> HIDE DEF b
<1>3. /\ DOMAIN blocks[c] = 1 .. Len(blocks[c]) /\ Len(blocks[c]) \in Nat
      /\ DOMAIN blocks'[c] = 1 .. Len(blocks[c]) + 1
      /\ \A i \in 1 .. Len(blocks[c]) : blocks'[c][i] = blocks[c][i]
      /\ blocks'[c][Len(blocks[c]) + 1].phase = "asking"
  BY <1>1, <1>2, PushedStack
<1> QED
  BY <1>2, <1>3 DEF InBlock, RunsOn, HasAnchor

\* A refused lock puts nobody into a block and anchors no row.
LEMMA LockRefusedRuns ==
  ASSUME TypeOK, OwnBlocks, NEW c \in Clients, LockRefused(c), NEW r
  PROVE  (InBlock(c, r)' <=> InBlock(c, r)) /\ (HasAnchor(c, r)' <=> HasAnchor(c, r))
<1> DEFINE b == [Top(c) EXCEPT !.phase = "refused"]
<1>1. /\ Top(c) \in Block /\ Top(c) = blocks[c][Depth(c)] /\ Depth(c) \in Nat \ {0}
      /\ DOMAIN blocks[c] = 1 .. Depth(c) /\ blocks[c][Depth(c)].phase = "asking"
  BY TopOfStack DEF LockRefused
<1>2. b.phase = "refused" /\ b \in Block
  BY <1>1 DEF Block, Phases
<1>3. /\ DOMAIN blocks'[c] = 1 .. Depth(c) /\ blocks'[c][Depth(c)] = b
      /\ \A i \in 1 .. Depth(c) - 1 : blocks'[c][i] = blocks[c][i]
      /\ at' = at
  BY <1>1, <1>2, SetTopEffect DEF LockRefused, records
<1> HIDE DEF b
<1>4. \A i \in 1 .. Depth(c) :
        blocks'[c][i].phase = "inside" <=> (blocks[c][i].phase = "inside" /\ i # Depth(c))
  BY <1>1, <1>2, <1>3
<1>5. \A i \in 1 .. Depth(c) : i # Depth(c) => blocks'[c][i] = blocks[c][i]
  BY <1>1, <1>3
<1> QED
  BY <1>1, <1>3, <1>4, <1>5 DEF InBlock, RunsOn, HasAnchor

\* A lock that is granted starts the block on the row.
LEMMA LockGrantedRuns ==
  ASSUME TypeOK, OwnBlocks, NEW c \in Clients, LockGranted(c), NEW r
  PROVE  /\ (InBlock(c, r)' <=> InBlock(c, r) \/ r = at[Top(c).handle])
         /\ (HasAnchor(c, r)' <=> HasAnchor(c, r) \/ r = at[Top(c).handle])
<1> DEFINE b == [handle |-> Top(c).handle, row |-> at[Top(c).handle], phase |-> "inside"]
<1>1. /\ Top(c) \in Block /\ Top(c) = blocks[c][Depth(c)] /\ Depth(c) \in Nat \ {0}
      /\ DOMAIN blocks[c] = 1 .. Depth(c) /\ blocks[c][Depth(c)].phase = "asking"
  BY TopOfStack DEF LockGranted
<1>2. /\ b.phase = "inside" /\ b.handle = Top(c).handle /\ b.row = at[Top(c).handle]
      /\ b \in Block
  BY <1>1 DEF Block, Phases, TypeOK
<1>3. /\ DOMAIN blocks'[c] = 1 .. Depth(c) /\ blocks'[c][Depth(c)] = b
      /\ \A i \in 1 .. Depth(c) - 1 : blocks'[c][i] = blocks[c][i]
      /\ at' = at
  BY <1>1, <1>2, SetTopEffect DEF LockGranted
<1> HIDE DEF b
<1>4. \A i \in 1 .. Depth(c) : i # Depth(c) => blocks'[c][i] = blocks[c][i]
  BY <1>1, <1>3
<1>5. Depth(c) \in 1 .. Depth(c)
  BY <1>1
<1>6. InBlock(c, r)' <=> InBlock(c, r) \/ r = at[Top(c).handle]
  BY <1>1, <1>2, <1>3, <1>4, <1>5 DEF InBlock, RunsOn
<1>7. HasAnchor(c, r)' <=> HasAnchor(c, r) \/ r = at[Top(c).handle]
  BY <1>1, <1>2, <1>3, <1>4, <1>5 DEF HasAnchor
<1> QED
  BY <1>6, <1>7

\* The end of a block stops nothing else, and takes no other block's anchor.
LEMMA LeaveRuns ==
  ASSUME TypeOK, OwnBlocks, NEW c \in Clients, Leave(c), NEW r
  PROVE  /\ (InBlock(c, r)' <=> RunsOn(Popped(c), r))
         /\ (InBlock(c, r)' => InBlock(c, r))
         /\ (HasAnchor(c, r) => HasAnchor(c, r)' \/ r = at[Top(c).handle])
<1>1. /\ Top(c) = blocks[c][Depth(c)] /\ Depth(c) \in Nat \ {0}
      /\ DOMAIN blocks[c] = 1 .. Depth(c)
  BY TopOfStack DEF Leave
<1>2. /\ DOMAIN blocks'[c] = 1 .. Depth(c) - 1
      /\ \A i \in 1 .. Depth(c) - 1 : blocks'[c][i] = blocks[c][i]
      /\ at' = at /\ blocks'[c] = Popped(c)
  BY <1>1, PopEffect DEF Leave, TypeOK
<1>3. InBlock(c, r)' <=> RunsOn(Popped(c), r)
  BY <1>2 DEF InBlock
<1>4. InBlock(c, r)' => InBlock(c, r)
  BY <1>1, <1>2 DEF InBlock, RunsOn
<1>5. HasAnchor(c, r) => HasAnchor(c, r)' \/ r = at[Top(c).handle]
  <2> SUFFICES ASSUME NEW i \in 1 .. Depth(c), i # Depth(c),
                      blocks[c][i].phase = "inside", blocks[c][i].row = r,
                      at[blocks[c][i].handle] = r
               PROVE  HasAnchor(c, r)'
    BY <1>1 DEF HasAnchor
  <2>1. i \in 1 .. Depth(c) - 1
    BY <1>1
  <2> QED
    BY <1>2, <2>1 DEF HasAnchor
<1> QED
  BY <1>3, <1>4, <1>5

-----------------------------------------------------------------------------
(* The locks of the process that moves *)


\* A block keeps its write lock until it ends or the process gives it up.
LEMMA LockedStep ==
  ASSUME TypeOK, OwnBlocks, BlockLocked, NEW c \in Clients, Step(c)
  PROVE  Locked(c)'
<1>1. ASSUME NEW h \in Handles, NEW m \in HandModes[c], Lock(c, h, m) PROVE Locked(c)'
  <2>1. ASSUME NEW r \in Rows, InBlock(c, r), <<c, r>> \notin lost'
        PROVE  /\ <<c, r>> \notin lost
               /\ m = "write" \/ r # at[h]
    BY <1>1, <2>1, LosesEffect DEF Lock, InBlock
  <2> QED
    BY <1>1, <2>1 DEF Lock, Grant, calls, Locked, BlockLocked, InBlock, TypeOK
<1>2. ASSUME NEW h \in Handles, Unlock(c, h) PROVE Locked(c)'
  <2>1. ASSUME NEW r \in Rows, InBlock(c, r), <<c, r>> \notin lost'
        PROVE  <<c, r>> \notin lost /\ r # at[h]
    BY <1>2, <2>1, LosesEffect DEF Unlock, InBlock
  <2> QED
    BY <1>2, <2>1 DEF Unlock, UnlockRecord, calls, Locked, BlockLocked, InBlock, TypeOK
<1>3. ASSUME NEW h \in Handles, NEW r \in Visits[h], Move(c, h, r) PROVE Locked(c)'
  <2>1. PICK keep \in BOOLEAN :
          /\ granted' = [granted EXCEPT ![c] = Moved(c, h, r, keep)]
          /\ Loses(c, {q \in Rows : Moved(c, h, r, keep)[q] # "write"}, blocks[c])
    BY <1>3 DEF Move
  <2>2. ASSUME NEW q \in Rows, InBlock(c, q), <<c, q>> \notin lost'
        PROVE  Moved(c, h, r, keep)[q] = "write"
    BY <2>1, <2>2, LosesEffect DEF InBlock
  <2> QED
    BY <1>3, <2>1, <2>2 DEF Move, calls, Locked, InBlock, TypeOK
<1>4. ASSUME NEW m \in SessionModes[c], SessionLock(c, m) PROVE Locked(c)'
  BY <1>4 DEF SessionLock, locks, records, calls, history, Locked, BlockLocked, InBlock
<1>5. CASE SessionUnlock(c)
  <2>1. ASSUME NEW r \in Rows, InBlock(c, r) PROVE <<c, r>> \in lost'
    BY <1>5, <2>1, LosesEffect DEF SessionUnlock, InBlock
  <2> QED
    BY <1>5, <2>1 DEF SessionUnlock, calls, Locked, InBlock
<1>6. ASSUME NEW h \in Handles, Begin(c, h) PROVE Locked(c)'
  BY <1>6, BeginRuns DEF Begin, locks, history, Locked, BlockLocked
<1>7. CASE LockGranted(c)
  <2> DEFINE p == at[Top(c).handle]
  <2>1. p \in Rows
    BY <1>7, TopOfStack DEF LockGranted, Block, TypeOK
  <2>2. granted' = [granted EXCEPT ![c][p] = "write"] /\ lost' = lost
    BY <1>7 DEF LockGranted, Grant
  <2>3. \A r : InBlock(c, r)' <=> InBlock(c, r) \/ r = p
    BY <1>7, LockGrantedRuns
  <2> HIDE DEF p
  <2>4. \A r \in Rows : granted'[c][r] = IF r = p THEN "write" ELSE granted[c][r]
    BY <2>1, <2>2 DEF TypeOK
  <2> QED
    BY <2>2, <2>3, <2>4 DEF Locked, BlockLocked
<1>8. CASE LockRefused(c)
  BY <1>8, LockRefusedRuns DEF LockRefused, locks, history, Locked, BlockLocked
<1>9. CASE Leave(c)
  <2>1. ASSUME NEW r \in Rows, InBlock(c, r)', <<c, r>> \notin lost'
        PROVE  InBlock(c, r) /\ <<c, r>> \notin lost /\ r # at[Top(c).handle]
    BY <1>9, <2>1, LeaveRuns, LosesEffect DEF Leave
  <2> QED
    BY <1>9, <2>1 DEF Leave, UnlockRecord, Locked, BlockLocked, TypeOK
<1>10. CASE Raise(c)
  BY <1>10 DEF Raise, locks, records, calls, history, Locked, BlockLocked, InBlock
<1>11. CASE Rescue(c)
  BY <1>11 DEF Rescue, locks, records, calls, history, Locked, BlockLocked, InBlock
<1>12. CASE Crash(c)
  BY <1>12 DEF Crash, Locked, InBlock, RunsOn, TypeOK
<1> QED
  BY <1>1, <1>2, <1>3, <1>4, <1>5, <1>6, <1>7, <1>8, <1>9, <1>10, <1>11, <1>12 DEF Step, ByHand, Session,
     WithWriteLock, Answer

\* A lock ends with the block that took it, unless it is loose.
LEMMA AnchoredStep ==
  ASSUME TypeOK, OwnBlocks, Anchored, NEW c \in Clients, Step(c)
  PROVE  AnchoredOf(c)'
<1>1. ASSUME NEW h \in Handles, NEW m \in HandModes[c], Lock(c, h, m) PROVE AnchoredOf(c)'
  BY <1>1 DEF Lock, Grant, calls, AnchoredOf, Anchored, HasAnchor, TypeOK
<1>2. ASSUME NEW h \in Handles, Unlock(c, h) PROVE AnchoredOf(c)'
  BY <1>2 DEF Unlock, UnlockRecord, calls, AnchoredOf, Anchored, HasAnchor, TypeOK
<1>3. ASSUME NEW h \in Handles, NEW r \in Visits[h], Move(c, h, r) PROVE AnchoredOf(c)'
  <2>1. PICK keep \in BOOLEAN :
          /\ granted' = [granted EXCEPT ![c] = Moved(c, h, r, keep)]
          /\ loose' = (loose \ {<<c, q>> : q \in IF keep THEN {} ELSE {at[h]}})
                        \cup {<<c, q>> : q \in {p \in {at[h], r} :
                                                  p # None /\ Moved(c, h, r, keep)[p] #
                                                     "free"}}
    BY <1>3 DEF Move
  <2> SUFFICES ASSUME NEW q \in Rows, Moved(c, h, r, keep)[q] # "free", <<c, q>> \notin
     loose'
               PROVE  HasAnchor(c, q)'
    BY <2>1 DEF AnchoredOf, TypeOK
  <2>2. q # at[h] /\ q # r
    BY <2>1, NoneIsNoRow
  <2>3. granted[c][q] # "free" /\ <<c, q>> \notin loose
    BY <2>1, <2>2 DEF Moved
  <2>4. HasAnchor(c, q)
    BY <2>3 DEF Anchored, AnchoredOf
  <2>5. \A g \in Handles : at[g] = q => at'[g] = q
    BY <1>3, <2>2 DEF Move, TypeOK
  <2>6. PICK i \in DOMAIN blocks[c] : /\ blocks[c][i].phase = "inside"
                                      /\ blocks[c][i].row = q
                                      /\ at[blocks[c][i].handle] = q
    BY <2>4 DEF HasAnchor
  <2>7. blocks[c] \in Seq(Block)
    BY DEF TypeOK
  <2>8. blocks[c][i] \in Block
    BY <2>6, <2>7
  <2>9. at'[blocks[c][i].handle] = q
    BY <2>5, <2>6, <2>8 DEF Block
  <2> QED
    BY <1>3, <2>6, <2>9 DEF Move, calls, HasAnchor
<1>4. ASSUME NEW m \in SessionModes[c], SessionLock(c, m) PROVE AnchoredOf(c)'
  BY <1>4 DEF SessionLock, locks, records, calls, history, AnchoredOf, Anchored, HasAnchor
<1>5. CASE SessionUnlock(c)
  BY <1>5 DEF SessionUnlock, AnchoredOf, TypeOK
<1>6. ASSUME NEW h \in Handles, Begin(c, h) PROVE AnchoredOf(c)'
  BY <1>6, BeginRuns DEF Begin, locks, history, AnchoredOf, Anchored
<1>7. CASE LockGranted(c)
  BY <1>7, LockGrantedRuns DEF LockGranted, Grant, AnchoredOf, Anchored, TypeOK
<1>8. CASE LockRefused(c)
  BY <1>8, LockRefusedRuns DEF LockRefused, locks, history, AnchoredOf, Anchored
<1>9. CASE Leave(c)
  BY <1>9, LeaveRuns DEF Leave, UnlockRecord, AnchoredOf, Anchored, TypeOK
<1>10. CASE Raise(c)
  BY <1>10 DEF Raise, locks, records, calls, history, AnchoredOf, Anchored, HasAnchor
<1>11. CASE Rescue(c)
  BY <1>11 DEF Rescue, locks, records, calls, history, AnchoredOf, Anchored, HasAnchor
<1>12. CASE Crash(c)
  BY <1>12 DEF Crash, AnchoredOf, TypeOK
<1> QED
  BY <1>1, <1>2, <1>3, <1>4, <1>5, <1>6, <1>7, <1>8, <1>9, <1>10, <1>11, <1>12 DEF Step, ByHand, Session,
     WithWriteLock, Answer

\* A record of the process knows its lock, unless another of its calls ended it.
LEMMA ReportsStep ==
  ASSUME TypeOK, OwnBlocks, ReportsItsLock, NEW c \in Clients, Step(c)
  PROVE  \A x \in Handles : Owner[x] = c => ReportsOf(x)'
<1>1. ASSUME NEW h \in Handles, NEW m \in HandModes[c], Lock(c, h, m)
      PROVE \A x \in Handles : Owner[x] = c => ReportsOf(x)'
  <2>1. ASSUME NEW g \in Handles, g # h, Owner[g] = c, lockMode[g] # "free", at[g] = at[h]
        PROVE  g \in undercut'
    BY <1>1, <2>1 DEF Lock, OthersOn, HandlesOf
  <2>2. ASSUME NEW g \in Handles, g # h, g \notin undercut' PROVE g \notin undercut
    BY <1>1, <2>2 DEF Lock
  <2>3. at[h] \in Rows /\ lockMode'[h] = m /\ granted'[c][at[h]] = m
    BY <1>1 DEF Lock, Grant, TypeOK
  <2> QED
    BY <1>1, <2>1, <2>2, <2>3 DEF Lock, Grant, ReportsOf, ReportsItsLock, TypeOK
<1>2. ASSUME NEW h \in Handles, Unlock(c, h)
      PROVE \A x \in Handles : Owner[x] = c => ReportsOf(x)'
  <2>1. ASSUME NEW g \in Handles, g # h, Owner[g] = c, lockMode[g] # "free", at[g] = at[h]
        PROVE  g \in undercut'
    BY <1>2, <2>1 DEF Unlock, UnlockRecord, OthersOn, HandlesOf
  <2>2. ASSUME NEW g \in Handles, g # h, g \notin undercut' PROVE g \notin undercut
    BY <1>2, <2>2 DEF Unlock, UnlockRecord
  <2> QED
    BY <1>2, <2>1, <2>2 DEF Unlock, UnlockRecord, ReportsOf, ReportsItsLock, TypeOK
<1>3. ASSUME NEW h \in Handles, NEW r \in Visits[h], Move(c, h, r)
      PROVE \A x \in Handles : Owner[x] = c => ReportsOf(x)'
  <2>1. PICK keep \in BOOLEAN :
          /\ granted' = [granted EXCEPT ![c] = Moved(c, h, r, keep)]
          /\ undercut' = (undercut
                \cup (IF keep THEN {} ELSE OthersOn(c, h, at[h]))
                \cup (IF sessionLock[c] = "free" THEN {} ELSE OthersOn(c, h, r))) \ {h}
    BY <1>3 DEF Move
  <2>2. r \in Rows /\ at'[h] = r /\ lockMode'[h] = sessionLock[c] /\ Owner[h] = c
    BY <1>3, VisitsTyped DEF Move, TypeOK
  <2>3. ReportsOf(h)'
    BY <2>1, <2>2, NoneIsNoRow DEF Moved, ReportsOf, TypeOK
  <2>4. ASSUME NEW g \in Handles, g # h, Owner[g] = c, lockMode[g] # "free", g \notin
     undercut'
        PROVE  /\ g \notin undercut /\ at[g] \in Rows
               /\ Moved(c, h, r, keep)[at[g]] = lockMode[g]
    <3>1. g \notin undercut
      BY <2>1, <2>4
    <3>2. at[g] \in Rows /\ granted[c][at[g]] = lockMode[g]
      BY <2>4, <3>1 DEF ReportsItsLock, TypeOK
    <3>3. (~keep => at[g] # at[h]) /\ (sessionLock[c] # "free" => at[g] # r)
      BY <2>1, <2>4 DEF OthersOn, HandlesOf
    <3> QED
      BY <3>1, <3>2, <3>3 DEF Moved
  <2>5. ASSUME NEW g \in Handles, g # h PROVE at'[g] = at[g] /\ lockMode'[g] = lockMode[g]
    BY <1>3, <2>5 DEF Move, TypeOK
  <2> QED
    BY <2>1, <2>3, <2>4, <2>5, NoneIsNoRow DEF ReportsOf, TypeOK
<1>4. ASSUME NEW m \in SessionModes[c], SessionLock(c, m)
      PROVE \A x \in Handles : Owner[x] = c => ReportsOf(x)'
  BY <1>4 DEF SessionLock, records, history, ReportsOf, ReportsItsLock
<1>5. CASE SessionUnlock(c)
  BY <1>5 DEF SessionUnlock, records, HandlesOf, ReportsOf
<1>6. ASSUME NEW h \in Handles, Begin(c, h)
      PROVE \A x \in Handles : Owner[x] = c => ReportsOf(x)'
  BY <1>6 DEF Begin, locks, records, history, ReportsOf, ReportsItsLock
<1>7. CASE LockGranted(c)
  <2> DEFINE h == Top(c).handle
  <2>1. h \in Handles /\ Owner[h] = c
    BY <1>7, TopOfStack DEF LockGranted, Block, OwnBlocks, Own
  <2>2. at[h] \in Rows /\ lockMode'[h] = "write" /\ granted'[c][at[h]] = "write"
    BY <1>7, <2>1 DEF LockGranted, Grant, TypeOK
  <2>3. ASSUME NEW g \in Handles, g # h, Owner[g] = c, lockMode[g] # "free", at[g] = at[h]
        PROVE  g \in undercut'
    BY <1>7, <2>3 DEF LockGranted, OthersOn, HandlesOf
  <2>4. ASSUME NEW g \in Handles, g # h, g \notin undercut' PROVE g \notin undercut
    BY <1>7, <2>4 DEF LockGranted
  <2> QED
    BY <1>7, <2>1, <2>2, <2>3, <2>4 DEF LockGranted, Grant, ReportsOf, ReportsItsLock,
       TypeOK
<1>8. CASE LockRefused(c)
  BY <1>8 DEF LockRefused, locks, records, history, ReportsOf, ReportsItsLock
<1>9. CASE Leave(c)
  <2> DEFINE h == Top(c).handle
  <2>1. h \in Handles
    BY <1>9, TopOfStack DEF Leave, Block
  <2>2. ASSUME NEW g \in Handles, g # h, Owner[g] = c, lockMode[g] # "free", at[g] = at[h]
        PROVE  g \in undercut'
    BY <1>9, <2>2 DEF Leave, UnlockRecord, OthersOn, HandlesOf
  <2>3. ASSUME NEW g \in Handles, g # h, g \notin undercut' PROVE g \notin undercut
    BY <1>9, <2>3 DEF Leave, UnlockRecord
  <2> QED
    BY <1>9, <2>1, <2>2, <2>3 DEF Leave, UnlockRecord, ReportsOf, ReportsItsLock, TypeOK
<1>10. CASE Raise(c)
  BY <1>10 DEF Raise, locks, records, history, ReportsOf, ReportsItsLock
<1>11. CASE Rescue(c)
  BY <1>11 DEF Rescue, locks, records, history, ReportsOf, ReportsItsLock
<1>12. CASE Crash(c)
  BY <1>12 DEF Crash, ReportsOf, TypeOK
<1> QED
  BY <1>1, <1>2, <1>3, <1>4, <1>5, <1>6, <1>7, <1>8, <1>9, <1>10, <1>11, <1>12 DEF Step, ByHand, Session,
     WithWriteLock, Answer

\* A process comes to have a row to itself only when its lock is granted.
LEMMA OnlyGrantEnters ==
  ASSUME TypeOK, OwnBlocks, NEW c \in Clients, Step(c)
  PROVE  LockGranted(c) \/ \A q \in Rows : InBlock(c, q)' /\ <<c, q>> \notin lost'
                                         => InBlock(c, q) /\ <<c, q>> \notin lost
<1>1. ASSUME NEW h \in Handles, NEW m \in HandModes[c], Lock(c, h, m)
      PROVE LockGranted(c) \/ \A q \in Rows : InBlock(c, q)' /\ <<c, q>> \notin lost'
                                         => InBlock(c, q) /\ <<c, q>> \notin lost
  BY <1>1, LosesEffect DEF Lock, calls, InBlock
<1>2. ASSUME NEW h \in Handles, Unlock(c, h)
      PROVE LockGranted(c) \/ \A q \in Rows : InBlock(c, q)' /\ <<c, q>> \notin lost'
                                         => InBlock(c, q) /\ <<c, q>> \notin lost
  BY <1>2, LosesEffect DEF Unlock, calls, InBlock
<1>3. ASSUME NEW h \in Handles, NEW r \in Visits[h], Move(c, h, r)
      PROVE LockGranted(c) \/ \A q \in Rows : InBlock(c, q)' /\ <<c, q>> \notin lost'
                                         => InBlock(c, q) /\ <<c, q>> \notin lost
  BY <1>3, LosesEffect DEF Move, calls, InBlock
<1>4. ASSUME NEW m \in SessionModes[c], SessionLock(c, m)
      PROVE LockGranted(c) \/ \A q \in Rows : InBlock(c, q)' /\ <<c, q>> \notin lost'
                                         => InBlock(c, q) /\ <<c, q>> \notin lost
  BY <1>4 DEF SessionLock, locks, records, calls, history, InBlock
<1>5. CASE SessionUnlock(c)
  BY <1>5, LosesEffect DEF SessionUnlock, calls, InBlock
<1>6. ASSUME NEW h \in Handles, Begin(c, h)
      PROVE LockGranted(c) \/ \A q \in Rows : InBlock(c, q)' /\ <<c, q>> \notin lost'
                                         => InBlock(c, q) /\ <<c, q>> \notin lost
  BY <1>6, BeginRuns DEF Begin, history
<1>7. CASE LockGranted(c)
  BY <1>7
<1>8. CASE LockRefused(c)
  BY <1>8, LockRefusedRuns DEF LockRefused, history
<1>9. CASE Leave(c)
  BY <1>9, LeaveRuns, LosesEffect DEF Leave
<1>10. CASE Raise(c)
  BY <1>10 DEF Raise, locks, records, calls, history, InBlock
<1>11. CASE Rescue(c)
  BY <1>11 DEF Rescue, locks, records, calls, history, InBlock
<1>12. CASE Crash(c)
  BY <1>12 DEF Crash, InBlock, RunsOn, TypeOK
<1> QED
  BY <1>1, <1>2, <1>3, <1>4, <1>5, <1>6, <1>7, <1>8, <1>9, <1>10, <1>11, <1>12 DEF Step, ByHand, Session,
     WithWriteLock, Answer

-----------------------------------------------------------------------------
(* The invariant *)

\* Before any call the inductive invariant holds.
LEMMA InvariantInit == Init => IInv
<1> SUFFICES ASSUME Init PROVE IInv
  OBVIOUS
<1>1. Types
  BY DEF Init, Types, Modes
<1>2. ASSUME NEW c \in Clients PROVE Shape(c)
  <2>1. Depth(c) = 0 /\ DOMAIN blocks[c] = {} /\ MaxDepth[c] \in Nat
    BY DepthsAreNumbers DEF Init, Depth
  <2> QED
    BY <2>1 DEF Shape
<1>3. OwnBlocks /\ BlockLocked
  BY DEF Init, OwnBlocks, Own, BlockLocked, Locked, InBlock, RunsOn
<1>4. WriteExclusive /\ Anchored /\ ReportsItsLock
  BY DEF Init, WriteExclusive, Anchored, AnchoredOf, ReportsItsLock
<1> QED
  BY <1>1, <1>2, <1>3, <1>4, TypesAndShapes DEF IInv, Shapes

\* Every step keeps the inductive invariant.
LEMMA InvariantStep == IInv /\ [Next]_vars => IInv'
<1> SUFFICES ASSUME IInv, [Next]_vars PROVE IInv'
  OBVIOUS
<1>1. TypeOK'
  <2>1. Types' /\ Shapes'
    BY TypesStep, ShapesStep DEF IInv
  <2> QED
    BY <2>1 DEF TypeOK, Types, Shapes, Shape
<1>2. CASE UNCHANGED vars
  BY <1>1, <1>2 DEF IInv, vars, OwnBlocks, Own, WriteExclusive, BlockLocked, Locked, InBlock,
     Anchored, AnchoredOf, HasAnchor, ReportsItsLock
<1>3. ASSUME NEW c \in Clients, Step(c) PROVE IInv'
  <2>1. \A d \in Clients \ {c} : granted'[d] = granted[d] /\ blocks'[d] = blocks[d]
    BY <1>3, OthersKept DEF IInv
  <2>7. \A g \in Handles : Owner[g] # c => SameHandle(g)
    BY <1>3, OthersHandlesKept DEF IInv
  <2>2. OwnBlocks'
    <3>1. Own(c)'
      BY <1>3, OwnBlocksStep DEF IInv
    <3>2. ASSUME NEW d \in Clients \ {c} PROVE Own(d)'
      BY <2>1 DEF IInv, OwnBlocks, Own
    <3> QED
      BY <3>1, <3>2 DEF OwnBlocks
  <2>3. WriteExclusive'
    BY <1>3, WriteExclusiveStep DEF IInv
  <2>4. BlockLocked'
    <3>1. Locked(c)'
      BY <1>3, LockedStep DEF IInv
    <3>2. ASSUME NEW d \in Clients \ {c} PROVE Locked(d)'
      BY <1>3, <2>1, OthersNotLost DEF IInv, BlockLocked, Locked, InBlock
    <3> QED
      BY <3>1, <3>2 DEF BlockLocked
  <2>5. Anchored'
    <3>1. AnchoredOf(c)'
      BY <1>3, AnchoredStep DEF IInv
    <3>2. ASSUME NEW d \in Clients \ {c}, NEW r \in Rows, HasAnchor(d, r) PROVE HasAnchor(d, r)'
      <4>1. PICK i \in DOMAIN blocks[d] : /\ blocks[d][i].phase = "inside"
                                          /\ blocks[d][i].row = r
                                          /\ at[blocks[d][i].handle] = r
        BY <3>2 DEF HasAnchor
      <4>2. Owner[blocks[d][i].handle] = d /\ blocks[d] \in Seq(Block)
        BY <4>1 DEF IInv, OwnBlocks, Own, TypeOK
      <4>3. blocks[d][i] \in Block
        BY <4>1, <4>2
      <4>4. at'[blocks[d][i].handle] = at[blocks[d][i].handle]
        BY <2>7, <4>2, <4>3 DEF Block, SameHandle
      <4> QED
        BY <2>1, <4>1, <4>4 DEF HasAnchor
    <3>3. ASSUME NEW d \in Clients \ {c} PROVE AnchoredOf(d)'
      BY <1>3, <2>1, <3>2, OthersNotLoose DEF IInv, Anchored, AnchoredOf
    <3> QED
      BY <3>1, <3>3 DEF Anchored
  <2>6. ReportsItsLock'
    <3>1. ASSUME NEW h \in Handles, Owner[h] = c PROVE ReportsOf(h)'
      BY <1>3, <3>1, ReportsStep DEF IInv
    <3>2. ASSUME NEW h \in Handles, Owner[h] # c PROVE ReportsOf(h)'
      <4>1. Owner[h] \in Clients \ {c}
        BY <3>2, OwnerTyped
      <4>2. at'[h] = at[h] /\ lockMode'[h] = lockMode[h] /\ (h \in undercut' <=> h \in undercut)
        BY <2>7, <3>2 DEF SameHandle
      <4> QED
        BY <2>1, <4>1, <4>2 DEF IInv, ReportsItsLock, ReportsOf
    <3> QED
      BY <3>1, <3>2 DEF ReportsItsLock, ReportsOf
  <2> QED
    BY <1>1, <2>2, <2>3, <2>4, <2>5, <2>6 DEF IInv
<1> QED
  BY <1>2, <1>3 DEF Next, Step

\* The inductive invariant holds in every state.
THEOREM Invariant == Spec => []IInv
  BY InvariantInit, InvariantStep, PTL DEF Spec

\* Every lock, stack and exception is of its type, and the stacks keep their shape.
THEOREM TypesHold == Spec => []TypeOK
  BY Invariant, PTL DEF IInv

\* Two blocks on one row both have its write lock, unless one gave it up, and the server
\* grants no two.
THEOREM BlocksAreExclusive == Spec => []BlocksExclude
<1>1. IInv => BlocksExclude
  BY DEF IInv, BlocksExclude, BlockLocked, Locked, WriteExclusive
<1> QED
  BY <1>1, Invariant, PTL

\* Whatever its exit, a block takes its lock along.
THEOREM NothingIsLeft == Spec => []NothingLeft
<1>1. IInv => NothingLeft
  BY DEF IInv, NothingLeft, Anchored, AnchoredOf, HasAnchor, InBlock, RunsOn
<1> QED
  BY <1>1, Invariant, PTL

\* A record knows its lock, unless it was ended behind its back.
THEOREM ReportsTrue == Spec => []ReportsItsLock
  BY Invariant, PTL DEF IInv

-----------------------------------------------------------------------------
(* The blocks implement RowLock. *)

\* Nobody is in a block at the start, as RowLock asks.
LEMMA RefinesInit == Init => Abstract!Init
  BY DEF Init, Abstract!Init, Holders, InBlock, RunsOn

\* The granted lock enters the row or changes nothing.
LEMMA RefinesGrant ==
  ASSUME IInv, NEW c \in Clients, LockGranted(c), Step(c)
  PROVE  [Abstract!Next]_Holders
<1> DEFINE p == at[Top(c).handle]
<1>1. p \in Rows /\ Compatible(c, p, "write") /\ lost' = lost
  BY TopOfStack DEF LockGranted, Block, IInv, TypeOK
<1>2. \A r \in Rows : InBlock(c, r)' <=> InBlock(c, r) \/ r = p
  BY LockGrantedRuns DEF IInv
<1>3. \A d \in Clients \ {c}, r \in Rows : InBlock(d, r)' <=> InBlock(d, r)
  BY OthersKept DEF IInv, InBlock
<1> HIDE DEF p
<1>4. CASE <<c, p>> \in lost \/ InBlock(c, p)
  <2>1. ASSUME NEW r \in Rows, NEW d \in Clients
        PROVE  (InBlock(d, r)' /\ <<d, r>> \notin lost') <=> (InBlock(d, r) /\ <<d, r>> \notin lost)
    BY <1>1, <1>2, <1>3, <1>4
  <2>2. Holders' = Holders
    BY <2>1 DEF Holders
  <2> QED
    BY <2>2
<1>5. CASE <<c, p>> \notin lost /\ ~InBlock(c, p)
  <2>1. Holders[p] = {}
    <3> SUFFICES ASSUME NEW d \in Clients, InBlock(d, p), <<d, p>> \notin lost PROVE FALSE
      BY <1>1 DEF Holders
    <3>1. d # c
      BY <1>5
    <3>2. granted[d][p] = "write"
      BY <1>1 DEF IInv, BlockLocked, Locked
    <3> QED
      BY <1>1, <3>1, <3>2 DEF Compatible
  <2>2. ASSUME NEW r \in Rows
        PROVE  Holders'[r] = IF r = p THEN {c} ELSE Holders[r]
    <3>1. CASE r = p
      <4>1. \A d \in Clients : (InBlock(d, r)' /\ <<d, r>> \notin lost') <=> d = c
        BY <1>1, <1>2, <1>3, <1>5, <2>1, <3>1 DEF Holders
      <4> QED
        BY <3>1, <4>1 DEF Holders
    <3>2. CASE r # p
      <4>1. \A d \in Clients : (InBlock(d, r)' /\ <<d, r>> \notin lost')
                                 <=> (InBlock(d, r) /\ <<d, r>> \notin lost)
        BY <1>1, <1>2, <1>3, <3>2
      <4> QED
        BY <3>2, <4>1 DEF Holders
    <3> QED
      BY <3>1, <3>2
  <2>3. Holders' = [Holders EXCEPT ![p] = {c}]
    BY <2>2 DEF Holders
  <2>4. Abstract!Enter(c, p)
    BY <2>1, <2>3 DEF Abstract!Enter
  <2> QED
    BY <1>1, <2>4 DEF Abstract!Next
<1> QED
  BY <1>4, <1>5

\* Every other step leaves rows, or changes nothing.
LEMMA RefinesOther ==
  ASSUME IInv, NEW c \in Clients, Step(c), ~LockGranted(c)
  PROVE  [Abstract!Next]_Holders
<1> DEFINE Has(r)  == InBlock(c, r) /\ <<c, r>> \notin lost
           Keeps(r) == InBlock(c, r)' /\ <<c, r>> \notin lost'
           S == {r \in Rows : Has(r) /\ ~Keeps(r)}
<1>1. \A r \in Rows : Keeps(r) => Has(r)
  BY OnlyGrantEnters DEF IInv
<1>2. \A d \in Clients \ {c}, r \in Rows :
        (InBlock(d, r)' /\ <<d, r>> \notin lost') <=> (InBlock(d, r) /\ <<d, r>> \notin lost)
  BY OthersKept, OthersNotLost DEF IInv, InBlock
<1>3. ASSUME NEW r \in Rows
      PROVE  Holders'[r] = IF r \in S THEN Holders[r] \ {c} ELSE Holders[r]
  <2>1. /\ Holders'[r] = {d \in Clients : InBlock(d, r)' /\ <<d, r>> \notin lost'}
        /\ Holders[r] = {d \in Clients : InBlock(d, r) /\ <<d, r>> \notin lost}
    BY DEF Holders
  <2> QED
    BY <1>1, <1>2, <2>1
<1>4. Holders' = [r \in Rows |-> IF r \in S THEN Holders[r] \ {c} ELSE Holders[r]]
  BY <1>3 DEF Holders
<1>5. Abstract!Leave(c, S)
  BY <1>4 DEF Abstract!Leave
<1>6. S \in SUBSET Rows
  OBVIOUS
<1> QED
  BY <1>5, <1>6 DEF Abstract!Next

\* with_write_lock! gives a row to one process at a time, for any numbers of them.
THEOREM Refinement == Spec => ImplementsRowLock
<1>1. IInv /\ [Next]_vars => [Abstract!Next]_Holders
  <2> SUFFICES ASSUME IInv, [Next]_vars PROVE [Abstract!Next]_Holders
    OBVIOUS
  <2>1. CASE UNCHANGED vars
    BY <2>1 DEF vars, Holders, InBlock
  <2>2. CASE Next
    BY <2>2, RefinesGrant, RefinesOther DEF Next, Step
  <2> QED
    BY <2>1, <2>2
<1> QED
  BY <1>1, RefinesInit, Invariant, PTL DEF Spec, ImplementsRowLock, Abstract!Spec

-----------------------------------------------------------------------------
(* No block waits for another process. *)

\* c has asked for the lock of a block, and no answer has come.
Asking(c) == Depth(c) > 0 /\ Top(c).phase = "asking"

\* Either answer, or the end of the process, ends the request.
LEMMA AnswerEndsRequest ==
  ASSUME TypeOK, NEW c \in Clients, Answer(c) \/ Crash(c)
  PROVE  ~Asking(c)'
<1>1. CASE LockGranted(c)
  <2>1. Depth(c) > 0 /\ Top(c) \in Block
    BY <1>1, TopOfStack DEF LockGranted
  <2>2. at[Top(c).handle] \in Rows
    BY <1>1, <2>1 DEF LockGranted, Block, TypeOK
  <2>3. [handle |-> Top(c).handle, row |-> at[Top(c).handle], phase |-> "inside"] \in Block
    BY <2>1, <2>2 DEF Block, Phases
  <2>4. Len(blocks'[c]) = Depth(c) /\ blocks'[c][Depth(c)].phase = "inside"
    BY <1>1, <2>1, <2>3, SetTopEffect DEF LockGranted
  <2> QED
    BY <2>4 DEF Asking, Depth, Top
<1>2. CASE LockRefused(c)
  <2>1. Depth(c) > 0 /\ Top(c) \in Block
    BY <1>2, TopOfStack DEF LockRefused
  <2>2. [Top(c) EXCEPT !.phase = "refused"] \in Block
        /\ [Top(c) EXCEPT !.phase = "refused"].phase = "refused"
    BY <2>1 DEF Block, Phases
  <2>3. Len(blocks'[c]) = Depth(c) /\ blocks'[c][Depth(c)].phase = "refused"
    BY <1>2, <2>1, <2>2, SetTopEffect DEF LockRefused
  <2> QED
    BY <2>3 DEF Asking, Depth, Top
<1>3. CASE Crash(c)
  <2>1. blocks'[c] = <<>>
    BY <1>3 DEF Crash, TypeOK
  <2> QED
    BY <2>1 DEF Asking, Depth
<1> QED
  BY <1>1, <1>2, <1>3 DEF Answer

\* While its request is out, a process does nothing but be answered or end, and either ends
\* the request; a step of another process leaves it as it is.  with_write_lock! (record.rb)
\* asks once, so nobody's lock can make it ask again, in whatever order blocks are nested.
THEOREM RequestsEnd ==
  Spec => [][\A c \in Clients : Asking(c) =>
               \/ (Answer(c) \/ Crash(c)) /\ ~Asking(c)'
               \/ ~Answer(c) /\ blocks'[c] = blocks[c]]_vars
<1> DEFINE A == \A c \in Clients : Asking(c) =>
                  \/ (Answer(c) \/ Crash(c)) /\ ~Asking(c)'
                  \/ ~Answer(c) /\ blocks'[c] = blocks[c]
<1>1. IInv /\ [Next]_vars => [A]_vars
  <2> SUFFICES ASSUME IInv, NEW d \in Clients, Step(d), NEW c \in Clients, Asking(c),
                      ~(Answer(c) \/ Crash(c))
               PROVE  blocks'[c] = blocks[c]
    BY AnswerEndsRequest DEF Next, Step, IInv
  <2>1. CASE d # c
    BY <2>1, OthersKept DEF IInv
  <2>2. CASE d = c
    <3>1. ~Running(c) /\ ~raising[c]
      BY DEF Asking, Running, IInv, TypeOK
    <3> QED
      BY <2>2, <3>1 DEF Step, ByHand, Lock, Unlock, Move, Session, SessionLock, SessionUnlock,
                        WithWriteLock, Begin, Leave, Raise, Rescue, Asking
  <2> QED
    BY <2>1, <2>2
<1> QED
  BY <1>1, Invariant, PTL DEF Spec
=============================================================================
