------------------------ MODULE LifecycleCarefulProofs ------------------------
(***************************************************************************)
(* What an application that keeps all the rules of Lifecycle can rely on:   *)
(* it never reaches undefined behaviour, no handle is left open with        *)
(* nothing to close it by, and a connection is a handle shared by its       *)
(* holders.  The helpers may be any that finalize their statement.          *)
(***************************************************************************)
EXTENDS LifecycleProofs

Careful == Rules = AllRules /\ Helpers \subseteq Finalizes

HeldStmts(c) == {s \in LiveStmts(c) : stmtRefs[s] > 0}

\* The calls that use their connection without holding it to the end: sqlite3_exec,
\* and the insert after it released its statement.
Borrowers == {"exec"} \cup UsesConnLast

\* Somebody holds the connection for them: a holder the application can see to, or
\* a helper further down the stack.
Pinned(k) ==
  \/ Outstanding(calls[k].conn) > 0
  \/ \E j \in DOMAIN calls : j < k /\ calls[j].kind \in HelperKinds /\ calls[j].conn = calls[k].conn

BorrowedIsPinned == \A k \in DOMAIN calls : calls[k].kind \in Borrowers => Pinned(k)

\* A statement that the application steps is still held and still runs when the step
\* returns, no other call uses it, and what runs is in a call.
StepsAreUndisturbed ==
  /\ \A k \in DOMAIN calls : calls[k].kind = "step" =>
       stmtRefs[calls[k].stmt] > 0 /\ stmt[calls[k].stmt].vdbe = "running"
  /\ \A k, l \in DOMAIN calls :
       calls[k].kind = "step" /\ calls[k].stmt = calls[l].stmt => k = l
  /\ \A s \in Stmts : stmt[s].vdbe = "running" => Running(s)

HelpersFinalize == \A k \in DOMAIN calls : calls[k].kind \in HelperKinds => calls[k].kind \in Finalizes

CInv ==
  /\ IInv
  /\ NoFault
  /\ NoHandleLeak
  /\ FreedStatementIsFinalized
  /\ BorrowedIsPinned
  /\ StepsAreUndisturbed
  /\ HelpersFinalize

-----------------------------------------------------------------------------
(* Counting what the application holds.                                      *)

LEMMA CountSome ==
  ASSUME NEW A \in SUBSET Stmts
  PROVE  /\ IsFiniteSet(A) /\ Cardinality(A) \in Nat
         /\ Cardinality(A) > 0 <=> A # {}
<1>1. IsFiniteSet(A)
  BY FS_Subset, ConstantsAssumption
<1>2. QED
  BY <1>1, FS_CardinalityType, FS_EmptySet

LEMMA OutstandingFacts ==
  ASSUME IInv, NEW c \in Conns
  PROVE  /\ Outstanding(c) = connRefs[c] + observers[c] + Cardinality(HeldStmts(c))
         /\ HeldStmts(c) \in SUBSET Stmts
         /\ Cardinality(HeldStmts(c)) \in Nat
         /\ Outstanding(c) \in Nat
         /\ Outstanding(c) <= conn[c].retainCount
<1>1. HeldStmts(c) \in SUBSET LiveStmts(c) /\ LiveStmts(c) \in SUBSET Stmts
  BY DEF HeldStmts, LiveStmts
<1>2. Cardinality(HeldStmts(c)) <= Cardinality(LiveStmts(c))
  BY <1>1, LiveStmtsFinite, FS_Subset
<1>3. Outstanding(c) = connRefs[c] + observers[c] + Cardinality(HeldStmts(c))
  BY DEF Outstanding, HeldStmts
<1>4. Cardinality(HeldStmts(c)) \in Nat
  BY <1>1, CountSome
<1>5. QED
  BY <1>1, <1>2, <1>3, <1>4, CountFacts

\* Who gains holders keeps some.
LEMMA StaysHeld ==
  ASSUME IInv, NEW c \in Conns, Outstanding(c) > 0,
         connRefs'[c] \in Nat, connRefs'[c] >= connRefs[c],
         observers'[c] \in Nat, observers'[c] >= observers[c],
         HeldStmts(c) \subseteq HeldStmts(c)'
  PROVE  Outstanding(c)' > 0
<1>1. HeldStmts(c)' \in SUBSET Stmts
  BY DEF HeldStmts, LiveStmts
<1>2. Outstanding(c)' = connRefs'[c] + observers'[c] + Cardinality(HeldStmts(c)')
  BY DEF Outstanding, HeldStmts
<1>3. /\ Cardinality(HeldStmts(c)') \in Nat
      /\ Cardinality(HeldStmts(c)') > 0 <=> HeldStmts(c)' # {}
  BY <1>1, CountSome
<1>4. /\ Cardinality(HeldStmts(c)) \in Nat
      /\ Cardinality(HeldStmts(c)) > 0 <=> HeldStmts(c) # {}
  BY OutstandingFacts, CountSome
<1>5. CASE HeldStmts(c) # {}
  <2>1. Cardinality(HeldStmts(c)') > 0
    BY <1>3, <1>5
  <2>2. QED
    BY <1>2, <1>3, <2>1
<1>6. CASE HeldStmts(c) = {}
  <2>1. Cardinality(HeldStmts(c)) = 0
    BY <1>4, <1>6
  <2>2. /\ connRefs[c] \in Nat /\ observers[c] \in Nat
        /\ Outstanding(c) = connRefs[c] + observers[c] + Cardinality(HeldStmts(c))
    BY OutstandingFacts, CountFacts
  <2>3. connRefs[c] + observers[c] > 0
    BY <2>1, <2>2
  <2>4. connRefs'[c] + observers'[c] > 0
    BY <2>2, <2>3
  <2>5. QED
    BY <1>2, <1>3, <2>4
<1>7. QED
  BY <1>5, <1>6

\* Reachable by a reference, a statement or a frame: somebody pins it.
LEMMA ReachableIsPinned ==
  ASSUME IInv, BorrowedIsPinned, StepsAreUndisturbed, NEW c \in Conns, Reachable(c)
  PROVE  \/ Outstanding(c) > 0
         \/ \E j \in DOMAIN calls : calls[j].kind \in HelperKinds /\ calls[j].conn = c
<1>1. CASE connRefs[c] > 0
  BY <1>1, OutstandingFacts, CountFacts
<1>2. ASSUME NEW s \in LiveStmts(c), stmtRefs[s] > 0
      PROVE  Outstanding(c) > 0
  <2>1. HeldStmts(c) # {}
    BY <1>2 DEF HeldStmts
  <2>2. Cardinality(HeldStmts(c)) > 0
    BY <2>1, OutstandingFacts, CountSome
  <2>3. QED
    BY <2>2, OutstandingFacts, CountFacts
<1>3. ASSUME NEW i \in DOMAIN calls, calls[i].conn = c
      PROVE  \/ Outstanding(c) > 0
             \/ \E j \in DOMAIN calls : calls[j].kind \in HelperKinds /\ calls[j].conn = c
  <2>1. calls[i] \in Frame /\ FrameIsSound(calls[i])
    BY DEF IInv, TypeOK, FramesAreSound
  <2>2. CASE calls[i].kind = "exec"
    BY <1>3, <2>2 DEF BorrowedIsPinned, Pinned, Borrowers
  <2>3. CASE calls[i].kind = "step"
    <3>1. /\ calls[i].stmt \in Stmts /\ stmt[calls[i].stmt].conn = c
          /\ stmtRefs[calls[i].stmt] > 0
      BY <1>3, <2>1, <2>3 DEF FrameIsSound, StepsAreUndisturbed
    <3>2. calls[i].stmt \in LiveStmts(c)
      BY <3>1, StmtFacts DEF LiveStmts
    <3>3. QED
      BY <1>2, <3>1, <3>2
  <2>4. CASE calls[i].kind \in HelperKinds
    BY <1>3, <2>4
  <2>5. QED
    BY <2>1, <2>2, <2>3, <2>4 DEF Frame
<1>4. QED
  BY <1>1, <1>2, <1>3 DEF Reachable

\* The frames below the top stay as they are; what is pushed is pinned.
LEMMA StaysPinned ==
  ASSUME BorrowedIsPinned, IInv,
         \A k \in DOMAIN calls \cap DOMAIN calls' :
           /\ calls'[k] = calls[k]
           /\ \A j \in DOMAIN calls : j < k => j \in DOMAIN calls' /\ calls'[j] = calls[j],
         \A k \in DOMAIN calls' \ DOMAIN calls : calls'[k].kind \in Borrowers => Pinned(k)',
         \A c \in Conns : Borrowed(c) /\ Outstanding(c) > 0 => Outstanding(c)' > 0
  PROVE  BorrowedIsPinned'
<1> SUFFICES ASSUME NEW k \in DOMAIN calls', calls'[k].kind \in Borrowers
             PROVE  Pinned(k)'
  BY DEF BorrowedIsPinned
<1>1. CASE k \in DOMAIN calls
  <2>1. calls[k].kind \in Borrowers /\ calls'[k] = calls[k] /\ Pinned(k) /\ calls[k].conn \in Conns
    BY <1>1, ConnTypes DEF BorrowedIsPinned, IInv
  <2>2. Borrowed(calls[k].conn)
    BY <1>1, <2>1 DEF Borrowed, Borrowers
  <2>3. CASE Outstanding(calls[k].conn) > 0
    <3>1. DEFINE c == calls[k].conn
    <3>2. c \in Conns /\ calls'[k].conn = c /\ Outstanding(c)' > 0
      BY <2>1, <2>2, <2>3
    <3>3. Outstanding(calls[k].conn)' > 0
      BY <3>2 DEF Outstanding, LiveStmts
    <3>4. QED
      BY <3>3 DEF Pinned
  <2>4. CASE \E j \in DOMAIN calls : j < k /\ calls[j].kind \in HelperKinds /\ calls[j].conn = calls[k].conn
    BY <1>1, <2>1, <2>4 DEF Pinned
  <2>5. QED
    BY <2>1, <2>3, <2>4 DEF Pinned
<1>2. CASE k \notin DOMAIN calls
  BY <1>2
<1>3. QED
  BY <1>1, <1>2
-----------------------------------------------------------------------------
(* What a step may do to a connection, seen from outside.                    *)

Opens(c) ==
  /\ conn[c].state = "unborn"
  /\ \/ conn' = [conn EXCEPT ![c] = [state |-> "live", retainCount |-> 1, db |-> "open"]]
     \/ conn' = [conn EXCEPT ![c] = [state |-> "freed", retainCount |-> 0, db |-> "closed"]]

Joins(c) ==
  /\ conn[c].state = "live"
  /\ conn' = [conn EXCEPT ![c].retainCount = @ + 1]

Leaves(c) ==
  /\ conn[c].state = "live"
  /\ conn[c].retainCount = 1 => conn[c].db = "open"
  /\ \E r \in ConnRecord :
       /\ conn' = [conn EXCEPT ![c] = r]
       /\ r.retainCount = conn[c].retainCount - 1
       /\ r.db = IF conn[c].retainCount = 1 THEN "closed" ELSE conn[c].db

Closes(c) ==
  /\ conn[c].state = "live" /\ conn[c].db = "open"
  /\ conn' = [conn EXCEPT ![c].db = "closed"]

SharingStep ==
  \/ UNCHANGED conn
  \/ \E c \in Conns : Opens(c) \/ Joins(c) \/ Leaves(c) \/ Closes(c)

\* The holders the abstract handle counts are the retain count.
Counts == [c \in Conns |-> conn[c].retainCount]
DBs == [c \in Conns |-> conn[c].db]

LEMMA HoldersAreCounted ==
  ASSUME IInv
  PROVE  [c \in Conns |-> connRefs[c] + observers[c] + Cardinality(LiveStmts(c))] = Counts
  BY CountFacts DEF Counts

LEMMA SharingImplements ==
  ASSUME IInv, IInv', SharingStep
  PROVE  [Shared!Next]_(Shared!sharedVars)
<1>1. /\ [c \in Conns |-> connRefs[c] + observers[c] + Cardinality(LiveStmts(c))] = Counts
      /\ [c \in Conns |-> connRefs'[c] + observers'[c] + Cardinality(LiveStmts(c)')] = Counts'
  <2>1. \A c \in Conns : conn'[c].retainCount
                           = connRefs'[c] + observers'[c] + Cardinality(LiveStmts(c)')
    BY DEF IInv, ConnCountsAreExact
  <2>2. QED
    BY <2>1, HoldersAreCounted DEF Counts
<1>2. conn \in [Conns -> ConnRecord]
  BY DEF IInv, TypeOK
<1>3. CASE UNCHANGED conn
  BY <1>1, <1>3 DEF Shared!sharedVars, Counts
<1>4. ASSUME NEW c \in Conns, Opens(c)
      PROVE  Shared!Open(c)
  <2>1. conn[c].db = "none" /\ conn[c].retainCount = 0
    BY <1>4, CountFacts DEF Opens, ConnRecord
  <2>2. CASE conn' = [conn EXCEPT ![c] = [state |-> "live", retainCount |-> 1, db |-> "open"]]
    <3>1. Counts' = [Counts EXCEPT ![c] = 1] /\ DBs' = [DBs EXCEPT ![c] = "open"]
      BY <1>2, <2>2 DEF Counts, DBs
    <3>2. QED
      BY <1>1, <2>1, <3>1 DEF Shared!Open, DBs
  <2>3. CASE conn' = [conn EXCEPT ![c] = [state |-> "freed", retainCount |-> 0, db |-> "closed"]]
    <3>1. Counts' = Counts /\ DBs' = [DBs EXCEPT ![c] = "closed"]
      BY <1>2, <2>1, <2>3 DEF Counts, DBs
    <3>2. QED
      BY <1>1, <2>1, <3>1 DEF Shared!Open, DBs
  <2>4. QED
    BY <1>4, <2>2, <2>3 DEF Opens
<1>5. ASSUME NEW c \in Conns, Joins(c)
      PROVE  Shared!Join(c)
  <2>1. conn[c].db # "none" /\ conn[c].retainCount > 0
    BY <1>5, CountFacts DEF Joins
  <2>2. Counts' = [Counts EXCEPT ![c] = @ + 1] /\ DBs' = DBs
    BY <1>2, <1>5 DEF Joins, Counts, DBs, ConnRecord
  <2>3. Counts[c] > 0 /\ DBs[c] # "none"
    BY <2>1 DEF Counts, DBs
  <2>4. QED
    BY <1>1, <2>2, <2>3 DEF Shared!Join, DBs
<1>6. ASSUME NEW c \in Conns, Leaves(c)
      PROVE  Shared!Leave(c)
  <2>1. /\ conn[c].retainCount > 0
        /\ conn[c].retainCount = 1 => conn[c].db = "open"
    BY <1>6, CountFacts DEF Leaves
  <2>2. PICK r \in ConnRecord :
          /\ conn' = [conn EXCEPT ![c] = r]
          /\ r.retainCount = conn[c].retainCount - 1
          /\ r.db = IF conn[c].retainCount = 1 THEN "closed" ELSE conn[c].db
    BY <1>6 DEF Leaves
  <2>3. Counts' = [Counts EXCEPT ![c] = @ - 1]
    BY <1>2, <2>2 DEF Counts
  <2>4. DBs' = [DBs EXCEPT ![c] = IF Counts[c] = 1 THEN "closed" ELSE @]
    BY <1>2, <2>2 DEF Counts, DBs
  <2>5. Counts[c] > 0 /\ (Counts[c] = 1 => DBs[c] = "open")
    BY <2>1 DEF Counts, DBs
  <2>6. QED
    BY <1>1, <2>3, <2>4, <2>5 DEF Shared!Leave, DBs
<1>7. ASSUME NEW c \in Conns, Closes(c)
      PROVE  Shared!CloseEarly(c)
  <2>1. conn[c].db = "open" /\ conn[c].retainCount > 0
    BY <1>7, CountFacts DEF Closes
  <2>2. Counts' = Counts /\ DBs' = [DBs EXCEPT ![c] = "closed"]
    BY <1>2, <1>7 DEF Closes, Counts, DBs, ConnRecord
  <2>3. Counts[c] > 0 /\ DBs[c] = "open"
    BY <2>1 DEF Counts, DBs
  <2>4. QED
    BY <1>1, <2>2, <2>3 DEF Shared!CloseEarly, DBs
<1>8. QED
  BY <1>3, <1>4, <1>5, <1>6, <1>7 DEF SharingStep, Shared!Next

LEMMA SharingLeaksNoHandle ==
  ASSUME IInv, IInv', NoHandleLeak, SharingStep
  PROVE  NoHandleLeak'
<1> SUFFICES ASSUME NEW d \in Conns, conn'[d].state = "freed"
             PROVE  conn'[d].db = "closed"
  BY DEF NoHandleLeak
<1>1. /\ conn \in [Conns -> ConnRecord]
      /\ conn'[d].state = "live" <=> conn'[d].retainCount > 0
      /\ conn[d].state = "live" <=> conn[d].retainCount > 0
  BY DEF IInv, TypeOK, ShapesAreSound
<1>2. conn[d].state = "freed" => conn[d].db = "closed"
  BY DEF NoHandleLeak
<1>3. CASE conn'[d] = conn[d]
  BY <1>2, <1>3
<1>4. CASE Opens(d) \/ Joins(d) \/ Closes(d)
  BY <1>1, <1>4 DEF Opens, Joins, Closes, ConnRecord
<1>5. CASE Leaves(d)
  <2>1. PICK r \in ConnRecord :
          /\ conn' = [conn EXCEPT ![d] = r]
          /\ r.retainCount = conn[d].retainCount - 1
          /\ r.db = IF conn[d].retainCount = 1 THEN "closed" ELSE conn[d].db
    BY <1>5 DEF Leaves
  <2>2. conn'[d] = r /\ r.retainCount \in Nat /\ conn[d].retainCount \in Nat
    BY <1>1, <2>1 DEF ConnRecord
  <2>3. conn[d].retainCount = 1
    BY <1>1, <1>5, <2>1, <2>2 DEF Leaves
  <2>4. QED
    BY <2>1, <2>2, <2>3
<1>6. ASSUME NEW c \in Conns, c # d, Opens(c) \/ Joins(c) \/ Leaves(c) \/ Closes(c)
      PROVE  conn'[d] = conn[d]
  BY <1>1, <1>6 DEF Opens, Joins, Leaves, Closes
<1>7. QED
  BY <1>3, <1>4, <1>5, <1>6 DEF SharingStep

-----------------------------------------------------------------------------
(* One lemma per operation: a careful application's step is sound.           *)

StaysSound ==
  /\ SharingStep
  /\ NoFault'
  /\ FreedStatementIsFinalized'
  /\ BorrowedIsPinned'
  /\ StepsAreUndisturbed'
  /\ HelpersFinalize'

KeepsHeld == \A c \in Conns : Borrowed(c) /\ Outstanding(c) > 0 => Outstanding(c)' > 0

\* A statement is left alone, nobody is using it, or it begins to run.
KeepsSteps ==
  \A t \in Stmts :
    \/ /\ stmt'[t].vdbe = stmt[t].vdbe
       /\ stmtRefs[t] > 0 => stmtRefs'[t] > 0
       /\ Running(t) => Running(t)'
    \/ /\ stmt'[t].vdbe # "running"
       /\ \A k \in DOMAIN calls \cap DOMAIN calls' : calls[k].stmt # t
    \/ ~Running(t) /\ Running(t)'

Pushes(f) ==
  /\ calls' = Append(calls, f)
  /\ f.kind \in HelperKinds => f.kind \in Finalizes
  /\ f.kind = "exec" => f.stmt = NoStmt
  /\ f.kind # "exec" => ~Running(f.stmt)
  /\ f.kind = "step" => stmtRefs'[f.stmt] > 0 /\ stmt'[f.stmt].vdbe = "running"
  /\ f.kind \in Borrowers =>
       Reachable(f.conn) /\ (Outstanding(f.conn) > 0 => Outstanding(f.conn)' > 0)

LEMMA StackIsPinned ==
  ASSUME CInv, KeepsHeld,
         \/ calls' = calls
         \/ calls # <<>> /\ calls' = Pop(calls)
         \/ \E f \in Frame : Pushes(f)
  PROVE  BorrowedIsPinned' /\ HelpersFinalize'
<1>0. IInv /\ BorrowedIsPinned /\ StepsAreUndisturbed /\ HelpersFinalize /\ calls \in Seq(Frame)
  BY DEF CInv, IInv, TypeOK
<1>1. CASE calls' = calls
  <2>1. BorrowedIsPinned'
    BY <1>0, <1>1, StaysPinned DEF KeepsHeld
  <2>2. QED
    BY <1>0, <1>1, <2>1 DEF HelpersFinalize
<1>2. CASE calls # <<>> /\ calls' = Pop(calls)
  <2>1. /\ DOMAIN calls' = DOMAIN calls \ {Len(calls)}
        /\ \A k \in DOMAIN calls' : calls'[k] = calls[k]
    BY <1>0, <1>2, PopFacts
  <2>2. \A k \in DOMAIN calls' : \A j \in DOMAIN calls : j < k => j \in DOMAIN calls'
    BY <1>0, <2>1
  <2>3. BorrowedIsPinned'
    BY <1>0, <2>1, <2>2, StaysPinned DEF KeepsHeld
  <2>4. QED
    BY <1>0, <2>1, <2>3 DEF HelpersFinalize
<1>3. ASSUME NEW f \in Frame, Pushes(f)
      PROVE  BorrowedIsPinned' /\ HelpersFinalize'
  <2>0. PICK top \in Nat : top = Len(calls) + 1
    BY <1>0
  <2>1. /\ DOMAIN calls' = DOMAIN calls \cup {top}
        /\ top \notin DOMAIN calls
        /\ calls'[top] = f
        /\ \A k \in DOMAIN calls : calls'[k] = calls[k] /\ k < top
    BY <1>0, <1>3, <2>0, PushFacts DEF Pushes
  <2>2. f.kind \in Borrowers => Pinned(top)'
    <3> SUFFICES ASSUME f.kind \in Borrowers PROVE Pinned(top)'
      OBVIOUS
    <3>1. f.conn \in Conns /\ Reachable(f.conn)
      BY <1>3 DEF Pushes, Frame
    <3>2. CASE Outstanding(f.conn) > 0
      <4>1. Outstanding(f.conn)' > 0
        BY <1>3, <3>2 DEF Pushes
      <4>2. Outstanding(calls[top].conn)' > 0
        BY <2>1, <4>1 DEF Outstanding, LiveStmts
      <4>3. QED
        BY <4>2 DEF Pinned
    <3>3. CASE \E j \in DOMAIN calls : calls[j].kind \in HelperKinds /\ calls[j].conn = f.conn
      BY <2>1, <3>3 DEF Pinned
    <3>4. QED
      BY <1>0, <3>1, <3>2, <3>3, ReachableIsPinned
  <2>3. BorrowedIsPinned'
    BY <1>0, <2>1, <2>2, StaysPinned DEF KeepsHeld
  <2>4. QED
    BY <1>0, <1>3, <2>1, <2>3 DEF HelpersFinalize, Pushes
<1>4. QED
  BY <1>1, <1>2, <1>3

LEMMA StackIsUndisturbed ==
  ASSUME CInv, KeepsSteps,
         \/ calls' = calls
         \/ calls # <<>> /\ calls' = Pop(calls)
         \/ \E f \in Frame : Pushes(f)
  PROVE  StepsAreUndisturbed'
<1>0. StepsAreUndisturbed /\ FramesAreSound /\ calls \in Seq(Frame)
  BY DEF CInv, IInv, TypeOK
<1>1. \A s \in Stmts : stmt'[s].vdbe = "running" => Running(s)'
  BY <1>0 DEF KeepsSteps, StepsAreUndisturbed
<1>2. ASSUME NEW k \in DOMAIN calls \cap DOMAIN calls', calls[k].kind = "step"
      PROVE  /\ calls[k].stmt \in Stmts
             /\ stmtRefs'[calls[k].stmt] > 0 /\ stmt'[calls[k].stmt].vdbe = "running"
  <2>1. calls[k].stmt \in Stmts /\ Running(calls[k].stmt)
    BY <1>0, <1>2 DEF FramesAreSound, FrameIsSound, Running
  <2>2. stmtRefs[calls[k].stmt] > 0 /\ stmt[calls[k].stmt].vdbe = "running"
    BY <1>0, <1>2 DEF StepsAreUndisturbed
  <2>3. QED
    BY <2>1, <2>2 DEF KeepsSteps
<1>3. CASE \/ calls' = calls
           \/ calls # <<>> /\ calls' = Pop(calls)
  <2>1. /\ DOMAIN calls' \subseteq DOMAIN calls
        /\ \A k \in DOMAIN calls' : calls'[k] = calls[k]
    BY <1>0, <1>3, PopFacts
  <2>2. \A k \in DOMAIN calls' : calls'[k].kind = "step" =>
          stmtRefs'[calls'[k].stmt] > 0 /\ stmt'[calls'[k].stmt].vdbe = "running"
    BY <1>2, <2>1
  <2>3. \A k, l \in DOMAIN calls' :
          calls'[k].kind = "step" /\ calls'[k].stmt = calls'[l].stmt => k = l
    BY <1>0, <2>1 DEF StepsAreUndisturbed
  <2>4. QED
    BY <1>1, <2>2, <2>3 DEF StepsAreUndisturbed
<1>4. ASSUME NEW f \in Frame, Pushes(f)
      PROVE  StepsAreUndisturbed'
  <2>0. PICK top \in Nat : top = Len(calls) + 1
    BY <1>0
  <2>1. /\ DOMAIN calls' = DOMAIN calls \cup {top}
        /\ top \notin DOMAIN calls
        /\ calls'[top] = f
        /\ \A k \in DOMAIN calls : calls'[k] = calls[k]
    BY <1>0, <1>4, <2>0, PushFacts DEF Pushes
  <2>2. \A k \in DOMAIN calls' : calls'[k].kind = "step" =>
          stmtRefs'[calls'[k].stmt] > 0 /\ stmt'[calls'[k].stmt].vdbe = "running"
    BY <1>2, <1>4, <2>1 DEF Pushes
  <2>3. ASSUME NEW k \in DOMAIN calls, calls[k].kind = "step" \/ f.kind = "step"
        PROVE  calls[k].stmt # f.stmt
    <3>1. CASE f.kind = "exec"
      BY <1>2, <1>4, <2>1, <2>3, <3>1, ConstantsAssumption DEF Pushes
    <3>2. CASE f.kind # "exec"
      BY <1>4, <3>2 DEF Pushes, Running
    <3>3. QED
      BY <3>1, <3>2
  <2>4. ASSUME NEW k \in DOMAIN calls', NEW l \in DOMAIN calls',
               calls'[k].kind = "step", calls'[k].stmt = calls'[l].stmt
        PROVE  k = l
    <3>1. CASE k \in DOMAIN calls /\ l \in DOMAIN calls
      BY <1>0, <2>1, <2>4, <3>1 DEF StepsAreUndisturbed
    <3>2. CASE k = top \/ l = top
      BY <2>1, <2>3, <2>4, <3>2
    <3>3. QED
      BY <2>1, <3>1, <3>2
  <2>5. QED
    BY <1>1, <2>2, <2>4 DEF StepsAreUndisturbed
<1>5. QED
  BY <1>3, <1>4

LEMMA StackIsSound ==
  ASSUME CInv, KeepsHeld, KeepsSteps,
         \/ calls' = calls
         \/ calls # <<>> /\ calls' = Pop(calls)
         \/ \E f \in Frame : Pushes(f)
  PROVE  BorrowedIsPinned' /\ StepsAreUndisturbed' /\ HelpersFinalize'
  BY StackIsPinned, StackIsUndisturbed

\* What runs goes on running when the stack stays as it is or grows.
LEMMA StillRunning ==
  ASSUME IInv, NEW s, Running(s),
         calls' = calls \/ \E f \in Frame : calls' = Append(calls, f)
  PROVE  Running(s)'
<1>0. calls \in Seq(Frame)
  BY DEF IInv, TypeOK
<1>1. \A k \in DOMAIN calls : k \in DOMAIN calls' /\ calls'[k] = calls[k]
  BY <1>0, PushFacts
<1>2. QED
  BY <1>1 DEF Running

\* Steps that touch no statement, or only hold it more.
LEMMA NobodyDisturbs ==
  ASSUME IInv,
         \A t \in Stmts : /\ stmt'[t].vdbe = stmt[t].vdbe
                          /\ stmtRefs[t] > 0 => stmtRefs'[t] > 0,
         calls' = calls \/ \E f \in Frame : calls' = Append(calls, f)
  PROVE  KeepsSteps
  BY StillRunning DEF KeepsSteps

\* When a call returns, what other calls run goes on running.
LEMMA PopKeepsRunning ==
  ASSUME IInv, calls # <<>>, calls' = Pop(calls),
         NEW t, t # Top.stmt, Running(t)
  PROVE  Running(t)'
<1>1. /\ DOMAIN calls' = DOMAIN calls \ {Len(calls)}
      /\ \A k \in DOMAIN calls' : calls'[k] = calls[k]
  BY PopFacts DEF IInv, TypeOK
<1>2. PICK k \in DOMAIN calls : calls[k].stmt = t
  BY DEF Running
<1>3. k # Len(calls)
  BY <1>2 DEF Top
<1>4. QED
  BY <1>1, <1>2, <1>3 DEF Running

\* Steps that add holders or change none keep what is held.
LEMMA NobodyLetsGo ==
  ASSUME IInv, IInv',
         \A c \in Conns : connRefs'[c] >= connRefs[c] /\ observers'[c] >= observers[c],
         \A s \in Stmts : stmtRefs[s] > 0 =>
            stmt'[s].state = "live" /\ stmt'[s].conn = stmt[s].conn /\ stmtRefs'[s] > 0
  PROVE  KeepsHeld
<1> SUFFICES ASSUME NEW c \in Conns, Outstanding(c) > 0 PROVE Outstanding(c)' > 0
  BY DEF KeepsHeld
<1>1. connRefs'[c] \in Nat /\ observers'[c] \in Nat
  BY DEF IInv, TypeOK
<1>2. HeldStmts(c) \subseteq HeldStmts(c)'
  BY DEF HeldStmts, LiveStmts
<1>3. QED
  BY <1>1, <1>2, StaysHeld

\* The operations on a connection that take nothing away.
LEMMA ConnectionOperationsAreSound ==
  ASSUME Careful, CInv, IInv', NEW c \in Conns,
         \/ ConnectionCreate(c) \/ ConnectionRetain(c) \/ ConnectionClose(c)
         \/ ObserverCreate(c) \/ BeginExec(c)
  PROVE  StaysSound
<1>0. IInv /\ NoFault /\ FreedStatementIsFinalized
  BY DEF CInv
<1>1. conn[c] \in ConnRecord /\ connRefs[c] \in Nat /\ observers[c] \in Nat
  BY <1>0, CountFacts
<1>2. MayUse(c) => conn[c].state = "live" /\ conn[c].db = "open" /\ Reachable(c)
  BY DEF MayUse, Reachable, Careful, AllRules
<1>3. UNCHANGED <<stmt, stmtRefs, fault>>
  BY <1>2 DEF ConnectionCreate, ConnectionRetain, ConnectionClose, ObserverCreate, BeginExec
<1>4. /\ connRefs \in [Conns -> Nat] /\ observers \in [Conns -> Nat]
      /\ \A s \in Stmts : stmtRefs[s] > 0 => stmt[s].state = "live"
  BY <1>0, StmtFacts DEF IInv, TypeOK
<1>5. \A d \in Conns : connRefs'[d] >= connRefs[d] /\ observers'[d] >= observers[d]
  <2>1. ConnectionCreate(c) => connRefs[c] = 0
    <3>1. ConnectionCreate(c) => conn[c].retainCount = 0
      BY <1>0, <1>1, CountFacts DEF ConnectionCreate, ConnRecord
    <3>2. QED
      BY <1>0, <3>1, CountFacts
  <2>2. CASE ConnectionCreate(c)
    BY <1>4, <2>1, <2>2 DEF ConnectionCreate
  <2>3. CASE ConnectionRetain(c) \/ ObserverCreate(c)
    BY <1>4, <2>3 DEF ConnectionRetain, ObserverCreate
  <2>4. CASE ConnectionClose(c) \/ BeginExec(c)
    BY <1>2, <1>4, <2>4 DEF ConnectionClose, BeginExec
  <2>5. QED
    BY <2>2, <2>3, <2>4
<1>6. KeepsHeld
  BY <1>0, <1>3, <1>4, <1>5, NobodyLetsGo
<1>7. \/ calls' = calls
      \/ \E f \in Frame : Pushes(f)
  <2>1. CASE BeginExec(c)
    <3> DEFINE f == [kind |-> "exec", conn |-> c, stmt |-> NoStmt]
    <3>1. f \in Frame /\ f.kind = "exec" /\ f.conn = c
      BY DEF Frame
    <3>2. /\ Reachable(c) /\ calls' = Append(calls, f)
          /\ UNCHANGED <<conn, stmt, connRefs, stmtRefs, observers>>
      BY <1>2, <2>1 DEF BeginExec
    <3>3. f.stmt = NoStmt
      OBVIOUS
    <3>4. Outstanding(c)' = Outstanding(c)
      BY <3>2 DEF Outstanding, LiveStmts
    <3>5. Outstanding(f.conn) > 0 => Outstanding(f.conn)' > 0
      BY <3>1, <3>4 DEF Outstanding, LiveStmts
    <3> HIDE DEF f
    <3>6. QED
      BY <3>1, <3>2, <3>3, <3>5 DEF Pushes, HelperKinds
  <2>2. CASE ~BeginExec(c)
    BY <1>2, <2>2 DEF ConnectionCreate, ConnectionRetain, ConnectionClose, ObserverCreate
  <2>3. QED
    BY <2>1, <2>2
<1>8. BorrowedIsPinned' /\ StepsAreUndisturbed' /\ HelpersFinalize'
  <2>1. calls' = calls \/ \E f \in Frame : calls' = Append(calls, f)
    BY <1>7 DEF Pushes
  <2>2. KeepsSteps
    BY <1>0, <1>3, <2>1, NobodyDisturbs
  <2>3. QED
    BY <1>6, <1>7, <2>2, StackIsSound
<1>9. SharingStep
  <2>1. ConnectionCreate(c) => Opens(c)
    BY DEF ConnectionCreate, Opens
  <2>2. ConnectionRetain(c) \/ ObserverCreate(c) => Joins(c)
    BY DEF ConnectionRetain, ObserverCreate, Reachable, Joins
  <2>3. ConnectionClose(c) => Closes(c)
    BY <1>2 DEF ConnectionClose, Closes
  <2>4. BeginExec(c) => UNCHANGED conn
    BY <1>2 DEF BeginExec
  <2>5. QED
    BY <2>1, <2>2, <2>3, <2>4 DEF SharingStep
<1>10. QED
  BY <1>0, <1>3, <1>8, <1>9 DEF StaysSound, NoFault, FreedStatementIsFinalized

\* The operations on a statement that do not release it.
LEMMA StatementOperationsAreSound ==
  ASSUME Careful, CInv, IInv', NEW s \in Stmts,
         \/ StatementRetain(s) \/ StatementReset(s) \/ StatementClearBindings(s)
         \/ StatementFinalize(s) \/ BeginStep(s)
  PROVE  StaysSound
<1>0. IInv /\ NoFault /\ FreedStatementIsFinalized /\ StepsAreUndisturbed
  BY DEF CInv
<1>1. MayTouch(s) => /\ stmtRefs[s] > 0 /\ ~Running(s)
                     /\ stmt[s].vdbe # "finalized" /\ stmt[s].vdbe # "running"
  BY <1>0 DEF MayTouch, Careful, AllRules, StepsAreUndisturbed
<1>2. stmtRefs[s] > 0 /\ ~StatementClearBindings(s)
  BY <1>1 DEF StatementRetain, StatementReset, StatementClearBindings, StatementFinalize,
              BeginStep, Careful, AllRules
<1>3. stmt[s].state = "live" /\ stmt[s].conn \in Conns /\ stmtRefs[s] \in Nat
  BY <1>0, <1>2, StmtFacts
<1>4. UNCHANGED <<conn, connRefs, observers, fault>>
  BY <1>1, <1>2 DEF StatementRetain, StatementReset, StatementFinalize, BeginStep
<1>5. /\ stmt \in [Stmts -> StmtRecord] /\ stmtRefs \in [Stmts -> Nat]
      /\ connRefs \in [Conns -> Nat] /\ observers \in [Conns -> Nat]
      /\ \A t \in Stmts : stmtRefs[t] > 0 => stmt[t].state = "live"
  BY <1>0, StmtFacts DEF IInv, TypeOK
<1>6. \A t \in Stmts : /\ stmt'[t].state = stmt[t].state
                       /\ stmt'[t].conn = stmt[t].conn
                       /\ t # s => stmt'[t] = stmt[t]
                       /\ stmtRefs'[t] >= stmtRefs[t]
  <2>1. CASE StatementRetain(s)
    BY <1>5, <2>1 DEF StatementRetain, StmtRecord
  <2>2. CASE StatementReset(s) \/ StatementFinalize(s)
    BY <1>1, <1>5, <2>2 DEF StatementReset, StatementFinalize, StmtRecord
  <2>3. CASE BeginStep(s)
    BY <1>1, <1>5, <2>3 DEF BeginStep, StmtRecord
  <2>4. QED
    BY <1>2, <2>1, <2>2, <2>3
<1>7. KeepsHeld
  <2>1. \A t \in Stmts : stmtRefs[t] > 0 =>
          stmt'[t].state = "live" /\ stmt'[t].conn = stmt[t].conn /\ stmtRefs'[t] > 0
    <3>1. stmtRefs' \in [Stmts -> Nat]
      BY DEF IInv, TypeOK
    <3> SUFFICES ASSUME NEW t \in Stmts, stmtRefs[t] > 0
                 PROVE  stmt'[t].state = "live" /\ stmt'[t].conn = stmt[t].conn /\ stmtRefs'[t] > 0
      OBVIOUS
    <3>2. stmtRefs'[t] >= stmtRefs[t] /\ stmtRefs[t] \in Nat /\ stmtRefs'[t] \in Nat
      BY <1>5, <1>6, <3>1
    <3>3. QED
      BY <1>5, <1>6, <3>2
  <2>2. \A d \in Conns : connRefs'[d] >= connRefs[d] /\ observers'[d] >= observers[d]
    BY <1>4, <1>5
  <2>3. QED
    BY <1>0, <2>1, <2>2, NobodyLetsGo
<1>8. \/ calls' = calls
      \/ \E f \in Frame : Pushes(f)
  <2>1. CASE BeginStep(s)
    <3> DEFINE f == [kind |-> "step", conn |-> stmt[s].conn, stmt |-> s]
    <3>1. f \in Frame /\ f.kind = "step" /\ f.stmt = s
      BY <1>3 DEF Frame
    <3>2. calls' = Append(calls, f) /\ ~Running(s) /\ stmtRefs' = stmtRefs
      BY <1>1, <2>1 DEF BeginStep
    <3>3. stmtRefs'[s] > 0 /\ stmt'[s].vdbe = "running"
      BY <1>1, <1>2, <1>5, <2>1 DEF BeginStep, StmtRecord
    <3> HIDE DEF f
    <3>4. QED
      BY <3>1, <3>2, <3>3 DEF Pushes, HelperKinds, Borrowers, UsesConnLast
  <2>2. CASE ~BeginStep(s)
    BY <1>1, <1>2, <2>2 DEF StatementRetain, StatementReset, StatementFinalize
  <2>3. QED
    BY <2>1, <2>2
<1>9. BorrowedIsPinned' /\ StepsAreUndisturbed' /\ HelpersFinalize'
  <2>1. KeepsSteps
    <3> SUFFICES ASSUME NEW t \in Stmts
                 PROVE  \/ /\ stmt'[t].vdbe = stmt[t].vdbe
                           /\ stmtRefs[t] > 0 => stmtRefs'[t] > 0
                           /\ Running(t) => Running(t)'
                        \/ /\ stmt'[t].vdbe # "running"
                           /\ \A k \in DOMAIN calls \cap DOMAIN calls' : calls[k].stmt # t
                        \/ ~Running(t) /\ Running(t)'
      BY DEF KeepsSteps
    <3>1. Running(t) => Running(t)'
      BY <1>0, <1>8, StillRunning DEF Pushes
    <3>2. stmtRefs[t] > 0 => stmtRefs'[t] > 0
      BY <1>5, <1>6 DEF IInv, TypeOK
    <3>3. CASE t # s
      BY <1>6, <3>1, <3>2, <3>3
    <3>4. CASE t = s /\ StatementRetain(s)
      <4>1. stmt'[s].vdbe = stmt[s].vdbe
        BY <1>5, <3>4 DEF StatementRetain, StmtRecord
      <4>2. QED
        BY <3>1, <3>2, <3>4, <4>1
    <3>5. CASE t = s /\ (StatementReset(s) \/ StatementFinalize(s))
      <4>1. stmt'[s].vdbe # "running" /\ ~Running(s)
        BY <1>1, <1>5, <3>5 DEF StatementReset, StatementFinalize, StmtRecord
      <4>2. QED
        BY <3>5, <4>1 DEF Running
    <3>6. CASE t = s /\ BeginStep(s)
      <4>1. ~Running(s)
        BY <1>1, <3>6 DEF BeginStep
      <4>2. calls' = Append(calls, [kind |-> "step", conn |-> stmt[s].conn, stmt |-> s])
        BY <1>1, <3>6 DEF BeginStep
      <4>3. [kind |-> "step", conn |-> stmt[s].conn, stmt |-> s] \in Frame /\ calls \in Seq(Frame)
        BY <1>0, <1>3 DEF Frame, IInv, TypeOK
      <4>4. Len(calls) + 1 \in DOMAIN calls' /\ calls'[Len(calls) + 1].stmt = s
        BY <4>2, <4>3, PushFacts
      <4>5. Running(s)'
        BY <4>4 DEF Running
      <4>6. QED
        BY <3>6, <4>1, <4>5
    <3>7. QED
      BY <1>2, <3>3, <3>4, <3>5, <3>6
  <2>2. QED
    BY <1>7, <1>8, <2>1, StackIsSound
<1>10. FreedStatementIsFinalized'
  <2> SUFFICES ASSUME NEW t \in Stmts, stmt'[t].state = "freed"
               PROVE  stmt'[t].vdbe \in {"null", "finalized"}
    BY DEF FreedStatementIsFinalized
  <2>1. stmt'[t].state = stmt[t].state /\ (t # s => stmt'[t] = stmt[t])
    BY <1>6
  <2>2. t # s
    BY <1>3, <2>1
  <2>3. QED
    BY <1>0, <2>1, <2>2 DEF FreedStatementIsFinalized
<1>11. QED
  BY <1>0, <1>4, <1>9, <1>10 DEF StaysSound, SharingStep, NoFault

\* A step returns to its statement.
LEMMA EndStepIsSound ==
  ASSUME Careful, CInv, IInv', EndStep
  PROVE  StaysSound
<1>0. IInv /\ NoFault /\ FreedStatementIsFinalized /\ StepsAreUndisturbed
  BY DEF CInv
<1> DEFINE s == Top.stmt
<1>1. calls # <<>> /\ Top.kind = "step"
  BY DEF EndStep
<1>2. calls \in Seq(Frame) /\ Len(calls) \in DOMAIN calls
  BY <1>0, <1>1, TopFrame DEF IInv, TypeOK
<1>3. s \in Stmts /\ stmt[s].conn = Top.conn
  BY <1>0, <1>1, TopFrame DEF FrameIsSound
<1>4. stmtRefs[s] > 0 /\ stmt[s].vdbe = "running"
  BY <1>0, <1>1, <1>2 DEF StepsAreUndisturbed, Top
<1>5. stmt[s].state = "live" /\ conn[Top.conn].state = "live"
  BY <1>0, <1>3, <1>4, StmtFacts, LiveStmtCounts
<1>6. PICK result \in {"row", "idle"} : stmt' = [stmt EXCEPT ![s].vdbe = result]
  BY <1>4, <1>5 DEF EndStep
<1>7. calls # <<>> /\ Top.kind = "step" /\ calls' = Pop(calls)
      /\ UNCHANGED <<conn, connRefs, stmtRefs, observers, fault>>
  BY <1>4, <1>5 DEF EndStep
<1>8. s \in Stmts /\ stmt[s].state = "live"
  BY <1>3, <1>5
<1>9. \A k \in DOMAIN calls' : k \in DOMAIN calls /\ calls[k].stmt # s
  <2>1. DOMAIN calls' = DOMAIN calls \ {Len(calls)}
    BY <1>7, <1>2, PopFacts
  <2>2. \A k \in DOMAIN calls : calls[k].stmt = s => k = Len(calls)
    BY <1>0, <1>1, <1>2 DEF StepsAreUndisturbed, Top
  <2>3. QED
    BY <2>1, <2>2
<1>10. \A t : t # s /\ Running(t) => Running(t)'
  BY <1>0, <1>7, PopKeepsRunning
<1> HIDE DEF s
<1>11. /\ stmt \in [Stmts -> StmtRecord]
       /\ connRefs \in [Conns -> Nat] /\ observers \in [Conns -> Nat]
       /\ \A t \in Stmts : stmtRefs[t] > 0 => stmt[t].state = "live"
  BY <1>0, StmtFacts DEF IInv, TypeOK
<1>12. \A t \in Stmts : /\ stmt'[t].state = stmt[t].state
                        /\ stmt'[t].conn = stmt[t].conn
                        /\ t # s => stmt'[t] = stmt[t]
  BY <1>6, <1>8, <1>11 DEF StmtRecord
<1>13. KeepsHeld
  <2>1. \A d \in Conns : connRefs'[d] >= connRefs[d] /\ observers'[d] >= observers[d]
    BY <1>7, <1>11
  <2>2. \A t \in Stmts : stmtRefs[t] > 0 =>
          stmt'[t].state = "live" /\ stmt'[t].conn = stmt[t].conn /\ stmtRefs'[t] > 0
    <3> SUFFICES ASSUME NEW t \in Stmts, stmtRefs[t] > 0
                 PROVE  stmt'[t].state = "live" /\ stmt'[t].conn = stmt[t].conn /\ stmtRefs'[t] > 0
      OBVIOUS
    <3>1. QED
      BY <1>7, <1>11, <1>12
  <2>3. QED
    BY <1>0, <2>1, <2>2, NobodyLetsGo
<1>14. BorrowedIsPinned' /\ StepsAreUndisturbed' /\ HelpersFinalize'
  <2>1. stmt'[s].vdbe # "running"
    BY <1>6, <1>8, <1>11 DEF StmtRecord
  <2>2. KeepsSteps
    BY <1>7, <1>12, <1>9, <1>10, <2>1 DEF KeepsSteps
  <2>3. QED
    BY <1>7, <1>13, <2>2, StackIsSound
<1>15. FreedStatementIsFinalized'
  <2> SUFFICES ASSUME NEW t \in Stmts, stmt'[t].state = "freed"
               PROVE  stmt'[t].vdbe \in {"null", "finalized"}
    BY DEF FreedStatementIsFinalized
  <2>1. stmt'[t].state = stmt[t].state /\ (t # s => stmt'[t] = stmt[t])
    BY <1>12
  <2>2. t # s
    BY <1>8, <2>1
  <2>3. QED
    BY <1>0, <2>1, <2>2 DEF FreedStatementIsFinalized
<1>16. QED
  BY <1>0, <1>7, <1>14, <1>15 DEF StaysSound, SharingStep, NoFault

\* sqlite3_exec returns to a connection that is still there.
LEMMA EndExecIsSound ==
  ASSUME Careful, CInv, IInv', EndExec
  PROVE  StaysSound
<1>0. IInv /\ NoFault /\ FreedStatementIsFinalized /\ BorrowedIsPinned
  BY DEF CInv
<1>1. calls # <<>> /\ Top.kind = "exec"
  BY DEF EndExec
<1>2. Len(calls) \in DOMAIN calls /\ calls[Len(calls)] \in Frame
  BY <1>0, <1>1, PopFacts DEF IInv, TypeOK
<1>3. Top.conn \in Conns
  BY <1>2 DEF Top, Frame
<1>4. conn[Top.conn].state = "live"
  <2>1. Pinned(Len(calls))
    BY <1>0, <1>1, <1>2 DEF BorrowedIsPinned, Borrowers, Top
  <2>2. CASE Outstanding(Top.conn) > 0
    BY <1>0, <1>3, <2>2, OutstandingFacts, CountFacts DEF ConnRecord
  <2>3. CASE \E j \in DOMAIN calls : calls[j].kind \in HelperKinds /\ calls[j].conn = Top.conn
    <3>1. PICK j \in DOMAIN calls : calls[j].kind \in HelperKinds /\ calls[j].conn = Top.conn
      BY <2>3
    <3>2. FrameIsSound(calls[j]) /\ calls[j].kind # "exec"
      BY <1>0, <3>1 DEF IInv, FramesAreSound, HelperKinds
    <3>3. /\ calls[j].stmt \in Stmts /\ stmt[calls[j].stmt].state = "live"
          /\ stmt[calls[j].stmt].conn = Top.conn
      BY <3>1, <3>2 DEF FrameIsSound
    <3>4. QED
      BY <1>0, <3>3, LiveStmtCounts
  <2>4. QED
    BY <2>1, <2>2, <2>3 DEF Pinned, Top
<1>5. calls' = Pop(calls) /\ UNCHANGED <<conn, stmt, connRefs, stmtRefs, observers, fault>>
  BY <1>4 DEF EndExec
<1>6. KeepsHeld
  BY <1>5 DEF KeepsHeld, Outstanding, LiveStmts
<1>7. BorrowedIsPinned' /\ StepsAreUndisturbed' /\ HelpersFinalize'
  <2>1. Top.stmt \notin Stmts
    BY <1>0, <1>1, TopFrame, ConstantsAssumption DEF FrameIsSound
  <2>2. \A t \in Stmts : Running(t) => Running(t)'
    BY <1>0, <1>1, <1>5, <2>1, PopKeepsRunning
  <2>3. KeepsSteps
    BY <1>5, <2>2 DEF KeepsSteps
  <2>4. QED
    BY <1>1, <1>5, <1>6, <2>3, StackIsSound
<1>8. QED
  BY <1>0, <1>5, <1>7 DEF StaysSound, SharingStep, NoFault, FreedStatementIsFinalized

\* A statement is made, for the application or for a helper.
LEMMA AllocationIsSound ==
  ASSUME Careful, CInv, IInv', NEW s \in Stmts, NEW c \in Conns,
         NEW v \in {"null", "idle", "running"},
         stmt[s].state = "unborn", conn[c].state = "live", conn[c].db = "open",
         Allocate(s, c, v),
         UNCHANGED <<connRefs, observers, fault>>,
         \A t \in Stmts : stmtRefs'[t] >= stmtRefs[t],
         \/ calls' = calls /\ v # "running"
         \/ \E f \in Frame : Pushes(f) /\ f.stmt = s
  PROVE  StaysSound
<1>0. IInv /\ NoFault /\ FreedStatementIsFinalized
  BY DEF CInv
<1>1. /\ \A t \in Stmts \ {s} : stmt'[t] = stmt[t]
      /\ stmt'[s].state = "live" /\ stmt'[s].vdbe = v
  BY <1>0, AllocateFacts
<1>2. /\ stmtRefs \in [Stmts -> Nat] /\ stmtRefs' \in [Stmts -> Nat]
      /\ connRefs \in [Conns -> Nat] /\ observers \in [Conns -> Nat]
      /\ \A t \in Stmts : stmtRefs[t] > 0 => stmt[t].state = "live"
  BY <1>0, StmtFacts DEF IInv, TypeOK
<1>3. KeepsHeld
  <2>1. \A t \in Stmts : stmtRefs[t] > 0 =>
          stmt'[t].state = "live" /\ stmt'[t].conn = stmt[t].conn /\ stmtRefs'[t] > 0
    BY <1>1, <1>2
  <2>2. \A d \in Conns : connRefs'[d] >= connRefs[d] /\ observers'[d] >= observers[d]
    BY <1>2
  <2>3. QED
    BY <1>0, <2>1, <2>2, NobodyLetsGo
<1>4. BorrowedIsPinned' /\ StepsAreUndisturbed' /\ HelpersFinalize'
  <2>1. ~Running(s)
    BY <1>0, UnbornFacts
  <2>2. (calls' = calls /\ v # "running") \/ Running(s)'
    <3>1. CASE \E f \in Frame : Pushes(f) /\ f.stmt = s
      <4>1. PICK f \in Frame : Pushes(f) /\ f.stmt = s
        BY <3>1
      <4>2. calls \in Seq(Frame) /\ calls' = Append(calls, f)
        BY <1>0, <4>1 DEF Pushes, IInv, TypeOK
      <4>3. Len(calls) + 1 \in DOMAIN calls' /\ calls'[Len(calls) + 1].stmt = s
        BY <4>1, <4>2, PushFacts
      <4>4. QED
        BY <4>3 DEF Running
    <3>2. QED
      BY <3>1
  <2>3. calls' = calls \/ \E f \in Frame : calls' = Append(calls, f)
    BY DEF Pushes
  <2>4. KeepsSteps
    <3> SUFFICES ASSUME NEW t \in Stmts
                 PROVE  \/ /\ stmt'[t].vdbe = stmt[t].vdbe
                           /\ stmtRefs[t] > 0 => stmtRefs'[t] > 0
                           /\ Running(t) => Running(t)'
                        \/ /\ stmt'[t].vdbe # "running"
                           /\ \A k \in DOMAIN calls \cap DOMAIN calls' : calls[k].stmt # t
                        \/ ~Running(t) /\ Running(t)'
      BY DEF KeepsSteps
    <3>1. CASE t = s
      <4>1. CASE calls' = calls /\ v # "running"
        BY <1>1, <2>1, <3>1, <4>1 DEF Running
      <4>2. QED
        BY <2>1, <2>2, <3>1, <4>1
    <3>2. CASE t # s
      <4>1. Running(t) => Running(t)'
        BY <1>0, <2>3, StillRunning
      <4>2. stmtRefs[t] > 0 => stmtRefs'[t] > 0
        BY <1>2
      <4>3. QED
        BY <1>1, <3>2, <4>1, <4>2
    <3>3. QED
      BY <3>1, <3>2
  <2>5. QED
    BY <1>3, <2>4, StackIsSound
<1>5. FreedStatementIsFinalized'
  BY <1>0, <1>1 DEF FreedStatementIsFinalized
<1>6. Joins(c)
  BY DEF Allocate, Joins
<1>7. QED
  BY <1>0, <1>4, <1>5, <1>6 DEF StaysSound, SharingStep, NoFault

LEMMA StatementCreateIsSound ==
  ASSUME Careful, CInv, IInv', NEW s \in Stmts, NEW c \in Conns, StatementCreate(s, c)
  PROVE  StaysSound
<1>1. stmt[s].state = "unborn" /\ conn[c].state = "live" /\ conn[c].db = "open"
  BY DEF StatementCreate, MayUse, Reachable, Careful, AllRules
<1>2. PICK v \in {"idle", "null"} :
        /\ Allocate(s, c, v)
        /\ stmtRefs' = [stmtRefs EXCEPT ![s] = 1]
        /\ UNCHANGED <<connRefs, observers, calls, fault>>
  BY <1>1 DEF StatementCreate
<1>3. stmtRefs[s] = 0 /\ stmtRefs \in [Stmts -> Nat]
  BY <1>1, UnbornFacts DEF CInv, IInv, TypeOK
<1>4. \A t \in Stmts : stmtRefs'[t] >= stmtRefs[t]
  BY <1>2, <1>3
<1>5. UNCHANGED <<connRefs, observers, fault>>
  BY <1>2
<1>6. QED
  BY <1>1, <1>2, <1>4, <1>5, AllocationIsSound

LEMMA BeginHelperIsSound ==
  ASSUME Careful, CInv, IInv', NEW kind \in Helpers, NEW s \in Stmts, NEW c \in Conns,
         BeginHelper(kind, s, c)
  PROVE  StaysSound
<1>1. /\ stmt[s].state = "unborn" /\ conn[c].state = "live" /\ conn[c].db = "open"
      /\ kind \in Finalizes
  BY ConstantsAssumption DEF BeginHelper, MayUse, Reachable, Careful, AllRules
<1> DEFINE f == [kind |-> kind, conn |-> c, stmt |-> s]
<1>2. CASE /\ Allocate(s, c, "running")
           /\ calls' = Append(calls, f)
           /\ UNCHANGED <<connRefs, stmtRefs, observers, fault>>
  <2>1. /\ f \in Frame /\ f.kind = kind /\ f.kind \in Finalizes
        /\ f.kind # "exec" /\ f.kind # "step"
        /\ f.stmt = s /\ f.conn = c
    BY <1>1 DEF Frame, HelperKinds, Finalizes
  <2>2. calls' = Append(calls, f) /\ UNCHANGED <<connRefs, stmtRefs, observers, fault>>
    BY <1>2
  <2> HIDE DEF f
  <2>3. Pushes(f)
    <3>1. ~Running(s) /\ Reachable(c)
      BY <1>1, UnbornFacts DEF CInv, BeginHelper, MayUse
    <3>2. HeldStmts(c)' = HeldStmts(c)
      <4>1. stmtRefs[s] = 0 /\ \A t \in Stmts \ {s} : stmt'[t] = stmt[t]
        BY <1>1, <1>2, UnbornFacts, AllocateFacts DEF CInv
      <4>2. QED
        BY <2>2, <4>1 DEF HeldStmts, LiveStmts
    <3>3. Outstanding(c)' = Outstanding(c)
      BY <2>2, <3>2 DEF Outstanding, HeldStmts
    <3>4. Outstanding(f.conn) > 0 => Outstanding(f.conn)' > 0
      BY <2>1, <3>3 DEF Outstanding, LiveStmts
    <3>5. QED
      BY <2>1, <2>2, <3>1, <3>4 DEF Pushes
  <2>4. \A t \in Stmts : stmtRefs'[t] >= stmtRefs[t]
    BY <2>2 DEF CInv, IInv, TypeOK
  <2>5. QED
    BY <1>1, <1>2, <2>1, <2>2, <2>3, <2>4, AllocationIsSound
<1>3. CASE UNCHANGED vars
  <2>1. UNCHANGED <<conn, stmt, connRefs, stmtRefs, observers, calls, fault>>
    BY <1>3 DEF vars
  <2>2. KeepsHeld
    BY <2>1 DEF KeepsHeld, Outstanding, LiveStmts
  <2>3. KeepsSteps
    BY <2>1, NobodyDisturbs DEF CInv
  <2>4. BorrowedIsPinned' /\ StepsAreUndisturbed' /\ HelpersFinalize'
    BY <2>1, <2>2, <2>3, StackIsSound
  <2>5. QED
    BY <2>1, <2>4 DEF CInv, StaysSound, SharingStep, NoFault, FreedStatementIsFinalized
<1>4. ~(\E outcome \in Outcomes(kind) : \/ outcome = "error" /\ kind \notin ChecksForNull
                                        \/ outcome = "empty" /\ kind \in ClearsBindings)
  BY DEF Outcomes, Careful, AllRules
<1>5. QED
  BY <1>1, <1>2, <1>3, <1>4 DEF BeginHelper

-----------------------------------------------------------------------------
(* The operations that take a holder away.                                   *)

\* The handle has no unfinalized statement when those that are live have none.
LEMMA NothingUnfinalized ==
  ASSUME CInv, NEW c \in Conns, NEW S, ~Executing(c),
         \A t \in LiveStmts(c) : t \in S \/ stmt[t].vdbe \in {"null", "finalized"}
  PROVE  ~UnfinalizedBut(c, S)
<1> SUFFICES ASSUME NEW t \in Stmts, t \notin S, stmt[t].conn = c,
                    stmt[t].vdbe \in Compiled
             PROVE  FALSE
  BY DEF UnfinalizedBut
<1>1. stmt[t].state \in {"unborn", "live", "freed"}
  BY StmtFacts DEF CInv, StmtRecord
<1>2. stmt[t].state # "unborn"
  BY StmtFacts DEF CInv, Compiled
<1>3. stmt[t].state # "freed"
  BY DEF CInv, FreedStatementIsFinalized, Compiled
<1>4. t \notin LiveStmts(c)
  BY DEF Compiled
<1>5. QED
  BY <1>1, <1>2, <1>3, <1>4 DEF LiveStmts

LEMMA DropIsLeave ==
  ASSUME IInv, NEW c \in Conns, NEW S, DropConnection(c, S), conn[c].state = "live",
         conn[c].retainCount = 1 => conn[c].db = "open" /\ ~UnfinalizedBut(c, S)
  PROVE  Leaves(c)
<1>1. conn[c].retainCount > 0 /\ conn[c].retainCount \in Nat
  BY CountFacts DEF ConnRecord
<1> DEFINE r == Dropped(c, S)
<1>2. /\ conn' = [conn EXCEPT ![c] = r]
      /\ r \in ConnRecord
      /\ r.retainCount = conn[c].retainCount - 1
  BY <1>1, DroppedFacts
<1>3. r.db = IF conn[c].retainCount = 1 THEN "closed" ELSE conn[c].db
  <2>1. CASE conn[c].retainCount = 1
    BY <2>1 DEF Dropped
  <2>2. CASE conn[c].retainCount # 1
    BY <1>1, <2>2, CountFacts DEF Dropped, ConnRecord
  <2>3. QED
    BY <2>1, <2>2
<1> HIDE DEF r
<1>4. QED
  BY <1>2, <1>3 DEF Leaves

\* The last holder is a statement: there is no other holder.
LEMMA LastIsAlone ==
  ASSUME IInv, NEW c \in Conns, NEW s \in LiveStmts(c), conn[c].retainCount = 1
  PROVE  /\ LiveStmts(c) = {s}
         /\ stmtRefs[s] = 0 => Outstanding(c) = 0
<1>1. /\ connRefs[c] \in Nat /\ observers[c] \in Nat
      /\ Cardinality(LiveStmts(c)) \in Nat /\ IsFiniteSet(LiveStmts(c))
      /\ 1 = connRefs[c] + observers[c] + Cardinality(LiveStmts(c))
  BY CountFacts, LiveStmtsFinite
<1>2. Cardinality(LiveStmts(c) \ {s}) = Cardinality(LiveStmts(c)) - 1
  BY <1>1, FS_RemoveElement
<1>3. LiveStmts(c) \ {s} \in SUBSET Stmts
  BY DEF LiveStmts
<1>4. /\ Cardinality(LiveStmts(c) \ {s}) \in Nat
      /\ Cardinality(LiveStmts(c) \ {s}) > 0 <=> LiveStmts(c) \ {s} # {}
  BY <1>3, CountSome
<1>5. Cardinality(LiveStmts(c)) = 1 /\ connRefs[c] = 0 /\ observers[c] = 0
  BY <1>1, <1>2, <1>4
<1>6. LiveStmts(c) = {s}
  BY <1>2, <1>4, <1>5
<1>7. ASSUME stmtRefs[s] = 0 PROVE Outstanding(c) = 0
  <2>1. HeldStmts(c) = {}
    BY <1>6, <1>7 DEF HeldStmts
  <2>2. Cardinality(HeldStmts(c)) = 0
    BY <2>1, FS_EmptySet
  <2>3. QED
    BY <1>5, <2>2, OutstandingFacts
<1>8. QED
  BY <1>6, <1>7

LEMMA ConnectionReleaseIsSound ==
  ASSUME Careful, CInv, IInv', NEW c \in Conns, ConnectionRelease(c)
  PROVE  StaysSound
<1>0. IInv /\ NoFault /\ FreedStatementIsFinalized
  BY DEF CInv
<1>1. /\ connRefs[c] > 0
      /\ conn[c].db = "open" \/ Outstanding(c) > 1
      /\ ~Borrowed(c) \/ Outstanding(c) > 1
  BY DEF ConnectionRelease, MayDrop, Careful, AllRules
<1>2. /\ conn[c].retainCount \in Nat /\ connRefs[c] \in Nat /\ observers[c] \in Nat
      /\ Cardinality(LiveStmts(c)) \in Nat
      /\ conn[c].retainCount = connRefs[c] + observers[c] + Cardinality(LiveStmts(c))
  BY <1>0, CountFacts DEF ConnRecord
<1>3. conn[c].retainCount > 0
  BY <1>1, <1>2
<1>4. Outstanding(c) \in Nat /\ Outstanding(c) <= conn[c].retainCount
  BY <1>0, OutstandingFacts
<1>5. ~ClosesTwice(c)
  BY <1>1, <1>2, <1>4 DEF ClosesTwice
<1>6. /\ DropConnection(c, {})
      /\ connRefs' = [connRefs EXCEPT ![c] = @ - 1]
      /\ UNCHANGED <<stmt, stmtRefs, observers, calls, fault>>
  BY <1>5 DEF ConnectionRelease
<1>7. conn[c].retainCount = 1 => conn[c].db = "open" /\ ~UnfinalizedBut(c, {})
  <2> SUFFICES ASSUME conn[c].retainCount = 1
               PROVE  conn[c].db = "open" /\ ~UnfinalizedBut(c, {})
    OBVIOUS
  <2>1. conn[c].db = "open" /\ ~Executing(c)
    BY <1>1, <1>4 DEF Executing, Borrowed
  <2>2. Cardinality(LiveStmts(c)) = 0
    BY <1>1, <1>2
  <2>3. LiveStmts(c) = {}
    <3>1. LiveStmts(c) \in SUBSET Stmts
      BY DEF LiveStmts
    <3>2. QED
      BY <2>2, <3>1, CountSome
  <2>4. QED
    BY <2>1, <2>3, NothingUnfinalized
<1>8. Leaves(c)
  BY <1>0, <1>3, <1>6, <1>7, CountFacts, DropIsLeave
<1>9. KeepsHeld
  <2> SUFFICES ASSUME NEW d \in Conns, Borrowed(d), Outstanding(d) > 0
               PROVE  Outstanding(d)' > 0
    BY DEF KeepsHeld
  <2>1. /\ Outstanding(d) = connRefs[d] + observers[d] + Cardinality(HeldStmts(d))
        /\ Outstanding(d)' = connRefs'[d] + observers[d] + Cardinality(HeldStmts(d))
    BY <1>6 DEF Outstanding, HeldStmts, LiveStmts
  <2>2. Cardinality(HeldStmts(d)) \in Nat /\ connRefs[d] \in Nat /\ observers[d] \in Nat
    BY <1>0, OutstandingFacts, CountFacts
  <2>3. CASE d = c
    <3>1. Outstanding(d) > 1
      BY <1>1, <2>3
    <3>2. connRefs'[d] = connRefs[d] - 1
      BY <1>0, <1>6, <2>3 DEF IInv, TypeOK
    <3>3. QED
      BY <2>1, <2>2, <3>1, <3>2
  <2>4. CASE d # c
    <3>1. connRefs'[d] = connRefs[d]
      BY <1>0, <1>6, <2>4 DEF IInv, TypeOK
    <3>2. QED
      BY <2>1, <3>1
  <2>5. QED
    BY <2>3, <2>4
<1>10. BorrowedIsPinned' /\ StepsAreUndisturbed' /\ HelpersFinalize'
  <2>1. KeepsSteps
    BY <1>0, <1>6, NobodyDisturbs
  <2>2. QED
    BY <1>6, <1>9, <2>1, StackIsSound
<1>11. QED
  BY <1>0, <1>6, <1>8, <1>10 DEF StaysSound, SharingStep, NoFault, FreedStatementIsFinalized

\* A statement is freed with its Vdbe finalized, or never had one.
LEMMA FreedIsFinalized ==
  ASSUME CInv, NEW s \in Stmts, NEW v \in {"null", "finalized"},
         stmt' = [stmt EXCEPT ![s] = [state |-> "freed", retainCount |-> @.retainCount - 1,
                                      conn |-> @.conn, vdbe |-> v]]
  PROVE  /\ FreedStatementIsFinalized'
         /\ stmt'[s].state = "freed"
         /\ \A t \in Stmts \ {s} : stmt'[t] = stmt[t]
<1>1. stmt \in [Stmts -> StmtRecord] /\ FreedStatementIsFinalized
  BY DEF CInv, IInv, TypeOK
<1>2. /\ stmt'[s].state = "freed" /\ stmt'[s].vdbe = v
      /\ \A t \in Stmts \ {s} : stmt'[t] = stmt[t]
  BY <1>1
<1>3. QED
  BY <1>1, <1>2 DEF FreedStatementIsFinalized

LEMMA StatementReleaseIsSound ==
  ASSUME Careful, CInv, IInv', NEW s \in Stmts, StatementRelease(s)
  PROVE  StaysSound
<1>0. IInv /\ NoFault /\ FreedStatementIsFinalized /\ StepsAreUndisturbed
  BY DEF CInv
<1> DEFINE c == stmt[s].conn
<1>1. /\ stmtRefs[s] > 0
      /\ stmt[s].retainCount = 1 => MayDrop(c) /\ stmt[s].vdbe \in {"null", "finalized"}
  BY DEF StatementRelease, Careful, AllRules
<1>2. /\ stmt[s].state = "live" /\ stmtRefs[s] \in Nat
      /\ stmt[s].retainCount = stmtRefs[s]
  BY <1>0, <1>1, StmtFacts, HeldIsNotPrivate
<1>3. /\ c \in Conns /\ conn[c].state = "live" /\ conn[c].retainCount > 0
      /\ s \in LiveStmts(c) /\ s \in HeldStmts(c)
  BY <1>0, <1>1, <1>2, LiveStmtCounts DEF LiveStmts, HeldStmts
<1>4. Outstanding(c) \in Nat /\ Outstanding(c) <= conn[c].retainCount /\ conn[c].retainCount \in Nat
  BY <1>0, <1>3, OutstandingFacts, CountFacts DEF ConnRecord
<1>5. stmtRefs \in [Stmts -> Nat] /\ stmt \in [Stmts -> StmtRecord]
  BY <1>0 DEF IInv, TypeOK
<1>6. CASE stmt[s].retainCount # 1
  <2>1. /\ stmt' = [stmt EXCEPT ![s].retainCount = @ - 1, ![s].vdbe = stmt[s].vdbe]
        /\ stmtRefs' = [stmtRefs EXCEPT ![s] = @ - 1]
        /\ UNCHANGED <<conn, connRefs, observers, calls, fault>>
    BY <1>1, <1>2, <1>6 DEF StatementRelease, DropStatement
  <2>2. /\ stmt'[s].state = stmt[s].state /\ stmt'[s].conn = stmt[s].conn
        /\ stmtRefs'[s] = stmtRefs[s] - 1
        /\ \A t \in Stmts \ {s} : stmt'[t] = stmt[t] /\ stmtRefs'[t] = stmtRefs[t]
    BY <1>5, <2>1 DEF StmtRecord
  <2>3. \A t \in Stmts : stmtRefs[t] > 0 =>
          stmt'[t].state = "live" /\ stmt'[t].conn = stmt[t].conn /\ stmtRefs'[t] > 0
    BY <1>0, <1>1, <1>2, <1>6, <2>2, StmtFacts
  <2>4. \A d \in Conns : connRefs'[d] >= connRefs[d] /\ observers'[d] >= observers[d]
    BY <1>0, <2>1 DEF IInv, TypeOK
  <2>5. KeepsHeld
    BY <1>0, <2>3, <2>4, NobodyLetsGo
  <2>6. BorrowedIsPinned' /\ StepsAreUndisturbed' /\ HelpersFinalize'
    <3>1. \A t \in Stmts : stmt'[t].vdbe = stmt[t].vdbe
      BY <1>5, <2>1 DEF StmtRecord
    <3>2. KeepsSteps
      BY <1>0, <2>1, <2>3, <3>1, NobodyDisturbs
    <3>3. QED
      BY <2>1, <2>5, <3>2, StackIsSound
  <2>7. FreedStatementIsFinalized'
    BY <1>0, <1>2, <2>2 DEF FreedStatementIsFinalized
  <2>8. QED
    BY <1>0, <2>1, <2>6, <2>7 DEF StaysSound, SharingStep, NoFault
<1>7. CASE stmt[s].retainCount = 1
  <2> DEFINE S == IF stmt[s].vdbe = "finalized" THEN {s} ELSE {}
  <2>1. /\ conn[c].db = "open" \/ Outstanding(c) > 1
        /\ ~Borrowed(c) \/ Outstanding(c) > 1
        /\ stmt[s].vdbe \in {"null", "finalized"}
    BY <1>1, <1>7 DEF MayDrop, Careful, AllRules
  <2>2. ~ClosesTwice(c)
    BY <1>4, <2>1 DEF ClosesTwice
  <2>3. /\ DropConnection(c, S)
        /\ stmt' = [stmt EXCEPT ![s] = [state |-> "freed", retainCount |-> @.retainCount - 1,
                                        conn |-> @.conn, vdbe |-> stmt[s].vdbe]]
        /\ stmtRefs' = [stmtRefs EXCEPT ![s] = @ - 1]
        /\ UNCHANGED <<connRefs, observers, calls, fault>>
    BY <1>7, <2>2 DEF StatementRelease, DropStatement
  <2>4. conn[c].retainCount = 1 => conn[c].db = "open" /\ ~UnfinalizedBut(c, S)
    <3> SUFFICES ASSUME conn[c].retainCount = 1
                 PROVE  conn[c].db = "open" /\ ~UnfinalizedBut(c, S)
      OBVIOUS
    <3>1. conn[c].db = "open" /\ ~Executing(c)
      BY <1>4, <2>1 DEF Executing, Borrowed
    <3>2. LiveStmts(c) = {s}
      BY <1>0, <1>3, LastIsAlone
    <3>3. \A t \in LiveStmts(c) : stmt[t].vdbe \in {"null", "finalized"}
      BY <2>1, <3>2
    <3> HIDE DEF S
    <3>4. QED
      BY <1>3, <3>1, <3>3, NothingUnfinalized
  <2> HIDE DEF S
  <2>5. Leaves(c)
    BY <1>0, <1>3, <2>3, <2>4, DropIsLeave
  <2>6. /\ FreedStatementIsFinalized' /\ stmt'[s].state = "freed"
        /\ \A t \in Stmts \ {s} : stmt'[t] = stmt[t]
    BY <2>1, <2>3, FreedIsFinalized
  <2>7. KeepsHeld
    <3> SUFFICES ASSUME NEW d \in Conns, Borrowed(d), Outstanding(d) > 0
                 PROVE  Outstanding(d)' > 0
      BY DEF KeepsHeld
    <3>1. /\ Outstanding(d) = connRefs[d] + observers[d] + Cardinality(HeldStmts(d))
          /\ Outstanding(d)' = connRefs[d] + observers[d] + Cardinality(HeldStmts(d)')
      BY <2>3 DEF Outstanding, HeldStmts
    <3>2. /\ Cardinality(HeldStmts(d)) \in Nat /\ IsFiniteSet(HeldStmts(d))
          /\ connRefs[d] \in Nat /\ observers[d] \in Nat
      BY <1>0, OutstandingFacts, CountSome, CountFacts
    <3>3. HeldStmts(d)' = HeldStmts(d) \ {s}
      BY <1>5, <2>3, <2>6 DEF HeldStmts, LiveStmts
    <3>4. CASE d = c
      <4>1. s \in HeldStmts(d)
        BY <1>3, <3>4
      <4>2. Cardinality(HeldStmts(d)') = Cardinality(HeldStmts(d)) - 1
        BY <3>2, <3>3, <4>1, FS_RemoveElement
      <4>3. Outstanding(d) > 1
        BY <2>1, <3>4
      <4>4. QED
        BY <3>1, <3>2, <4>2, <4>3
    <3>5. CASE d # c
      <4>1. HeldStmts(d)' = HeldStmts(d)
        BY <3>3, <3>5 DEF HeldStmts, LiveStmts
      <4>2. QED
        BY <3>1, <4>1
    <3>6. QED
      BY <3>4, <3>5
  <2>8. BorrowedIsPinned' /\ StepsAreUndisturbed' /\ HelpersFinalize'
    <3>1. ~Running(s)
      <4> SUFFICES ASSUME NEW k \in DOMAIN calls, calls[k].stmt = s PROVE FALSE
        BY DEF Running
      <4>1. calls[k] \in Frame /\ FrameIsSound(calls[k])
        BY <1>0 DEF IInv, TypeOK, FramesAreSound
      <4>2. calls[k].kind # "step"
        BY <1>0, <2>1 DEF StepsAreUndisturbed
      <4>3. calls[k].kind # "exec"
        BY <4>1, ConstantsAssumption DEF FrameIsSound
      <4>4. calls[k].kind \notin HelperKinds
        BY <1>1, <4>1 DEF FrameIsSound
      <4>5. QED
        BY <4>1, <4>2, <4>3, <4>4 DEF Frame
    <3>2. stmt'[s].vdbe = stmt[s].vdbe /\ stmtRefs' = [stmtRefs EXCEPT ![s] = @ - 1] /\ calls' = calls
      BY <1>5, <2>3
    <3>3. stmt'[s].vdbe # "running"
      BY <2>1, <3>2
    <3>4. \A t \in Stmts \ {s} : stmtRefs'[t] = stmtRefs[t] /\ (Running(t) => Running(t)')
      BY <1>0, <1>5, <3>2, StillRunning
    <3>5. KeepsSteps
      BY <2>6, <3>1, <3>3, <3>4 DEF KeepsSteps, Running
    <3>6. QED
      BY <2>7, <3>2, <3>5, StackIsSound
  <2>9. QED
    BY <1>0, <1>3, <2>3, <2>5, <2>6, <2>8 DEF StaysSound, SharingStep, NoFault
<1>8. QED
  BY <1>6, <1>7

\* An insert that returns has somebody else who holds its connection, so that it can
\* use it after it released its statement.
LEMMA InsertOutlivesItsStatement ==
  ASSUME CInv, calls # <<>>, Top.kind \in HelperKinds
  PROVE  ~(Top.kind \in UsesConnLast /\ conn[Top.conn].retainCount = 1)
<1> SUFFICES ASSUME Top.kind \in UsesConnLast, conn[Top.conn].retainCount = 1
             PROVE  FALSE
  OBVIOUS
<1>0. IInv /\ BorrowedIsPinned
  BY DEF CInv
<1>1. calls \in Seq(Frame) /\ Len(calls) \in DOMAIN calls
  BY <1>0, PopFacts DEF IInv, TypeOK
<1>2. PICK c \in Conns : c = Top.conn
  BY <1>0, TopFrame DEF Frame
<1>3. PICK s \in Stmts : s = Top.stmt /\ s \in LiveStmts(c) /\ stmtRefs[s] = 0
  <2>1. Top.kind # "exec" /\ FrameIsSound(Top)
    BY <1>0, TopFrame DEF HelperKinds
  <2>2. QED
    BY <1>2, <2>1 DEF FrameIsSound, LiveStmts
<1>4. LiveStmts(c) = {s} /\ Outstanding(c) = 0
  BY <1>0, <1>2, <1>3, LastIsAlone
<1>5. Pinned(Len(calls))
  BY <1>0, <1>1 DEF BorrowedIsPinned, Borrowers, Top
<1>6. PICK j \in DOMAIN calls : j < Len(calls) /\ calls[j].kind \in HelperKinds /\ calls[j].conn = c
  <2>1. ~(Outstanding(calls[Len(calls)].conn) > 0)
    BY <1>2, <1>4 DEF Top, Outstanding, LiveStmts
  <2>2. QED
    BY <1>2, <1>5, <2>1 DEF Pinned, Top
<1>7. calls[j].kind # "exec" /\ FrameIsSound(calls[j])
  BY <1>0, <1>6 DEF IInv, FramesAreSound, HelperKinds
<1>8. calls[j].stmt = s
  BY <1>4, <1>6, <1>7 DEF FrameIsSound, LiveStmts
<1>9. j = Len(calls)
  BY <1>0, <1>1, <1>3, <1>6, <1>8 DEF IInv, HelpersAreAlone, Top
<1>10. QED
  BY <1>1, <1>6, <1>9

\* The helper that returns was the last holder of its statement, and not the last
\* of a connection that somebody executes SQL on.
LEMMA EndHelperIsSound ==
  ASSUME Careful, CInv, IInv', EndHelper
  PROVE  StaysSound
<1>0. IInv /\ NoFault /\ FreedStatementIsFinalized /\ BorrowedIsPinned /\ HelpersFinalize
  BY DEF CInv
<1>1. calls # <<>> /\ Top.kind \in HelperKinds
  BY DEF EndHelper
<1>2. ~(Top.kind \in UsesConnLast /\ conn[Top.conn].retainCount = 1)
  BY <1>1, InsertOutlivesItsStatement
<1>3. calls # <<>> /\ Top.kind \in HelperKinds /\ calls' = Pop(calls)
      /\ UNCHANGED <<connRefs, stmtRefs, observers, fault>>
  BY <1>2 DEF EndHelper
<1>4. calls \in Seq(Frame) /\ Len(calls) \in DOMAIN calls
  BY <1>0, <1>3, PopFacts DEF IInv, TypeOK
<1>5. Top.kind \in Finalizes /\ Top.kind # "exec"
  BY <1>0, <1>3, <1>4 DEF HelpersFinalize, Top, Finalizes, HelperKinds
<1>6. DropStatement(Top.stmt, "finalized")
  BY <1>2, <1>5 DEF EndHelper, LeavesVdbe
<1>7. PICK s \in Stmts : s = Top.stmt
  BY <1>0, <1>3, <1>5, TopFacts DEF FrameIsSound
<1>8. PICK c \in Conns : c = Top.conn
  BY <1>0, <1>3, TopFacts DEF Frame
<1>9. /\ stmtRefs[s] = 0 /\ stmt[s].state = "live" /\ stmt[s].conn = c
      /\ stmt[s].vdbe = "running"
  BY <1>0, <1>3, <1>5, <1>7, <1>8, TopFacts DEF FrameIsSound
<1>10. /\ stmtRefs[s] = 0 /\ stmt[s].state = "live" /\ stmt[s].conn = c
       /\ conn[c].db = "open"
       /\ s \in LiveStmts(c)
  BY <1>0, <1>9 DEF IInv, VdbeKeepsHandleOpen, Compiled, LiveStmts
<1>11. stmt[s].retainCount = 1 /\ conn[c].state = "live"
  BY <1>0, <1>10, StmtFacts, LiveStmtCounts
<1>12. /\ DropConnection(c, {s})
       /\ stmt' = [stmt EXCEPT ![s] = [state |-> "freed", retainCount |-> @.retainCount - 1,
                                      conn |-> @.conn, vdbe |-> "finalized"]]
  BY <1>6, <1>7, <1>10, <1>11 DEF DropStatement
<1>13. conn[c].retainCount = 1 => ~UnfinalizedBut(c, {s})
  <2> SUFFICES ASSUME conn[c].retainCount = 1 PROVE ~UnfinalizedBut(c, {s})
    OBVIOUS
  <2>1. LiveStmts(c) = {s} /\ Outstanding(c) = 0
    BY <1>0, <1>10, LastIsAlone
  <2>2. ~Executing(c)
    <3> SUFFICES ASSUME NEW k \in DOMAIN calls, calls[k].kind = "exec", calls[k].conn = c
                 PROVE  FALSE
      BY DEF Executing
    <3>1. PICK j \in DOMAIN calls : j < k /\ calls[j].kind \in HelperKinds /\ calls[j].conn = c
      BY <1>0, <2>1 DEF BorrowedIsPinned, Pinned, Borrowers
    <3>2. calls[j].kind # "exec" /\ FrameIsSound(calls[j])
      BY <1>0, <3>1 DEF IInv, FramesAreSound, HelperKinds
    <3>3. calls[j].stmt \in LiveStmts(c)
      BY <3>1, <3>2 DEF FrameIsSound, LiveStmts
    <3>4. calls[j].stmt = s
      BY <2>1, <3>3
    <3>5. j = Len(calls)
      BY <1>0, <1>4, <1>7, <3>1, <3>4 DEF IInv, HelpersAreAlone, Top
    <3>6. QED
      BY <1>4, <3>1, <3>5
  <2>3. QED
    BY <2>1, <2>2, NothingUnfinalized
<1>14. Leaves(c)
  BY <1>0, <1>10, <1>11, <1>12, <1>13, DropIsLeave
<1>15. /\ FreedStatementIsFinalized' /\ stmt'[s].state = "freed"
       /\ \A t \in Stmts \ {s} : stmt'[t] = stmt[t]
  BY <1>12, FreedIsFinalized
<1>16. KeepsHeld
  <2>1. \A d \in Conns : HeldStmts(d)' = HeldStmts(d)
    BY <1>3, <1>10, <1>15 DEF HeldStmts, LiveStmts
  <2>2. \A d \in Conns : Outstanding(d)' = Outstanding(d)
    BY <1>3, <2>1 DEF Outstanding, HeldStmts
  <2>3. QED
    BY <2>2 DEF KeepsHeld
<1>17. BorrowedIsPinned' /\ StepsAreUndisturbed' /\ HelpersFinalize'
  <2>1. \A k \in DOMAIN calls \cap DOMAIN calls' : calls[k].stmt # s
    <3>1. DOMAIN calls' = DOMAIN calls \ {Len(calls)}
      BY <1>3, <1>4, PopFacts
    <3>2. \A k \in DOMAIN calls : calls[k].stmt = s => k = Len(calls)
      BY <1>0, <1>3, <1>4, <1>7 DEF IInv, HelpersAreAlone, Top
    <3>3. QED
      BY <3>1, <3>2
  <2>2. stmt'[s].vdbe # "running"
    BY <1>12 DEF CInv, IInv, TypeOK
  <2>3. \A t \in Stmts \ {s} : Running(t) => Running(t)'
    BY <1>0, <1>3, <1>7, PopKeepsRunning
  <2>4. KeepsSteps
    BY <1>3, <1>15, <2>1, <2>2, <2>3 DEF KeepsSteps
  <2>5. QED
    BY <1>3, <1>16, <2>4, StackIsSound
<1>18. QED
  BY <1>0, <1>3, <1>14, <1>15, <1>17 DEF StaysSound, SharingStep, NoFault

-----------------------------------------------------------------------------
(* The theorems.                                                             *)

LEMMA InitCInv == Init => CInv
<1> SUFFICES ASSUME Init PROVE CInv
  OBVIOUS
<1>1. IInv
  BY InitIInv
<1>2. NoFault /\ NoHandleLeak /\ FreedStatementIsFinalized
  BY DEF Init, Unborn, UnbornStmt, NoFault, NoHandleLeak, FreedStatementIsFinalized
<1>3. BorrowedIsPinned /\ StepsAreUndisturbed /\ HelpersFinalize
  BY DEF Init, UnbornStmt, BorrowedIsPinned, StepsAreUndisturbed, HelpersFinalize
<1>4. QED
  BY <1>1, <1>2, <1>3 DEF CInv

LEMMA StepIsSound ==
  ASSUME Careful, CInv, [Next]_vars
  PROVE  CInv' /\ [Shared!Next]_(Shared!sharedVars)
<1>1. IInv /\ IInv' /\ NoHandleLeak
  BY NextIInv DEF CInv
<1>2. StaysSound
  <2>1. ASSUME NEW c \in Conns, ConnectionStep(c) PROVE StaysSound
    BY <1>1, <2>1, ConnectionOperationsAreSound, ConnectionReleaseIsSound DEF ConnectionStep
  <2>2. ASSUME NEW s \in Stmts, StatementStep(s) PROVE StaysSound
    BY <1>1, <2>2, StatementOperationsAreSound, StatementReleaseIsSound DEF StatementStep
  <2>3. ASSUME NEW s \in Stmts, NEW c \in Conns, StatementCreate(s, c) PROVE StaysSound
    BY <1>1, <2>3, StatementCreateIsSound
  <2>4. ASSUME NEW kind \in Helpers, NEW s \in Stmts, NEW c \in Conns,
               BeginHelper(kind, s, c)
        PROVE  StaysSound
    BY <1>1, <2>4, BeginHelperIsSound
  <2>5. CASE EndStep \/ EndHelper \/ EndExec
    BY <1>1, <2>5, EndStepIsSound, EndHelperIsSound, EndExecIsSound
  <2>6. CASE UNCHANGED vars
    <3>1. UNCHANGED <<conn, stmt, connRefs, stmtRefs, observers, calls, fault>>
      BY <2>6 DEF vars
    <3>2. KeepsHeld
      BY <3>1 DEF KeepsHeld, Outstanding, LiveStmts
    <3>3. KeepsSteps
      BY <1>1, <3>1, NobodyDisturbs
    <3>4. BorrowedIsPinned' /\ StepsAreUndisturbed' /\ HelpersFinalize'
      BY <3>1, <3>2, <3>3, StackIsSound
    <3>5. QED
      BY <3>1, <3>4 DEF CInv, StaysSound, SharingStep, NoFault, FreedStatementIsFinalized
  <2>7. QED
    BY <2>1, <2>2, <2>3, <2>4, <2>5, <2>6 DEF Next
<1>3. NoHandleLeak' /\ [Shared!Next]_(Shared!sharedVars)
  BY <1>1, <1>2, SharingLeaksNoHandle, SharingImplements DEF StaysSound
<1>4. QED
  BY <1>1, <1>2, <1>3 DEF CInv, StaysSound

THEOREM CarefulInvariance == ASSUME Careful PROVE Spec => []CInv
<1>1. CInv /\ [Next]_vars => CInv'
  BY StepIsSound
<1>2. QED
  BY InitCInv, <1>1, PTL DEF Spec

\* An application that keeps the six rules never reaches undefined behaviour, however
\* its callbacks, references and helpers interleave: what the step of a statement
\* (SQLite3Statement.c:145-147), sqlite3_exec and the insert (Statement.c:734-742) do
\* not hold on to, its callbacks leave alone.
THEOREM CarefulIsSafe == ASSUME Careful PROVE Spec => []NoFault
<1>1. CInv => NoFault
  BY DEF CInv
<1>2. QED
  BY <1>1, CarefulInvariance, PTL

\* Nor does it leave a handle open that nothing can close (the sqlite3_close of
\* SQLite3Connection.c:68, whose status is ignored).
THEOREM CarefulLeaksNoHandle == ASSUME Careful PROVE Spec => []NoHandleLeak
<1>1. CInv => NoHandleLeak
  BY DEF CInv
<1>2. QED
  BY <1>1, CarefulInvariance, PTL

\* For a careful application a connection is a handle shared by its references, its
\* observers and its statements, and closed with the last of them.
THEOREM CarefulSharesHandle == ASSUME Careful PROVE Spec => ImplementsSharedHandle
<1>1. Init => Shared!Init
  <2> SUFFICES ASSUME Init PROVE Shared!Init
    OBVIOUS
  <2>1. IInv
    BY InitIInv
  <2>2. \A c \in Conns : conn[c].db = "none" /\ conn[c].retainCount = 0
    BY DEF Init, Unborn
  <2>3. QED
    BY <2>1, <2>2, HoldersAreCounted DEF Shared!Init, Counts
<1>2. CInv /\ [Next]_vars => [Shared!Next]_(Shared!sharedVars)
  BY StepIsSound
<1>3. QED
  BY <1>1, <1>2, CarefulInvariance, PTL DEF ImplementsSharedHandle, Shared!Spec, Spec
=============================================================================
