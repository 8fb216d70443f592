---------------------------- MODULE LifecycleProofs ----------------------------
(***************************************************************************)
(* The reference counting of Lifecycle is exact, and statements pin their   *)
(* connection, for any number of connections and statements and for an      *)
(* application as careless as it likes.                                     *)
(***************************************************************************)
EXTENDS Lifecycle, FiniteSetTheorems, TLAPS

\* What a frame of the call stack says about the handle and the statement it uses.
\* The application may do anything to a statement it is stepping but un-create it;
\* the private statement of a helper is out of its reach.
FrameIsSound(f) ==
  /\ f.kind = "exec" => f.stmt = NoStmt /\ conn[f.conn].db = "open"
  /\ f.kind # "exec" =>
       /\ f.stmt \in Stmts
       /\ stmt[f.stmt].state # "unborn"
       /\ stmt[f.stmt].conn = f.conn
       /\ stmt[f.stmt].vdbe # "null"
  /\ f.kind \in HelperKinds =>
       /\ stmt[f.stmt].state = "live"
       /\ stmt[f.stmt].vdbe = "running"
       /\ stmtRefs[f.stmt] = 0

FramesAreSound == \A k \in DOMAIN calls : FrameIsSound(calls[k])

\* No other call uses the private statement of a helper.
HelpersAreAlone ==
  \A k, l \in DOMAIN calls :
    calls[k].kind \in HelperKinds /\ calls[k].stmt = calls[l].stmt => k = l

ShapesAreSound ==
  /\ \A c \in Conns : /\ conn[c].state = "live" <=> conn[c].retainCount > 0
                      /\ conn[c].state = "unborn" <=> conn[c].db = "none"
  /\ \A s \in Stmts : /\ stmt[s].state = "live" <=> stmt[s].retainCount > 0
                      /\ stmt[s].state = "unborn" => stmt[s].vdbe = "null"
                      /\ stmt[s].state # "unborn" => stmt[s].conn \in Conns

ConnCountsAreExact ==
  \A c \in Conns :
    conn[c].retainCount = connRefs[c] + observers[c] + Cardinality(LiveStmts(c))

StmtCountsAreExact ==
  \A s \in Stmts :
    stmt[s].retainCount = stmtRefs[s] + (IF HelperOwned(s) THEN 1 ELSE 0)

\* An unfinalized Vdbe keeps the handle open, even when its struct is gone.
VdbeKeepsHandleOpen ==
  \A s \in Stmts : stmt[s].vdbe \in Compiled => conn[stmt[s].conn].db = "open"

IInv ==
  /\ TypeOK
  /\ ShapesAreSound
  /\ FramesAreSound
  /\ HelpersAreAlone
  /\ ConnCountsAreExact
  /\ StmtCountsAreExact
  /\ VdbeKeepsHandleOpen

-----------------------------------------------------------------------------
(* The call stack.                                                           *)

LEMMA PushFacts ==
  ASSUME NEW q \in Seq(Frame), NEW f \in Frame
  PROVE  /\ Append(q, f) \in Seq(Frame)
         /\ DOMAIN Append(q, f) = DOMAIN q \cup {Len(q) + 1}
         /\ Len(q) + 1 \notin DOMAIN q
         /\ Append(q, f)[Len(q) + 1] = f
         /\ \A k \in DOMAIN q : Append(q, f)[k] = q[k]
  OBVIOUS

LEMMA PopFacts ==
  ASSUME NEW q \in Seq(Frame), q # <<>>
  PROVE  /\ Pop(q) \in Seq(Frame)
         /\ Len(q) \in DOMAIN q
         /\ DOMAIN Pop(q) = DOMAIN q \ {Len(q)}
         /\ \A k \in DOMAIN Pop(q) : Pop(q)[k] = q[k]
         /\ q[Len(q)] \in Frame
<1>1. Len(q) \in Nat \ {0}
  OBVIOUS
<1>2. Pop(q) = [k \in 1 .. Len(q) - 1 |-> q[k]]
  BY <1>1 DEF Pop
<1>3. QED
  BY <1>1, <1>2

-----------------------------------------------------------------------------
(* Counting the live statements of a connection.                             *)

LEMMA LiveStmtsFinite ==
  \A c \in Conns : IsFiniteSet(LiveStmts(c)) /\ Cardinality(LiveStmts(c)) \in Nat
<1> SUFFICES ASSUME NEW c \in Conns
             PROVE  IsFiniteSet(LiveStmts(c)) /\ Cardinality(LiveStmts(c)) \in Nat
  OBVIOUS
<1>1. LiveStmts(c) \in SUBSET Stmts
  BY DEF LiveStmts
<1>2. QED
  BY <1>1, FS_Subset, FS_CardinalityType, ConstantsAssumption

\* Nothing is born or freed: the counts stand.
LEMMA SameLiveStmts ==
  ASSUME \A s \in Stmts : stmt'[s].state = stmt[s].state /\ stmt'[s].conn = stmt[s].conn
  PROVE  \A c \in Conns : LiveStmts(c)' = LiveStmts(c)
  BY DEF LiveStmts

LEMMA StmtBorn ==
  ASSUME NEW s \in Stmts, NEW c \in Conns,
         stmt[s].state = "unborn", stmt'[s].state = "live", stmt'[s].conn = c,
         \A t \in Stmts \ {s} : stmt'[t] = stmt[t]
  PROVE  \A d \in Conns : Cardinality(LiveStmts(d)') =
           Cardinality(LiveStmts(d)) + (IF d = c THEN 1 ELSE 0)
<1> SUFFICES ASSUME NEW d \in Conns
             PROVE  Cardinality(LiveStmts(d)') =
                      Cardinality(LiveStmts(d)) + (IF d = c THEN 1 ELSE 0)
  OBVIOUS
<1>1. CASE d = c
  <2>1. LiveStmts(d)' = LiveStmts(d) \cup {s} /\ s \notin LiveStmts(d)
    BY <1>1 DEF LiveStmts
  <2>2. IsFiniteSet(LiveStmts(d))
    BY LiveStmtsFinite
  <2>3. Cardinality(LiveStmts(d) \cup {s}) = Cardinality(LiveStmts(d)) + 1
    BY <2>1, <2>2, FS_AddElement
  <2>4. QED
    BY <1>1, <2>1, <2>3
<1>2. CASE d # c
  <2>1. LiveStmts(d)' = LiveStmts(d)
    BY <1>2 DEF LiveStmts
  <2>2. QED
    BY <1>2, <2>1, LiveStmtsFinite
<1>3. QED
  BY <1>1, <1>2

LEMMA StmtGone ==
  ASSUME NEW s \in Stmts, NEW c \in Conns,
         stmt[s].state = "live", stmt[s].conn = c, stmt'[s].state = "freed",
         \A t \in Stmts \ {s} : stmt'[t] = stmt[t]
  PROVE  \A d \in Conns : Cardinality(LiveStmts(d)') =
           Cardinality(LiveStmts(d)) - (IF d = c THEN 1 ELSE 0)
<1> SUFFICES ASSUME NEW d \in Conns
             PROVE  Cardinality(LiveStmts(d)') =
                      Cardinality(LiveStmts(d)) - (IF d = c THEN 1 ELSE 0)
  OBVIOUS
<1>1. CASE d = c
  <2>1. LiveStmts(d)' = LiveStmts(d) \ {s} /\ s \in LiveStmts(d)
    BY <1>1 DEF LiveStmts
  <2>2. IsFiniteSet(LiveStmts(d))
    BY LiveStmtsFinite
  <2>3. Cardinality(LiveStmts(d) \ {s}) = Cardinality(LiveStmts(d)) - 1
    BY <2>1, <2>2, FS_RemoveElement
  <2>4. QED
    BY <1>1, <2>1, <2>3
<1>2. CASE d # c
  <2>1. LiveStmts(d)' = LiveStmts(d)
    BY <1>2 DEF LiveStmts
  <2>2. QED
    BY <1>2, <2>1, LiveStmtsFinite
<1>3. QED
  BY <1>1, <1>2

\* A connection with a live statement is live: it counts at least that one.
LEMMA LiveStmtCounts ==
  ASSUME IInv, NEW s \in Stmts, stmt[s].state = "live"
  PROVE  /\ stmt[s].conn \in Conns
         /\ conn[stmt[s].conn].retainCount > 0
         /\ conn[stmt[s].conn].state = "live"
<1> DEFINE c == stmt[s].conn
<1>1. c \in Conns
  BY DEF IInv, ShapesAreSound
<1>2. s \in LiveStmts(c)
  BY DEF LiveStmts
<1>3. Cardinality(LiveStmts(c)) > 0
  BY <1>1, <1>2, LiveStmtsFinite, FS_EmptySet
<1>4. connRefs[c] \in Nat /\ observers[c] \in Nat
  BY <1>1 DEF IInv, TypeOK
<1>5. QED
  BY <1>1, <1>3, <1>4, LiveStmtsFinite DEF IInv, ConnCountsAreExact, ShapesAreSound

-----------------------------------------------------------------------------
(* One lemma per operation: it preserves IInv.                               *)

LEMMA InitIInv == Init => IInv
<1> SUFFICES ASSUME Init PROVE IInv
  OBVIOUS
<1>1. TypeOK
  BY DEF Init, Unborn, UnbornStmt, TypeOK, ConnRecord, StmtRecord, Faults
<1>2. ConnCountsAreExact
  <2> SUFFICES ASSUME NEW c \in Conns
               PROVE  conn[c].retainCount = connRefs[c] + observers[c] + Cardinality(LiveStmts(c))
    BY DEF ConnCountsAreExact
  <2>1. LiveStmts(c) = {}
    BY DEF Init, UnbornStmt, LiveStmts
  <2>2. Cardinality(LiveStmts(c)) = 0
    BY <2>1, FS_EmptySet
  <2>3. conn[c].retainCount = 0 /\ connRefs[c] = 0 /\ observers[c] = 0
    BY DEF Init, Unborn
  <2>4. QED
    BY <2>2, <2>3
<1>3. ShapesAreSound /\ FramesAreSound /\ HelpersAreAlone
  BY DEF Init, Unborn, UnbornStmt, ShapesAreSound, FramesAreSound, HelpersAreAlone
<1>4. StmtCountsAreExact /\ VdbeKeepsHandleOpen
  BY DEF Init, Unborn, UnbornStmt, StmtCountsAreExact, VdbeKeepsHandleOpen, HelperOwned,
         Compiled
<1>5. QED
  BY <1>1, <1>2, <1>3, <1>4 DEF IInv

LEMMA FaultIInv ==
  ASSUME IInv, NEW kind \in Faults, Fault(kind)
  PROVE  IInv'
<1>1. TypeOK'
  BY DEF IInv, TypeOK, Fault
<1>2. ShapesAreSound' /\ FramesAreSound' /\ HelpersAreAlone' /\ VdbeKeepsHandleOpen'
  BY DEF IInv, Fault, ShapesAreSound, FramesAreSound, FrameIsSound,
         HelpersAreAlone, VdbeKeepsHandleOpen
<1>3. ConnCountsAreExact' /\ StmtCountsAreExact'
  BY DEF IInv, Fault, ConnCountsAreExact, StmtCountsAreExact, LiveStmts, HelperOwned
<1>4. QED
  BY <1>1, <1>2, <1>3 DEF IInv

\* What ConnRecord and the type invariant say of one connection.
LEMMA ConnTypes ==
  ASSUME TypeOK
  PROVE  /\ \A c \in Conns : /\ conn[c].retainCount \in Nat
                             /\ connRefs[c] \in Nat
                             /\ observers[c] \in Nat
         /\ \A s \in Stmts : stmt[s].retainCount \in Nat /\ stmtRefs[s] \in Nat
         /\ \A k \in DOMAIN calls : calls[k] \in Frame /\ calls[k].conn \in Conns
<1>1. \A c \in Conns : conn[c] \in ConnRecord /\ connRefs[c] \in Nat /\ observers[c] \in Nat
  BY DEF TypeOK
<1>2. \A s \in Stmts : stmt[s] \in StmtRecord /\ stmtRefs[s] \in Nat
  BY DEF TypeOK
<1>3. \A k \in DOMAIN calls : calls[k] \in Frame
  BY DEF TypeOK
<1>4. QED
  BY <1>1, <1>2, <1>3 DEF ConnRecord, StmtRecord, Frame

\* A step that changes one connection and its holders, and no statement: it is
\* enough that the count and the state of that connection fit together and that
\* a handle with unfinalized statements is left alone.
LEMMA OneConnectionIInv ==
  ASSUME IInv, NEW c \in Conns, NEW r \in ConnRecord, NEW n \in Nat, NEW m \in Nat,
         UNCHANGED <<stmt, stmtRefs, calls, fault>>,
         conn' = [conn EXCEPT ![c] = r],
         connRefs' = [connRefs EXCEPT ![c] = n],
         observers' = [observers EXCEPT ![c] = m],
         r.retainCount = n + m + Cardinality(LiveStmts(c)),
         r.state = "live" <=> r.retainCount > 0,
         r.state = "unborn" <=> r.db = "none",
         r.db = conn[c].db \/ ~Unfinalized(c)
  PROVE  IInv'
<1>0. /\ TypeOK /\ ShapesAreSound /\ FramesAreSound /\ HelpersAreAlone
      /\ ConnCountsAreExact /\ StmtCountsAreExact /\ VdbeKeepsHandleOpen
  BY DEF IInv
<1>1. /\ \A d \in Conns : conn'[d] = IF d = c THEN r ELSE conn[d]
      /\ \A d \in Conns : connRefs'[d] = IF d = c THEN n ELSE connRefs[d]
      /\ \A d \in Conns : observers'[d] = IF d = c THEN m ELSE observers[d]
  BY <1>0 DEF TypeOK
<1>2. TypeOK'
  BY <1>0 DEF TypeOK
<1>3. ShapesAreSound'
  BY <1>0, <1>1 DEF ShapesAreSound
<1>4. FramesAreSound'
  <2> SUFFICES ASSUME NEW k \in DOMAIN calls PROVE FrameIsSound(calls[k])'
    BY DEF FramesAreSound
  <2>1. FrameIsSound(calls[k]) /\ calls[k].conn \in Conns
    BY <1>0, ConnTypes DEF FramesAreSound
  <2>2. calls[k].kind = "exec" /\ calls[k].conn = c => Unfinalized(c)
    BY DEF Executing, Unfinalized, UnfinalizedBut
  <2>3. QED
    BY <1>1, <2>1, <2>2 DEF FrameIsSound
<1>5. HelpersAreAlone' /\ StmtCountsAreExact'
  BY <1>0 DEF HelpersAreAlone, StmtCountsAreExact, HelperOwned
<1>6. ConnCountsAreExact'
  <2>1. \A d \in Conns : LiveStmts(d)' = LiveStmts(d)
    BY DEF LiveStmts
  <2>2. QED
    BY <1>0, <1>1, <2>1 DEF ConnCountsAreExact
<1>7. VdbeKeepsHandleOpen'
  BY <1>0, <1>1 DEF VdbeKeepsHandleOpen, ShapesAreSound, Unfinalized, UnfinalizedBut
<1>8. QED
  BY <1>2, <1>3, <1>4, <1>5, <1>6, <1>7 DEF IInv

\* The facts the uses of OneConnectionIInv share.
LEMMA CountFacts ==
  ASSUME IInv, NEW c \in Conns
  PROVE  /\ conn[c] \in ConnRecord
         /\ connRefs[c] \in Nat /\ observers[c] \in Nat
         /\ Cardinality(LiveStmts(c)) \in Nat
         /\ conn[c].retainCount = connRefs[c] + observers[c] + Cardinality(LiveStmts(c))
         /\ conn[c].state = "live" <=> conn[c].retainCount > 0
         /\ conn[c].state = "unborn" <=> conn[c].db = "none"
         /\ connRefs = [connRefs EXCEPT ![c] = connRefs[c]]
         /\ observers = [observers EXCEPT ![c] = observers[c]]
  BY LiveStmtsFinite DEF IInv, TypeOK, ShapesAreSound, ConnCountsAreExact

LEMMA ConnectionCreateIInv ==
  ASSUME IInv, NEW c \in Conns, ConnectionCreate(c)
  PROVE  IInv'
<1>1. conn[c].state = "unborn" /\ UNCHANGED <<stmt, stmtRefs, observers, calls, fault>>
  BY DEF ConnectionCreate
<1>2. conn[c].retainCount = 0
  BY <1>1, CountFacts DEF ConnRecord
<1>3. connRefs[c] = 0 /\ observers[c] = 0 /\ Cardinality(LiveStmts(c)) = 0
  BY <1>2, CountFacts
<1>4. ~Unfinalized(c)
  <2>1. ~Executing(c)
    BY <1>1, CountFacts DEF Executing, IInv, FramesAreSound, FrameIsSound
  <2>2. QED
    BY <1>1, <2>1, CountFacts DEF Unfinalized, UnfinalizedBut, IInv, VdbeKeepsHandleOpen
<1>5. CASE /\ conn' = [conn EXCEPT ![c] = [state |-> "live", retainCount |-> 1, db |-> "open"]]
           /\ connRefs' = [connRefs EXCEPT ![c] = 1]
  <2> DEFINE r == [state |-> "live", retainCount |-> 1, db |-> "open"]
  <2>1. r \in ConnRecord
    BY DEF ConnRecord
  <2>2. r.state = "live" /\ r.retainCount = 1 /\ r.db = "open"
    OBVIOUS
  <2>3. observers' = [observers EXCEPT ![c] = 0]
    BY <1>1, <1>3, CountFacts
  <2>4. conn' = [conn EXCEPT ![c] = r] /\ connRefs' = [connRefs EXCEPT ![c] = 1]
    BY <1>5
  <2> HIDE DEF r
  <2>5. r.retainCount = 1 + 0 + Cardinality(LiveStmts(c))
    BY <1>3, <2>2
  <2>6. /\ r.state = "live" <=> r.retainCount > 0
        /\ r.state = "unborn" <=> r.db = "none"
        /\ UNCHANGED <<stmt, stmtRefs, calls, fault>>
    BY <1>1, <2>2
  <2>7. QED
    BY <1>4, <2>1, <2>3, <2>4, <2>5, <2>6, OneConnectionIInv
<1>6. CASE /\ conn' = [conn EXCEPT ![c] = [state |-> "freed", retainCount |-> 0, db |-> "closed"]]
           /\ UNCHANGED connRefs
  <2> DEFINE r == [state |-> "freed", retainCount |-> 0, db |-> "closed"]
  <2>1. r \in ConnRecord
    BY DEF ConnRecord
  <2>2. r.state = "freed" /\ r.retainCount = 0 /\ r.db = "closed"
    OBVIOUS
  <2>3. observers' = [observers EXCEPT ![c] = 0] /\ connRefs' = [connRefs EXCEPT ![c] = 0]
    BY <1>1, <1>3, <1>6, CountFacts
  <2>4. conn' = [conn EXCEPT ![c] = r]
    BY <1>6
  <2> HIDE DEF r
  <2>5. r.retainCount = 0 + 0 + Cardinality(LiveStmts(c))
    BY <1>3, <2>2
  <2>6. /\ r.state = "live" <=> r.retainCount > 0
        /\ r.state = "unborn" <=> r.db = "none"
        /\ UNCHANGED <<stmt, stmtRefs, calls, fault>>
    BY <1>1, <2>2
  <2>7. QED
    BY <1>4, <2>1, <2>3, <2>4, <2>5, <2>6, OneConnectionIInv
<1>7. QED
  BY <1>5, <1>6 DEF ConnectionCreate

\* A reference of the application, or an observer, is added to a live connection.
LEMMA ConnectionRetainIInv ==
  ASSUME IInv, NEW c \in Conns, ConnectionRetain(c) \/ ObserverCreate(c)
  PROVE  IInv'
<1>1. /\ conn[c].state = "live"
      /\ UNCHANGED <<stmt, stmtRefs, calls, fault>>
      /\ conn' = [conn EXCEPT ![c].retainCount = @ + 1]
  BY DEF ConnectionRetain, ObserverCreate, Reachable
<1> DEFINE r == [conn[c] EXCEPT !.retainCount = @ + 1]
<1>2. conn' = [conn EXCEPT ![c] = r]
  BY <1>1
<1>3. /\ r \in ConnRecord
      /\ r.retainCount = conn[c].retainCount + 1
      /\ r.state = conn[c].state /\ r.db = conn[c].db
  BY CountFacts DEF ConnRecord
<1> HIDE DEF r
<1>7. /\ r.state = "live" <=> r.retainCount > 0
      /\ r.state = "unborn" <=> r.db = "none"
  BY <1>1, <1>3, CountFacts DEF ConnRecord
<1>4. CASE ConnectionRetain(c)
  <2>1. /\ connRefs' = [connRefs EXCEPT ![c] = connRefs[c] + 1]
        /\ observers' = [observers EXCEPT ![c] = observers[c]]
    BY <1>4, CountFacts DEF ConnectionRetain
  <2>2. r.retainCount = (connRefs[c] + 1) + observers[c] + Cardinality(LiveStmts(c))
    BY <1>3, CountFacts
  <2>3. connRefs[c] + 1 \in Nat
    BY CountFacts
  <2>4. QED
    BY <1>1, <1>2, <1>3, <1>7, <2>1, <2>2, <2>3, CountFacts, OneConnectionIInv
<1>5. CASE ObserverCreate(c)
  <2>1. /\ observers' = [observers EXCEPT ![c] = observers[c] + 1]
        /\ connRefs' = [connRefs EXCEPT ![c] = connRefs[c]]
    BY <1>5, CountFacts DEF ObserverCreate
  <2>2. r.retainCount = connRefs[c] + (observers[c] + 1) + Cardinality(LiveStmts(c))
    BY <1>3, CountFacts
  <2>3. observers[c] + 1 \in Nat
    BY CountFacts
  <2>4. QED
    BY <1>1, <1>2, <1>3, <1>7, <2>1, <2>2, <2>3, CountFacts, OneConnectionIInv
<1>6. QED
  BY <1>4, <1>5

LEMMA ConnectionCloseIInv ==
  ASSUME IInv, NEW c \in Conns, ConnectionClose(c)
  PROVE  IInv'
<1>1. CASE conn[c].db = "closed"
  BY <1>1, FaultIInv DEF ConnectionClose, Faults
<1>2. CASE conn[c].db # "closed"
  <2>1. /\ conn[c].state = "live" /\ ~Unfinalized(c)
        /\ conn' = [conn EXCEPT ![c].db = "closed"]
        /\ UNCHANGED <<stmt, connRefs, stmtRefs, observers, calls, fault>>
    BY <1>2 DEF ConnectionClose, MayUse, Reachable
  <2> DEFINE r == [conn[c] EXCEPT !.db = "closed"]
  <2>2. conn' = [conn EXCEPT ![c] = r]
    BY <2>1
  <2>3. /\ r \in ConnRecord
        /\ r.retainCount = conn[c].retainCount
        /\ r.state = conn[c].state /\ r.db = "closed"
    BY CountFacts DEF ConnRecord
  <2> HIDE DEF r
  <2>4. /\ connRefs' = [connRefs EXCEPT ![c] = connRefs[c]]
        /\ observers' = [observers EXCEPT ![c] = observers[c]]
        /\ r.retainCount = connRefs[c] + observers[c] + Cardinality(LiveStmts(c))
        /\ r.state = "live" <=> r.retainCount > 0
        /\ r.state = "unborn" <=> r.db = "none"
    BY <2>1, <2>3, CountFacts
  <2>5. QED
    <3>1. UNCHANGED <<stmt, stmtRefs, calls, fault>> /\ ~Unfinalized(c)
      BY <2>1
    <3>2. connRefs[c] \in Nat /\ observers[c] \in Nat /\ r \in ConnRecord
      BY <2>3, CountFacts
    <3>3. QED
      BY <2>2, <2>4, <3>1, <3>2, OneConnectionIInv
<1>3. QED
  BY <1>1, <1>2

\* The record SQLite3ConnectionRelease leaves, S having been finalized before.
LEMMA DroppedFacts ==
  ASSUME IInv, NEW c \in Conns, NEW S, conn[c].retainCount > 0
  PROVE  /\ DropConnection(c, S) => conn' = [conn EXCEPT ![c] = Dropped(c, S)]
         /\ Dropped(c, S) \in ConnRecord
         /\ Dropped(c, S).retainCount = conn[c].retainCount - 1
         /\ Dropped(c, S).state = "live" <=> Dropped(c, S).retainCount > 0
         /\ Dropped(c, S).state # "unborn" /\ Dropped(c, S).db # "none"
         /\ Dropped(c, S).db = conn[c].db \/ ~UnfinalizedBut(c, S)
<1>1. conn[c].state = "live" /\ conn[c].db \in {"open", "closed"} /\ conn[c].retainCount \in Nat
  BY CountFacts DEF ConnRecord
<1>2. DropConnection(c, S) => conn' = [conn EXCEPT ![c] = Dropped(c, S)]
  BY DEF DropConnection
<1>3. CASE conn[c].retainCount - 1 > 0
  <2>1. Dropped(c, S) = [conn[c] EXCEPT !.retainCount = @ - 1]
    BY <1>3 DEF Dropped
  <2>2. /\ Dropped(c, S) \in ConnRecord
        /\ Dropped(c, S).retainCount = conn[c].retainCount - 1
        /\ Dropped(c, S).state = conn[c].state
        /\ Dropped(c, S).db = conn[c].db
    BY <1>1, <1>3, <2>1, CountFacts DEF ConnRecord
  <2>3. QED
    BY <1>1, <1>2, <1>3, <2>2
<1>4. CASE ~(conn[c].retainCount - 1 > 0)
  <2>1. Dropped(c, S) = [state |-> "freed", retainCount |-> conn[c].retainCount - 1,
                         db |-> IF UnfinalizedBut(c, S) THEN conn[c].db ELSE "closed"]
    BY <1>4 DEF Dropped
  <2>2. conn[c].retainCount - 1 = 0
    BY <1>1, <1>4
  <2>3. /\ Dropped(c, S) \in ConnRecord
        /\ Dropped(c, S).retainCount = 0
        /\ Dropped(c, S).state = "freed"
        /\ Dropped(c, S).db = IF UnfinalizedBut(c, S) THEN conn[c].db ELSE "closed"
    BY <1>1, <2>1, <2>2 DEF ConnRecord
  <2>4. QED
    BY <1>1, <1>2, <2>2, <2>3
<1>5. QED
  BY <1>3, <1>4

LEMMA ConnectionReleaseIInv ==
  ASSUME IInv, NEW c \in Conns, ConnectionRelease(c)
  PROVE  IInv'
<1>1. CASE ClosesTwice(c)
  BY <1>1, FaultIInv DEF ConnectionRelease, Faults
<1>2. CASE ~ClosesTwice(c)
  <2>1. /\ connRefs[c] > 0
        /\ connRefs' = [connRefs EXCEPT ![c] = connRefs[c] - 1]
        /\ DropConnection(c, {})
        /\ UNCHANGED <<stmt, stmtRefs, observers, calls, fault>>
    BY <1>2 DEF ConnectionRelease
  <2>2. conn[c].retainCount > 0
    BY <2>1, CountFacts
  <2> DEFINE r == Dropped(c, {})
  <2>3. /\ conn' = [conn EXCEPT ![c] = r] /\ r \in ConnRecord
        /\ r.retainCount = conn[c].retainCount - 1
        /\ r.state = "live" <=> r.retainCount > 0
        /\ r.state # "unborn" /\ r.db # "none"
        /\ r.db = conn[c].db \/ ~Unfinalized(c)
    BY <2>1, <2>2, DroppedFacts DEF Unfinalized
  <2> HIDE DEF r
  <2>4. connRefs[c] - 1 \in Nat
    BY <2>1, CountFacts
  <2>5. r.retainCount = (connRefs[c] - 1) + observers[c] + Cardinality(LiveStmts(c))
    BY <2>3, CountFacts
  <2>6. QED
    BY <2>1, <2>3, <2>4, <2>5, CountFacts, OneConnectionIInv
<1>3. QED
  BY <1>1, <1>2

\* A step that leaves everything as it is.
LEMMA StutterIInv ==
  ASSUME IInv, UNCHANGED vars
  PROVE  IInv'
<1>1. TypeOK' /\ ShapesAreSound' /\ FramesAreSound' /\ HelpersAreAlone' /\ VdbeKeepsHandleOpen'
  BY DEF vars, IInv, TypeOK, ShapesAreSound, FramesAreSound, FrameIsSound,
         HelpersAreAlone, VdbeKeepsHandleOpen
<1>2. ConnCountsAreExact' /\ StmtCountsAreExact'
  BY DEF vars, IInv, ConnCountsAreExact, StmtCountsAreExact, LiveStmts, HelperOwned
<1>3. QED
  BY <1>1, <1>2 DEF IInv

\* What ShapesAreSound and the counts say of one statement.
LEMMA StmtFacts ==
  ASSUME IInv, NEW s \in Stmts
  PROVE  /\ stmt[s] \in StmtRecord
         /\ stmtRefs[s] \in Nat /\ stmt[s].retainCount \in Nat
         /\ stmt[s].retainCount = stmtRefs[s] + (IF HelperOwned(s) THEN 1 ELSE 0)
         /\ stmt[s].state = "live" <=> stmt[s].retainCount > 0
         /\ stmtRefs[s] > 0 => stmt[s].state = "live"
         /\ stmt[s].state = "unborn" => stmt[s].vdbe = "null"
         /\ stmt[s].state # "unborn" => stmt[s].conn \in Conns
         /\ stmtRefs = [stmtRefs EXCEPT ![s] = stmtRefs[s]]
<1>1. stmt[s] \in StmtRecord /\ stmtRefs[s] \in Nat /\ stmt[s].retainCount \in Nat
  BY DEF IInv, TypeOK, StmtRecord
<1>2. /\ stmt[s].retainCount = stmtRefs[s] + (IF HelperOwned(s) THEN 1 ELSE 0)
      /\ stmt[s].state = "live" <=> stmt[s].retainCount > 0
      /\ stmt[s].state = "unborn" => stmt[s].vdbe = "null"
      /\ stmt[s].state # "unborn" => stmt[s].conn \in Conns
  BY DEF IInv, ShapesAreSound, StmtCountsAreExact
<1>3. stmtRefs = [stmtRefs EXCEPT ![s] = stmtRefs[s]]
  BY DEF IInv, TypeOK
<1>4. QED
  BY <1>1, <1>2, <1>3

\* A statement the application holds is not the private one of a helper.
LEMMA HeldIsNotPrivate ==
  ASSUME IInv, NEW s \in Stmts, stmtRefs[s] > 0
  PROVE  ~HelperOwned(s)
  BY DEF IInv, FramesAreSound, FrameIsSound, HelperOwned

\* A step on one statement of the application that neither creates nor frees it; it
\* may begin a step of that statement, or return from one.
LEMMA OneStatementIInv ==
  ASSUME IInv, NEW s \in Stmts, NEW r \in StmtRecord,
         UNCHANGED <<conn, connRefs, observers, fault>>,
         calls' \in Seq(Frame),
         \A k \in DOMAIN calls' :
           \/ k \in DOMAIN calls /\ calls'[k] = calls[k]
           \/ /\ calls'[k].kind = "step" /\ calls'[k].stmt = s
              /\ calls'[k].conn = stmt[s].conn /\ r.vdbe # "null",
         \A t \in Stmts : HelperOwned(t)' = HelperOwned(t),
         stmt' = [stmt EXCEPT ![s] = r],
         stmtRefs' = [stmtRefs EXCEPT ![s] = stmtRefs'[s]], stmtRefs'[s] \in Nat,
         stmt[s].state # "unborn", ~HelperOwned(s), stmtRefs'[s] > 0 <=> stmtRefs[s] > 0,
         r.state = stmt[s].state, r.conn = stmt[s].conn,
         r.retainCount = stmtRefs'[s],
         r.vdbe \in Compiled => stmt[s].vdbe \in Compiled,
         r.vdbe = "null" => stmt[s].vdbe = "null"
  PROVE  IInv'
<1>0. /\ TypeOK /\ ShapesAreSound /\ FramesAreSound /\ HelpersAreAlone
      /\ ConnCountsAreExact /\ StmtCountsAreExact /\ VdbeKeepsHandleOpen
  BY DEF IInv
<1>1. /\ \A t \in Stmts : stmt'[t] = IF t = s THEN r ELSE stmt[t]
      /\ \A t \in Stmts : stmtRefs'[t] = IF t = s THEN stmtRefs'[s] ELSE stmtRefs[t]
  BY <1>0 DEF TypeOK
<1>2. /\ stmtRefs[s] \in Nat /\ stmtRefs'[s] \in Nat
      /\ stmt[s].retainCount = stmtRefs[s]
      /\ stmt[s].state = "live" <=> stmtRefs[s] > 0
      /\ stmt[s].conn \in Conns
  BY StmtFacts
<1>3. r.state = "live" <=> r.retainCount > 0
  BY <1>2
<1>4. TypeOK'
  BY <1>0 DEF TypeOK
<1>5. ShapesAreSound'
  BY <1>0, <1>1, <1>2, <1>3 DEF ShapesAreSound
<1>6. FramesAreSound'
  <2> SUFFICES ASSUME NEW k \in DOMAIN calls' PROVE FrameIsSound(calls[k])'
    BY DEF FramesAreSound
  <2>1. CASE k \in DOMAIN calls /\ calls'[k] = calls[k]
    <3>1. FrameIsSound(calls[k]) /\ calls[k] \in Frame
      BY <1>0, <2>1 DEF FramesAreSound, TypeOK
    <3>2. calls[k].stmt = s => calls[k].kind \notin HelperKinds
      BY <2>1 DEF HelperOwned
    <3>3. CASE calls[k].kind = "exec"
      BY <2>1, <3>1, <3>3 DEF FrameIsSound, HelperKinds
    <3>4. CASE calls[k].kind # "exec" /\ calls[k].stmt = s
      BY <1>1, <2>1, <3>1, <3>2, <3>4 DEF FrameIsSound
    <3>5. CASE calls[k].kind # "exec" /\ calls[k].stmt # s
      BY <1>1, <2>1, <3>1, <3>5 DEF FrameIsSound
    <3>6. QED
      BY <3>3, <3>4, <3>5
  <2>2. CASE /\ calls'[k].kind = "step" /\ calls'[k].stmt = s
             /\ calls'[k].conn = stmt[s].conn /\ r.vdbe # "null"
    BY <1>1, <2>2 DEF FrameIsSound, HelperKinds
  <2>3. QED
    BY <2>1, <2>2
<1>7. HelpersAreAlone'
  <2> SUFFICES ASSUME NEW k \in DOMAIN calls', NEW l \in DOMAIN calls',
                      calls'[k].kind \in HelperKinds, calls'[k].stmt = calls'[l].stmt
               PROVE  k = l
    BY DEF HelpersAreAlone
  <2>1. k \in DOMAIN calls /\ calls'[k] = calls[k]
    BY DEF HelperKinds
  <2>2. calls[k].stmt # s
    BY <2>1 DEF HelperOwned
  <2>3. l \in DOMAIN calls /\ calls'[l] = calls[l]
    BY <2>1, <2>2
  <2>4. QED
    BY <1>0, <2>1, <2>3 DEF HelpersAreAlone
<1>8. StmtCountsAreExact'
  BY <1>0, <1>1, <1>2 DEF StmtCountsAreExact
<1>9. ConnCountsAreExact'
  <2>1. \A d \in Conns : LiveStmts(d)' = LiveStmts(d)
    BY <1>1, SameLiveStmts
  <2>2. QED
    BY <1>0, <2>1 DEF ConnCountsAreExact
<1>10. VdbeKeepsHandleOpen'
  BY <1>0, <1>1 DEF VdbeKeepsHandleOpen
<1>11. QED
  BY <1>4, <1>5, <1>6, <1>7, <1>8, <1>9, <1>10 DEF IInv

\* OneStatementIInv for a statement the application holds, when the call stack stays
\* as it is.
LEMMA QuietStatementIInv ==
  ASSUME IInv, NEW s \in Stmts, NEW r \in StmtRecord,
         UNCHANGED <<conn, connRefs, observers, calls, fault>>,
         stmt' = [stmt EXCEPT ![s] = r],
         stmtRefs' = [stmtRefs EXCEPT ![s] = stmtRefs'[s]], stmtRefs'[s] \in Nat,
         stmtRefs[s] > 0, stmtRefs'[s] > 0,
         r.state = "live", r.conn = stmt[s].conn,
         r.retainCount = stmtRefs'[s],
         r.vdbe = stmt[s].vdbe \/ r.vdbe \in {"idle", "finalized"},
         r.vdbe = "idle" => stmt[s].vdbe \in Compiled
  PROVE  IInv'
<1>1. calls' \in Seq(Frame) /\ calls' = calls
  BY DEF IInv, TypeOK
<1>2. \A t \in Stmts : HelperOwned(t)' = HelperOwned(t)
  BY DEF HelperOwned
<1>3. stmt[s].state = "live" /\ ~HelperOwned(s)
  BY StmtFacts, HeldIsNotPrivate
<1>4. /\ r.vdbe \in Compiled => stmt[s].vdbe \in Compiled
      /\ r.vdbe = "null" => stmt[s].vdbe = "null"
  BY DEF Compiled
<1>5. \A k \in DOMAIN calls' : k \in DOMAIN calls /\ calls'[k] = calls[k]
  BY <1>1
<1>6. UNCHANGED <<conn, connRefs, observers, fault>>
  OBVIOUS
<1>7. QED
  BY <1>1, <1>2, <1>3, <1>4, <1>5, <1>6, OneStatementIInv

LEMMA StatementRetainIInv ==
  ASSUME IInv, NEW s \in Stmts, StatementRetain(s)
  PROVE  IInv'
<1> DEFINE r == [stmt[s] EXCEPT !.retainCount = @ + 1]
<1>1. /\ stmtRefs[s] > 0
      /\ stmt' = [stmt EXCEPT ![s] = r]
      /\ stmtRefs' = [stmtRefs EXCEPT ![s] = @ + 1]
      /\ UNCHANGED <<conn, connRefs, observers, calls, fault>>
  BY StmtFacts, ConstantsAssumption DEF StatementRetain
<1>2. stmt[s] \in StmtRecord /\ stmt[s].retainCount = stmtRefs[s] /\ stmtRefs[s] \in Nat
  BY <1>1, StmtFacts, HeldIsNotPrivate
<1>7. stmtRefs'[s] = stmtRefs[s] + 1 /\ stmtRefs' = [stmtRefs EXCEPT ![s] = stmtRefs'[s]]
  BY <1>1 DEF IInv, TypeOK
<1>3. /\ r \in StmtRecord /\ r.retainCount = stmtRefs'[s]
      /\ r.state = stmt[s].state /\ r.conn = stmt[s].conn /\ r.vdbe = stmt[s].vdbe
  BY <1>2, <1>7 DEF StmtRecord
<1>4. stmtRefs'[s] \in Nat /\ stmtRefs'[s] > 0
  BY <1>2, <1>7
<1> HIDE DEF r
<1>5. r.state = "live" /\ (r.vdbe = "idle" => stmt[s].vdbe \in Compiled)
  BY <1>1, <1>3, StmtFacts DEF Compiled
<1>6. QED
  BY <1>1, <1>7, <1>3, <1>4, <1>5, QuietStatementIInv

\* Reset and finalize: only the Vdbe changes, though a call may be inside it.
LEMMA VdbeStepIInv ==
  ASSUME IInv, NEW s \in Stmts, NEW v \in {"idle", "finalized"},
         MayTouch(s), v = "idle" => stmt[s].vdbe \in Compiled,
         stmt' = [stmt EXCEPT ![s].vdbe = v],
         UNCHANGED <<conn, connRefs, stmtRefs, observers, calls, fault>>
  PROVE  IInv'
<1> DEFINE r == [stmt[s] EXCEPT !.vdbe = v]
<1>1. /\ stmtRefs[s] > 0
      /\ stmt' = [stmt EXCEPT ![s] = r]
      /\ stmtRefs' = [stmtRefs EXCEPT ![s] = stmtRefs[s]]
  BY StmtFacts DEF MayTouch
<1>2. /\ r \in StmtRecord
      /\ r.retainCount = stmt[s].retainCount
      /\ r.state = stmt[s].state /\ r.conn = stmt[s].conn /\ r.vdbe = v
  BY StmtFacts DEF StmtRecord
<1> HIDE DEF r
<1>3. /\ r.state = "live" /\ stmtRefs[s] \in Nat
      /\ r.retainCount = stmtRefs[s]
  BY <1>1, <1>2, StmtFacts, HeldIsNotPrivate
<1>4. r.vdbe = "idle" => stmt[s].vdbe \in Compiled
  BY <1>2
<1>5. QED
  BY <1>1, <1>2, <1>3, <1>4, QuietStatementIInv

LEMMA StatementResetIInv ==
  ASSUME IInv, NEW s \in Stmts, StatementReset(s)
  PROVE  IInv'
<1>1. CASE stmt[s].vdbe = "finalized"
  BY <1>1, FaultIInv DEF StatementReset, Faults
<1>2. CASE stmt[s].vdbe # "finalized"
  BY <1>2, VdbeStepIInv DEF StatementReset, Compiled
<1>3. QED
  BY <1>1, <1>2

LEMMA StatementFinalizeIInv ==
  ASSUME IInv, NEW s \in Stmts, StatementFinalize(s)
  PROVE  IInv'
<1>1. CASE stmt[s].vdbe = "finalized"
  BY <1>1, FaultIInv DEF StatementFinalize, Faults
<1>2. CASE stmt[s].vdbe # "finalized"
  BY <1>2, VdbeStepIInv DEF StatementFinalize
<1>3. QED
  BY <1>1, <1>2

LEMMA StatementClearBindingsIInv ==
  ASSUME IInv, NEW s \in Stmts, StatementClearBindings(s)
  PROVE  IInv'
  BY FaultIInv DEF StatementClearBindings, Faults

\* The application drops one of several references.
LEMMA StatementReleaseOneIInv ==
  ASSUME IInv, NEW s \in Stmts, StatementRelease(s), stmt[s].retainCount - 1 > 0
  PROVE  IInv'
<1> DEFINE r == [stmt[s] EXCEPT !.retainCount = @ - 1, !.vdbe = stmt[s].vdbe]
<1>0. stmt[s].retainCount # 1
  BY StmtFacts
<1>1. /\ stmtRefs[s] > 0
      /\ stmt' = [stmt EXCEPT ![s] = r]
      /\ stmtRefs' = [stmtRefs EXCEPT ![s] = @ - 1]
      /\ UNCHANGED <<conn, connRefs, observers, calls, fault>>
  BY <1>0 DEF StatementRelease, DropStatement
<1>2. stmt[s] \in StmtRecord /\ stmt[s].retainCount = stmtRefs[s] /\ stmtRefs[s] \in Nat
  BY <1>1, StmtFacts, HeldIsNotPrivate
<1>7. stmtRefs'[s] = stmtRefs[s] - 1 /\ stmtRefs' = [stmtRefs EXCEPT ![s] = stmtRefs'[s]]
  BY <1>1 DEF IInv, TypeOK
<1>3. stmtRefs'[s] \in Nat /\ stmtRefs'[s] > 0
  BY <1>2, <1>7
<1>4. /\ r \in StmtRecord /\ r.retainCount = stmtRefs'[s]
      /\ r.state = stmt[s].state /\ r.conn = stmt[s].conn /\ r.vdbe = stmt[s].vdbe
  BY <1>2, <1>3, <1>7 DEF StmtRecord
<1> HIDE DEF r
<1>5. r.state = "live" /\ (r.vdbe = "idle" => stmt[s].vdbe \in Compiled)
  BY <1>1, <1>4, StmtFacts DEF Compiled
<1>6. QED
  BY <1>1, <1>7, <1>3, <1>4, <1>5, QuietStatementIInv

-----------------------------------------------------------------------------
(* Calls into sqlite3 and back.                                              *)

\* A call without a statement begins: only the stack changes.
LEMMA PushIInv ==
  ASSUME IInv, NEW f \in Frame, FrameIsSound(f), f.kind \notin HelperKinds, f.stmt = NoStmt,
         calls' = Append(calls, f),
         UNCHANGED <<conn, stmt, connRefs, stmtRefs, observers, fault>>
  PROVE  IInv'
<1>0. /\ TypeOK /\ ShapesAreSound /\ FramesAreSound /\ HelpersAreAlone
      /\ ConnCountsAreExact /\ StmtCountsAreExact /\ VdbeKeepsHandleOpen
  BY DEF IInv
<1> DEFINE top == Len(calls) + 1
<1>1. /\ calls' \in Seq(Frame)
      /\ DOMAIN calls' = DOMAIN calls \cup {top}
      /\ top \notin DOMAIN calls
      /\ calls'[top] = f
      /\ \A k \in DOMAIN calls : calls'[k] = calls[k]
  <2>1. calls \in Seq(Frame)
    BY <1>0 DEF TypeOK
  <2>2. QED
    BY <2>1, PushFacts
<1> HIDE DEF top
<1>2. TypeOK'
  BY <1>0, <1>1 DEF TypeOK
<1>3. ShapesAreSound' /\ VdbeKeepsHandleOpen'
  BY <1>0 DEF ShapesAreSound, VdbeKeepsHandleOpen
<1>4. FramesAreSound'
  BY <1>0, <1>1 DEF FramesAreSound, FrameIsSound
<1>5. HelpersAreAlone'
  <2>1. \A k \in DOMAIN calls : calls[k].kind \in HelperKinds => calls[k].stmt # NoStmt
    BY <1>0, ConstantsAssumption DEF FramesAreSound, FrameIsSound, HelperKinds
  <2>2. QED
    BY <1>0, <1>1, <2>1 DEF HelpersAreAlone
<1>6. \A t \in Stmts : HelperOwned(t)' = HelperOwned(t)
  BY <1>1 DEF HelperOwned
<1>7. StmtCountsAreExact'
  BY <1>0, <1>6 DEF StmtCountsAreExact
<1>8. ConnCountsAreExact'
  BY <1>0 DEF ConnCountsAreExact, LiveStmts
<1>9. QED
  BY <1>2, <1>3, <1>4, <1>5, <1>7, <1>8 DEF IInv

LEMMA BeginStepIInv ==
  ASSUME IInv, NEW s \in Stmts, BeginStep(s)
  PROVE  IInv'
<1>1. CASE stmt[s].vdbe = "finalized"
  BY <1>1, FaultIInv DEF BeginStep, Faults
<1>2. CASE stmt[s].vdbe # "finalized"
  <2> DEFINE f == [kind |-> "step", conn |-> stmt[s].conn, stmt |-> s]
  <2> DEFINE r == [stmt[s] EXCEPT !.vdbe = "running"]
  <2>1. /\ stmtRefs[s] > 0 /\ stmt[s].vdbe # "null"
        /\ stmt' = [stmt EXCEPT ![s] = r]
        /\ calls' = Append(calls, f)
        /\ UNCHANGED <<conn, connRefs, stmtRefs, observers, fault>>
    BY <1>2 DEF BeginStep, MayTouch
  <2>2. /\ stmt[s].state = "live" /\ stmt[s].conn \in Conns /\ stmtRefs[s] \in Nat
        /\ stmt[s].vdbe \in Compiled /\ ~HelperOwned(s)
        /\ stmt[s].retainCount = stmtRefs[s]
    BY <1>2, <2>1, StmtFacts, HeldIsNotPrivate DEF StmtRecord, Compiled
  <2>3. f \in Frame /\ f.kind = "step" /\ f.stmt = s /\ f.conn = stmt[s].conn
    BY <2>2 DEF Frame
  <2>4. /\ r \in StmtRecord /\ r.retainCount = stmt[s].retainCount
        /\ r.state = stmt[s].state /\ r.conn = stmt[s].conn /\ r.vdbe = "running"
    BY StmtFacts DEF StmtRecord
  <2> HIDE DEF f, r
  <2> DEFINE top == Len(calls) + 1
  <2>5. /\ calls' \in Seq(Frame)
        /\ DOMAIN calls' = DOMAIN calls \cup {top}
        /\ top \notin DOMAIN calls
        /\ calls'[top] = f
        /\ \A k \in DOMAIN calls : calls'[k] = calls[k]
    <3>1. calls \in Seq(Frame)
      BY DEF IInv, TypeOK
    <3>2. QED
      BY <2>1, <2>3, <3>1, PushFacts
  <2> HIDE DEF top
  <2>6. \A t \in Stmts : HelperOwned(t)' = HelperOwned(t)
    BY <2>3, <2>5 DEF HelperOwned, HelperKinds
  <2>7. \A k \in DOMAIN calls' :
          \/ k \in DOMAIN calls /\ calls'[k] = calls[k]
          \/ /\ calls'[k].kind = "step" /\ calls'[k].stmt = s
             /\ calls'[k].conn = stmt[s].conn /\ r.vdbe # "null"
    BY <2>3, <2>4, <2>5
  <2>8. /\ stmtRefs'[s] = stmtRefs[s]
        /\ stmtRefs' = [stmtRefs EXCEPT ![s] = stmtRefs'[s]]
    BY <2>1, StmtFacts
  <2>9. UNCHANGED <<conn, connRefs, observers, fault>>
    BY <2>1
  <2>10. QED
    BY <2>1, <2>2, <2>4, <2>5, <2>6, <2>7, <2>8, <2>9, OneStatementIInv
<1>3. QED
  BY <1>1, <1>2

LEMMA BeginExecIInv ==
  ASSUME IInv, NEW c \in Conns, BeginExec(c)
  PROVE  IInv'
<1>1. CASE conn[c].db = "closed"
  BY <1>1, FaultIInv DEF BeginExec, Faults
<1>2. CASE conn[c].db # "closed"
  <2> DEFINE f == [kind |-> "exec", conn |-> c, stmt |-> NoStmt]
  <2>1. /\ conn[c].state = "live"
        /\ calls' = Append(calls, f)
        /\ UNCHANGED <<conn, stmt, connRefs, stmtRefs, observers, fault>>
    BY <1>2 DEF BeginExec, MayUse, Reachable
  <2>2. f \in Frame /\ f.kind = "exec" /\ f.stmt = NoStmt /\ f.conn = c
    BY DEF Frame
  <2> HIDE DEF f
  <2>3. conn[f.conn].db = "open"
    BY <1>2, <2>1, <2>2, CountFacts DEF ConnRecord
  <2>4. f.kind \notin HelperKinds
    BY <2>2 DEF HelperKinds
  <2>5. FrameIsSound(f)
    BY <2>2, <2>3, <2>4 DEF FrameIsSound
  <2>6. QED
    BY <2>1, <2>2, <2>4, <2>5, PushIInv
<1>3. QED
  BY <1>1, <1>2

LEMMA TopFrame ==
  ASSUME IInv, calls # <<>>
  PROVE  Len(calls) \in DOMAIN calls /\ Top \in Frame /\ FrameIsSound(Top)
  BY PopFacts DEF IInv, TypeOK, FramesAreSound, Top

\* The frame on top of the stack, and what the stack is without it.
LEMMA TopFacts ==
  ASSUME IInv, calls # <<>>, calls' = Pop(calls)
  PROVE  /\ Top \in Frame /\ FrameIsSound(Top)
         /\ Len(calls) \in DOMAIN calls
         /\ calls' \in Seq(Frame)
         /\ DOMAIN calls' = DOMAIN calls \ {Len(calls)}
         /\ \A k \in DOMAIN calls' : calls'[k] = calls[k]
         /\ Top.kind \in HelperKinds => \A k \in DOMAIN calls' : calls[k].stmt # Top.stmt
         /\ \A t \in Stmts : (Top.kind \in HelperKinds /\ t = Top.stmt)
                              \/ HelperOwned(t)' = HelperOwned(t)
<1>1. calls \in Seq(Frame)
  BY DEF IInv, TypeOK
<1>2. /\ calls' \in Seq(Frame) /\ Len(calls) \in DOMAIN calls
      /\ DOMAIN calls' = DOMAIN calls \ {Len(calls)}
      /\ \A k \in DOMAIN calls' : calls'[k] = calls[k]
      /\ Top \in Frame
  BY <1>1, PopFacts DEF Top
<1>3. FrameIsSound(Top)
  BY <1>2 DEF IInv, FramesAreSound, Top
<1>4. Top.kind \in HelperKinds => \A k \in DOMAIN calls' : calls[k].stmt # Top.stmt
  BY <1>2 DEF IInv, HelpersAreAlone, Top
<1>5. \A t \in Stmts : (Top.kind \in HelperKinds /\ t = Top.stmt)
                         \/ HelperOwned(t)' = HelperOwned(t)
  BY <1>2 DEF HelperOwned, Top
<1>6. QED
  BY <1>2, <1>3, <1>4, <1>5

LEMMA EndStepIInv ==
  ASSUME IInv, EndStep
  PROVE  IInv'
<1>1. CASE Fault("disturbedWhileRunning") \/ Fault("hookAfterFree")
  BY <1>1, FaultIInv DEF Faults
<1>2. CASE ~(Fault("disturbedWhileRunning") \/ Fault("hookAfterFree"))
  <2> DEFINE s == Top.stmt
  <2>0. PICK v \in {"row", "idle"} : stmt' = [stmt EXCEPT ![s].vdbe = v]
    BY <1>2 DEF EndStep
  <2>1. /\ calls # <<>> /\ Top.kind = "step" /\ calls' = Pop(calls)
        /\ stmt[s].vdbe = "running"
        /\ UNCHANGED <<conn, connRefs, stmtRefs, observers, fault>>
    BY <1>2 DEF EndStep
  <2>2. Top.kind \notin HelperKinds
    BY <2>1 DEF HelperKinds
  <2>3. s \in Stmts /\ stmt[s].state # "unborn"
    BY <2>1, TopFacts DEF FrameIsSound
  <2>4. ~HelperOwned(s)
    <3> SUFFICES ASSUME NEW k \in DOMAIN calls, calls[k].kind \in HelperKinds, calls[k].stmt = s
                 PROVE  FALSE
      BY DEF HelperOwned
    <3>1. Len(calls) \in DOMAIN calls
      BY <2>1, TopFacts
    <3>2. k = Len(calls)
      BY <3>1 DEF IInv, HelpersAreAlone, Top
    <3>3. QED
      BY <2>2, <3>2 DEF Top
  <2>5. /\ calls' \in Seq(Frame)
        /\ \A k \in DOMAIN calls' : k \in DOMAIN calls /\ calls'[k] = calls[k]
        /\ \A t \in Stmts : HelperOwned(t)' = HelperOwned(t)
    BY <2>1, <2>2, TopFacts
  <2> HIDE DEF s
  <2> DEFINE r == [stmt[s] EXCEPT !.vdbe = v]
  <2>6. stmt' = [stmt EXCEPT ![s] = r]
    BY <2>0
  <2>7. /\ r \in StmtRecord /\ r.retainCount = stmt[s].retainCount
        /\ r.state = stmt[s].state /\ r.conn = stmt[s].conn /\ r.vdbe = v
    BY <2>3, StmtFacts DEF StmtRecord
  <2> HIDE DEF r
  <2>8. /\ stmtRefs'[s] = stmtRefs[s] /\ stmtRefs'[s] \in Nat
        /\ stmtRefs' = [stmtRefs EXCEPT ![s] = stmtRefs'[s]]
    BY <2>1, <2>3, StmtFacts
  <2>9. r.retainCount = stmtRefs'[s]
    BY <2>3, <2>4, <2>7, <2>8, StmtFacts
  <2>10. stmt[s].vdbe \in Compiled /\ r.vdbe # "null"
    BY <2>1, <2>7 DEF Compiled
  <2>11. UNCHANGED <<conn, connRefs, observers, fault>>
    BY <2>1
  <2>12. QED
    BY <2>3, <2>4, <2>5, <2>6, <2>7, <2>8, <2>9, <2>10, <2>11, OneStatementIInv
<1>3. QED
  BY <1>1, <1>2

LEMMA EndExecIInv ==
  ASSUME IInv, EndExec
  PROVE  IInv'
<1>1. CASE Fault("hookAfterFree")
  BY <1>1, FaultIInv DEF Faults
<1>2. CASE /\ calls' = Pop(calls)
           /\ UNCHANGED <<conn, stmt, connRefs, stmtRefs, observers, fault>>
  <2>1. calls # <<>> /\ Top.kind = "exec"
    BY DEF EndExec
  <2>2. Top.kind \notin HelperKinds
    BY <2>1 DEF HelperKinds
  <2>3. /\ calls' \in Seq(Frame) /\ DOMAIN calls' \subseteq DOMAIN calls
        /\ \A k \in DOMAIN calls' : calls'[k] = calls[k]
        /\ \A t \in Stmts : HelperOwned(t)' = HelperOwned(t)
    BY <1>2, <2>1, <2>2, TopFacts
  <2>4. TypeOK' /\ ShapesAreSound' /\ VdbeKeepsHandleOpen'
    BY <1>2, <2>3 DEF IInv, TypeOK, ShapesAreSound, VdbeKeepsHandleOpen
  <2>5. FramesAreSound' /\ HelpersAreAlone'
    BY <1>2, <2>3 DEF IInv, FramesAreSound, FrameIsSound, HelpersAreAlone
  <2>6. ConnCountsAreExact' /\ StmtCountsAreExact'
    BY <1>2, <2>3 DEF IInv, ConnCountsAreExact, LiveStmts, StmtCountsAreExact
  <2>7. QED
    BY <2>4, <2>5, <2>6 DEF IInv
<1>3. QED
  BY <1>1, <1>2 DEF EndExec

-----------------------------------------------------------------------------
(* Statements come and go.                                                   *)

\* Nothing in the state refers to a statement that was never created.
LEMMA UnbornFacts ==
  ASSUME IInv, NEW s \in Stmts, stmt[s].state = "unborn"
  PROVE  /\ stmtRefs[s] = 0
         /\ ~HelperOwned(s) /\ ~Running(s)
         /\ \A k \in DOMAIN calls : calls[k].stmt # s
<1>1. stmtRefs[s] = 0
  BY StmtFacts
<1>2. \A k \in DOMAIN calls : calls[k].stmt # s
  BY ConstantsAssumption DEF IInv, FramesAreSound, FrameIsSound
<1>3. QED
  BY <1>1, <1>2 DEF HelperOwned, Running

\* What a step that creates s on c does to the shapes and the counts of the
\* structs, whether the application or a helper ends up with the statement.
LEMMA AllocateFacts ==
  ASSUME IInv, NEW s \in Stmts, NEW c \in Conns, NEW v \in {"null", "idle", "running"},
         stmt[s].state = "unborn", conn[c].state = "live", conn[c].db = "open",
         Allocate(s, c, v),
         UNCHANGED <<connRefs, observers>>
  PROVE  /\ conn' \in [Conns -> ConnRecord] /\ stmt' \in [Stmts -> StmtRecord]
         /\ \A d \in Conns : conn'[d].db = conn[d].db
         /\ \A t \in Stmts \ {s} : stmt'[t] = stmt[t]
         /\ stmt'[s].state = "live" /\ stmt'[s].retainCount = 1 /\ stmt'[s].conn = c
         /\ stmt'[s].vdbe = v
         /\ ShapesAreSound' /\ ConnCountsAreExact' /\ VdbeKeepsHandleOpen'
<1>0. /\ TypeOK /\ ShapesAreSound /\ ConnCountsAreExact /\ VdbeKeepsHandleOpen
  BY DEF IInv
<1> DEFINE r == [conn[c] EXCEPT !.retainCount = @ + 1]
<1> DEFINE q == [state |-> "live", retainCount |-> 1, conn |-> c, vdbe |-> v]
<1>1. conn' = [conn EXCEPT ![c] = r] /\ stmt' = [stmt EXCEPT ![s] = q]
  BY DEF Allocate
<1>2. /\ r \in ConnRecord /\ r.retainCount = conn[c].retainCount + 1
      /\ r.state = "live" /\ r.db = "open"
  BY CountFacts DEF ConnRecord
<1>3. /\ q \in StmtRecord
      /\ q.state = "live" /\ q.retainCount = 1 /\ q.conn = c
      /\ q.vdbe = v
  BY DEF StmtRecord
<1> HIDE DEF r, q
<1>4. /\ \A d \in Conns : conn'[d] = IF d = c THEN r ELSE conn[d]
      /\ \A t \in Stmts : stmt'[t] = IF t = s THEN q ELSE stmt[t]
      /\ conn' \in [Conns -> ConnRecord] /\ stmt' \in [Stmts -> StmtRecord]
  BY <1>0, <1>1, <1>2, <1>3 DEF TypeOK
<1>5. ShapesAreSound'
  BY <1>0, <1>2, <1>3, <1>4, CountFacts DEF ShapesAreSound
<1>6. VdbeKeepsHandleOpen'
  BY <1>0, <1>2, <1>3, <1>4 DEF VdbeKeepsHandleOpen, ShapesAreSound, Compiled
<1>7. ConnCountsAreExact'
  <2> SUFFICES ASSUME NEW d \in Conns
               PROVE  conn'[d].retainCount = connRefs[d] + observers[d] + Cardinality(LiveStmts(d)')
    BY DEF ConnCountsAreExact
  <2>1. stmt'[s].state = "live" /\ stmt'[s].conn = c /\ \A t \in Stmts \ {s} : stmt'[t] = stmt[t]
    BY <1>3, <1>4
  <2>2. Cardinality(LiveStmts(d)') = Cardinality(LiveStmts(d)) + (IF d = c THEN 1 ELSE 0)
    BY <2>1, StmtBorn
  <2>3. conn'[d].retainCount = conn[d].retainCount + (IF d = c THEN 1 ELSE 0)
    BY <1>2, <1>4, CountFacts
  <2>4. QED
    BY <2>2, <2>3, CountFacts
<1>8. QED
  BY <1>2, <1>3, <1>4, <1>5, <1>6, <1>7

LEMMA StatementCreateIInv ==
  ASSUME IInv, NEW s \in Stmts, NEW c \in Conns, StatementCreate(s, c)
  PROVE  IInv'
<1>1. stmt[s].state = "unborn" /\ conn[c].state = "live"
  BY DEF StatementCreate, MayUse, Reachable
<1>2. CASE conn[c].db = "closed"
  BY <1>2, FaultIInv DEF StatementCreate, Faults
<1>3. CASE conn[c].db # "closed"
  <2>1. PICK v \in {"idle", "null"} :
          /\ Allocate(s, c, v)
          /\ stmtRefs' = [stmtRefs EXCEPT ![s] = 1]
          /\ UNCHANGED <<connRefs, observers, calls, fault>>
    BY <1>3 DEF StatementCreate
  <2>2. conn[c].db = "open"
    BY <1>1, <1>3, CountFacts DEF ConnRecord
  <2>3. UNCHANGED <<connRefs, observers>>
    BY <2>1
  <2>4. /\ conn' \in [Conns -> ConnRecord] /\ stmt' \in [Stmts -> StmtRecord]
        /\ \A d \in Conns : conn'[d].db = conn[d].db
        /\ \A t \in Stmts \ {s} : stmt'[t] = stmt[t]
        /\ stmt'[s].state = "live" /\ stmt'[s].retainCount = 1 /\ stmt'[s].conn = c
        /\ ShapesAreSound' /\ ConnCountsAreExact' /\ VdbeKeepsHandleOpen'
    BY <1>1, <2>1, <2>2, <2>3, AllocateFacts
  <2>5. \A t \in Stmts : stmtRefs'[t] = IF t = s THEN 1 ELSE stmtRefs[t]
    BY <2>1 DEF IInv, TypeOK
  <2>6. stmtRefs' \in [Stmts -> Nat] /\ TypeOK'
    BY <2>1, <2>4 DEF IInv, TypeOK
  <2>7. FramesAreSound'
    <3> SUFFICES ASSUME NEW k \in DOMAIN calls PROVE FrameIsSound(calls[k])'
      BY <2>1 DEF FramesAreSound
    <3>1. FrameIsSound(calls[k]) /\ calls[k].stmt # s /\ calls[k] \in Frame
      BY <1>1, UnbornFacts DEF IInv, FramesAreSound, TypeOK
    <3>2. calls[k].conn \in Conns /\ conn'[calls[k].conn].db = conn[calls[k].conn].db
      BY <2>4, <3>1 DEF Frame
    <3>3. calls[k].kind # "exec" =>
            calls[k].stmt \in Stmts /\ stmt'[calls[k].stmt] = stmt[calls[k].stmt]
                                    /\ stmtRefs'[calls[k].stmt] = stmtRefs[calls[k].stmt]
      BY <2>4, <2>5, <3>1 DEF FrameIsSound
    <3>4. calls[k].kind \in HelperKinds \cup {"step"} => calls[k].kind # "exec"
      BY DEF HelperKinds
    <3>5. QED
      BY <2>1, <3>1, <3>2, <3>3, <3>4 DEF FrameIsSound
  <2>8. HelpersAreAlone'
    BY <2>1 DEF IInv, HelpersAreAlone
  <2>9. StmtCountsAreExact'
    <3>1. \A t \in Stmts : HelperOwned(t)' = HelperOwned(t)
      BY <2>1 DEF HelperOwned
    <3>2. ~HelperOwned(s)
      BY <1>1, UnbornFacts
    <3>3. QED
      BY <2>4, <2>5, <3>1, <3>2 DEF IInv, StmtCountsAreExact
  <2>10. QED
    BY <2>4, <2>6, <2>7, <2>8, <2>9 DEF IInv
<1>4. QED
  BY <1>2, <1>3

LEMMA BeginHelperIInv ==
  ASSUME IInv, NEW kind \in Helpers, NEW s \in Stmts, NEW c \in Conns,
         BeginHelper(kind, s, c)
  PROVE  IInv'
<1>1. stmt[s].state = "unborn" /\ conn[c].state = "live" /\ kind \in HelperKinds
  BY ConstantsAssumption DEF BeginHelper, MayUse, Reachable
<1>2. CASE Fault("useAfterClose") \/ Fault("nullStatement")
  BY <1>2, FaultIInv DEF Faults
<1>3. CASE UNCHANGED vars
  BY <1>3, StutterIInv
<1> DEFINE f == [kind |-> kind, conn |-> c, stmt |-> s]
<1>4. CASE /\ conn[c].db # "closed"
           /\ Allocate(s, c, "running")
           /\ calls' = Append(calls, f)
           /\ UNCHANGED <<connRefs, stmtRefs, observers, fault>>
  <2>1. conn[c].db = "open"
    BY <1>1, <1>4, CountFacts DEF ConnRecord
  <2>2. UNCHANGED <<connRefs, observers>> /\ Allocate(s, c, "running")
    BY <1>4
  <2>3. /\ conn' \in [Conns -> ConnRecord] /\ stmt' \in [Stmts -> StmtRecord]
        /\ \A d \in Conns : conn'[d].db = conn[d].db
        /\ \A t \in Stmts \ {s} : stmt'[t] = stmt[t]
        /\ stmt'[s].state = "live" /\ stmt'[s].retainCount = 1 /\ stmt'[s].conn = c
        /\ stmt'[s].vdbe = "running"
        /\ ShapesAreSound' /\ ConnCountsAreExact' /\ VdbeKeepsHandleOpen'
    BY <1>1, <2>1, <2>2, AllocateFacts
  <2>4. /\ f \in Frame /\ f.kind = kind /\ f.conn = c /\ f.stmt = s
        /\ kind # "exec" /\ kind # "step"
    BY <1>1 DEF Frame, HelperKinds
  <2>5. calls' = Append(calls, f) /\ UNCHANGED <<connRefs, stmtRefs, observers, fault>>
    BY <1>4
  <2> HIDE DEF f
  <2> DEFINE top == Len(calls) + 1
  <2>6. /\ calls' \in Seq(Frame)
        /\ DOMAIN calls' = DOMAIN calls \cup {top}
        /\ top \notin DOMAIN calls
        /\ calls'[top] = f
        /\ \A k \in DOMAIN calls : calls'[k] = calls[k]
    <3>1. calls \in Seq(Frame)
      BY DEF IInv, TypeOK
    <3>2. QED
      BY <2>4, <2>5, <3>1, PushFacts
  <2> HIDE DEF top
  <2>7. TypeOK'
    BY <2>3, <2>5, <2>6 DEF IInv, TypeOK
  <2>8. /\ stmtRefs[s] = 0 /\ ~HelperOwned(s)
        /\ \A k \in DOMAIN calls : calls[k].stmt # s
    BY <1>1, UnbornFacts
  <2>9. FramesAreSound'
    <3> SUFFICES ASSUME NEW k \in DOMAIN calls' PROVE FrameIsSound(calls[k])'
      BY DEF FramesAreSound
    <3>1. CASE k = top
      BY <1>1, <2>1, <2>3, <2>4, <2>5, <2>6, <2>8, <3>1 DEF FrameIsSound
    <3>2. CASE k # top
      <4>1. /\ k \in DOMAIN calls /\ calls'[k] = calls[k]
            /\ FrameIsSound(calls[k]) /\ calls[k].stmt # s /\ calls[k] \in Frame
        BY <2>6, <2>8, <3>2 DEF IInv, FramesAreSound, TypeOK
      <4>2. calls[k].conn \in Conns /\ conn'[calls[k].conn].db = conn[calls[k].conn].db
        BY <2>3, <4>1 DEF Frame
      <4>3. calls[k].kind # "exec" =>
              calls[k].stmt \in Stmts /\ stmt'[calls[k].stmt] = stmt[calls[k].stmt]
        BY <2>3, <4>1 DEF FrameIsSound
      <4>4. calls[k].kind \in HelperKinds => calls[k].kind # "exec"
        BY DEF HelperKinds
      <4>5. QED
        BY <2>5, <4>1, <4>2, <4>3, <4>4 DEF FrameIsSound
    <3>3. QED
      BY <3>1, <3>2
  <2>10. HelpersAreAlone'
    BY <2>4, <2>6, <2>8 DEF IInv, HelpersAreAlone
  <2>11. StmtCountsAreExact'
    <3>1. HelperOwned(s)'
      BY <1>1, <2>4, <2>6 DEF HelperOwned
    <3>2. \A t \in Stmts \ {s} : HelperOwned(t)' = HelperOwned(t)
      BY <2>4, <2>6 DEF HelperOwned
    <3>3. QED
      BY <2>3, <2>5, <2>8, <3>1, <3>2 DEF IInv, StmtCountsAreExact
  <2>12. QED
    BY <2>3, <2>7, <2>9, <2>10, <2>11 DEF IInv
<1>5. QED
  BY <1>2, <1>3, <1>4 DEF BeginHelper

\* The last holder of a statement gives it up: the struct is freed and drops its
\* connection.  v is what became of the Vdbe.  A Vdbe left unfinalized keeps the
\* handle open (UnfinalizedBut), which is what the running calls rely on.
LEMMA FreeStatementIInv ==
  ASSUME IInv, NEW s \in Stmts, NEW v \in {"null", "idle", "running", "row", "finalized"},
         stmt[s].retainCount = 1,
         v \in Compiled => stmt[s].vdbe \in Compiled,
         DropStatement(s, v),
         UNCHANGED <<connRefs, observers, fault>>,
         stmtRefs' = [stmtRefs EXCEPT ![s] = 0],
         calls' \in Seq(Frame), DOMAIN calls' \subseteq DOMAIN calls,
         \A k \in DOMAIN calls' :
           calls'[k] = calls[k] /\ (calls[k].stmt = s => calls[k].kind = "step" /\ v # "null"),
         \A t \in Stmts \ {s} : HelperOwned(t)' = HelperOwned(t)
  PROVE  IInv'
<1>0. /\ TypeOK /\ ShapesAreSound /\ FramesAreSound /\ HelpersAreAlone
      /\ ConnCountsAreExact /\ StmtCountsAreExact /\ VdbeKeepsHandleOpen
  BY DEF IInv
<1> DEFINE c == stmt[s].conn
<1> DEFINE S == IF v = "finalized" THEN {s} ELSE {}
<1> DEFINE q == [state |-> "freed", retainCount |-> stmt[s].retainCount - 1,
                 conn |-> stmt[s].conn, vdbe |-> v]
<1> DEFINE r == Dropped(c, S)
<1>1. stmt[s].state = "live" /\ stmt[s] \in StmtRecord
  BY StmtFacts
<1>2. c \in Conns /\ conn[c].retainCount > 0
  BY <1>1, LiveStmtCounts
<1>3. DropConnection(c, S) /\ stmt' = [stmt EXCEPT ![s] = q]
  BY DEF DropStatement
<1>4. /\ q \in StmtRecord /\ q.state = "freed" /\ q.retainCount = 0
      /\ q.conn = c /\ q.vdbe = v
  BY <1>1 DEF StmtRecord
<1>5. v = "finalized" \/ S = {}
  OBVIOUS
<1>6. S \subseteq {s}
  OBVIOUS
<1> HIDE DEF S, q
<1>7. /\ conn' = [conn EXCEPT ![c] = r]
      /\ r \in ConnRecord /\ r.retainCount = conn[c].retainCount - 1
      /\ r.state = "live" <=> r.retainCount > 0
      /\ r.state # "unborn" /\ r.db # "none"
      /\ r.db = conn[c].db \/ ~UnfinalizedBut(c, S)
  BY <1>2, <1>3, DroppedFacts
<1> HIDE DEF r
<1>8. /\ \A t \in Stmts : stmt'[t] = IF t = s THEN q ELSE stmt[t]
      /\ \A t \in Stmts : stmtRefs'[t] = IF t = s THEN 0 ELSE stmtRefs[t]
      /\ \A d \in Conns : conn'[d] = IF d = c THEN r ELSE conn[d]
  BY <1>0, <1>3, <1>7 DEF TypeOK
<1>9. c = stmt[s].conn
  OBVIOUS
<1> HIDE DEF c
<1>10. TypeOK'
  BY <1>0, <1>3, <1>4, <1>7 DEF TypeOK
<1>11. ShapesAreSound'
  BY <1>0, <1>2, <1>4, <1>7, <1>8 DEF ShapesAreSound
<1>12. ConnCountsAreExact'
  <2> SUFFICES ASSUME NEW d \in Conns
               PROVE  conn'[d].retainCount = connRefs[d] + observers[d] + Cardinality(LiveStmts(d)')
    BY DEF ConnCountsAreExact
  <2>1. stmt'[s].state = "freed" /\ \A t \in Stmts \ {s} : stmt'[t] = stmt[t]
    BY <1>4, <1>8
  <2>2. Cardinality(LiveStmts(d)') = Cardinality(LiveStmts(d)) - (IF d = c THEN 1 ELSE 0)
    BY <1>1, <1>2, <1>9, <2>1, StmtGone
  <2>3. conn'[d].retainCount = conn[d].retainCount - (IF d = c THEN 1 ELSE 0)
    BY <1>2, <1>7, <1>8, CountFacts DEF ConnRecord
  <2>4. conn[d].retainCount = connRefs[d] + observers[d] + Cardinality(LiveStmts(d))
    BY CountFacts
  <2>5. connRefs[d] \in Nat /\ observers[d] \in Nat /\ Cardinality(LiveStmts(d)) \in Nat
    BY CountFacts
  <2>6. QED
    BY <2>2, <2>3, <2>4, <2>5
<1>13. VdbeKeepsHandleOpen'
  <2> SUFFICES ASSUME NEW t \in Stmts, stmt'[t].vdbe \in Compiled
               PROVE  conn'[stmt'[t].conn].db = "open"
    BY DEF VdbeKeepsHandleOpen
  <2>1. stmt[t].vdbe \in Compiled /\ stmt'[t].conn = stmt[t].conn
    BY <1>4, <1>8, <1>9
  <2>2. stmt[t].conn \in Conns /\ conn[stmt[t].conn].db = "open"
    BY <1>0, <2>1 DEF ShapesAreSound, VdbeKeepsHandleOpen, Compiled
  <2>3. t \notin S
    BY <1>4, <1>5, <1>6, <1>8 DEF Compiled
  <2>4. stmt[t].conn = c => UnfinalizedBut(c, S)
    BY <2>1, <2>3 DEF UnfinalizedBut
  <2>5. QED
    BY <1>7, <1>8, <2>1, <2>2, <2>4
<1>14. FramesAreSound'
  <2> SUFFICES ASSUME NEW k \in DOMAIN calls' PROVE FrameIsSound(calls[k])'
    BY DEF FramesAreSound
  <2>1. /\ k \in DOMAIN calls /\ calls'[k] = calls[k]
        /\ FrameIsSound(calls[k]) /\ calls[k].conn \in Conns
    BY <1>0, ConnTypes DEF FramesAreSound
  <2>2. CASE calls[k].kind = "exec"
    <3>1. calls[k].conn = c => UnfinalizedBut(c, S)
      BY <2>1, <2>2 DEF UnfinalizedBut, Executing
    <3>2. conn'[calls[k].conn].db = "open" /\ calls[k].stmt = NoStmt
      BY <1>7, <1>8, <2>1, <2>2, <3>1 DEF FrameIsSound
    <3>3. QED
      BY <2>1, <2>2, <3>2 DEF FrameIsSound, HelperKinds
  <2>3. CASE calls[k].kind # "exec" /\ calls[k].stmt = s
    <3>1. calls[k].kind = "step" /\ v # "null" /\ stmt'[s] = q
      BY <1>8, <2>3
    <3>2. QED
      BY <1>4, <1>9, <2>1, <2>3, <3>1 DEF FrameIsSound, HelperKinds
  <2>4. CASE calls[k].kind # "exec" /\ calls[k].stmt # s
    <3>1. /\ calls[k].stmt \in Stmts
          /\ stmt'[calls[k].stmt] = stmt[calls[k].stmt]
          /\ stmtRefs'[calls[k].stmt] = stmtRefs[calls[k].stmt]
      BY <1>8, <2>1, <2>4 DEF FrameIsSound
    <3>2. QED
      BY <2>1, <2>4, <3>1 DEF FrameIsSound
  <2>5. QED
    BY <2>2, <2>3, <2>4
<1>15. HelpersAreAlone'
  BY <1>0 DEF HelpersAreAlone
<1>16. StmtCountsAreExact'
  <2>1. ~HelperOwned(s)'
    BY DEF HelperOwned, HelperKinds
  <2>2. QED
    BY <1>0, <1>4, <1>8, <2>1 DEF StmtCountsAreExact
<1>17. QED
  BY <1>10, <1>11, <1>12, <1>13, <1>14, <1>15, <1>16 DEF IInv

LEMMA StatementReleaseIInv ==
  ASSUME IInv, NEW s \in Stmts, StatementRelease(s)
  PROVE  IInv'
<1>1. stmtRefs[s] > 0
  BY DEF StatementRelease
<1>2. stmt[s].retainCount = stmtRefs[s] /\ stmtRefs[s] \in Nat
  BY <1>1, StmtFacts, HeldIsNotPrivate
<1>3. CASE stmt[s].retainCount = 1 /\ ClosesTwice(stmt[s].conn)
  BY <1>3, FaultIInv DEF StatementRelease, Faults
<1>4. CASE stmt[s].retainCount = 1 /\ ~ClosesTwice(stmt[s].conn)
  <2>1. /\ DropStatement(s, stmt[s].vdbe)
        /\ stmtRefs' = [stmtRefs EXCEPT ![s] = stmtRefs[s] - 1]
        /\ UNCHANGED <<connRefs, observers, calls, fault>>
    BY <1>4 DEF StatementRelease
  <2>2. stmtRefs[s] = 1
    BY <1>2, <1>4
  <2>3. stmtRefs' = [stmtRefs EXCEPT ![s] = 0]
    BY <2>1, <2>2
  <2>4. \A k \in DOMAIN calls : calls[k].stmt = s =>
          calls[k].kind = "step" /\ stmt[s].vdbe # "null"
    <3> SUFFICES ASSUME NEW k \in DOMAIN calls, calls[k].stmt = s
                 PROVE  calls[k].kind = "step" /\ stmt[s].vdbe # "null"
      OBVIOUS
    <3>1. FrameIsSound(calls[k]) /\ calls[k] \in Frame
      BY DEF IInv, FramesAreSound, TypeOK
    <3>2. calls[k].kind \notin HelperKinds
      BY <1>1, HeldIsNotPrivate DEF HelperOwned
    <3>3. calls[k].kind # "exec"
      BY <3>1, ConstantsAssumption DEF FrameIsSound
    <3>4. QED
      BY <3>1, <3>2, <3>3 DEF FrameIsSound, Frame
  <2>5. /\ calls' \in Seq(Frame) /\ DOMAIN calls' \subseteq DOMAIN calls
        /\ \A k \in DOMAIN calls' :
             calls'[k] = calls[k] /\ (calls[k].stmt = s => calls[k].kind = "step" /\ stmt[s].vdbe # "null")
    BY <2>1, <2>4 DEF IInv, TypeOK
  <2>6. \A t \in Stmts \ {s} : HelperOwned(t)' = HelperOwned(t)
    BY <2>1 DEF HelperOwned
  <2>7. stmt[s].vdbe \in {"null", "idle", "running", "row", "finalized"}
    BY StmtFacts DEF StmtRecord
  <2>8. UNCHANGED <<connRefs, observers, fault>>
    BY <2>1
  <2>9. stmt[s].retainCount = 1 /\ DropStatement(s, stmt[s].vdbe)
    BY <1>4, <2>1
  <2>10. QED
    BY <2>3, <2>5, <2>6, <2>7, <2>8, <2>9, FreeStatementIInv
<1>5. CASE stmt[s].retainCount # 1
  BY <1>1, <1>2, <1>5, StatementReleaseOneIInv
<1>6. QED
  BY <1>3, <1>4, <1>5

LEMMA EndHelperIInv ==
  ASSUME IInv, EndHelper
  PROVE  IInv'
<1>1. CASE Fault("useAfterFree")
  BY <1>1, FaultIInv DEF Faults
<1>2. CASE ~Fault("useAfterFree")
  <2> DEFINE s == Top.stmt
  <2>0. PICK v \in LeavesVdbe(Top.kind) : DropStatement(s, v)
    BY <1>2 DEF EndHelper
  <2>1. /\ calls # <<>> /\ Top.kind \in HelperKinds
        /\ DropStatement(s, v)
        /\ calls' = Pop(calls)
        /\ UNCHANGED <<connRefs, stmtRefs, observers, fault>>
    BY <1>2, <2>0 DEF EndHelper
  <2>2. v \in {"idle", "row", "finalized"}
    BY DEF LeavesVdbe
  <2>3. Top.kind # "exec"
    BY <2>1 DEF HelperKinds
  <2>4. /\ s \in Stmts /\ stmtRefs[s] = 0 /\ stmt[s].state = "live"
        /\ stmt[s].vdbe \in Compiled
    BY <2>1, <2>3, TopFacts DEF FrameIsSound, Compiled
  <2>5. /\ calls' \in Seq(Frame) /\ DOMAIN calls' \subseteq DOMAIN calls
        /\ \A k \in DOMAIN calls' : calls'[k] = calls[k] /\ calls[k].stmt # s
        /\ \A t \in Stmts \ {s} : HelperOwned(t)' = HelperOwned(t)
    BY <2>1, TopFacts
  <2>6. stmt[s].retainCount = 1
    BY <2>4, StmtFacts
  <2>7. stmtRefs' = [stmtRefs EXCEPT ![s] = 0]
    BY <2>1, <2>4, StmtFacts
  <2>8. UNCHANGED <<connRefs, observers, fault>>
    BY <2>1
  <2>9. v \in {"null", "idle", "running", "row", "finalized"} /\ v # "null"
    BY <2>2
  <2>10. DropStatement(s, v)
    BY <2>1
  <2>11. \A k \in DOMAIN calls' :
           calls'[k] = calls[k] /\ (calls[k].stmt = s => calls[k].kind = "step" /\ v # "null")
    BY <2>5
  <2>12. v \in Compiled => stmt[s].vdbe \in Compiled
    BY <2>4
  <2> HIDE DEF s
  <2>13. QED
    BY <2>4, <2>5, <2>6, <2>7, <2>8, <2>9, <2>10, <2>11, <2>12, FreeStatementIInv
<1>3. QED
  BY <1>1, <1>2

-----------------------------------------------------------------------------
(* The theorems.                                                             *)

LEMMA NextIInv == IInv /\ [Next]_vars => IInv'
<1> SUFFICES ASSUME IInv, [Next]_vars PROVE IInv'
  OBVIOUS
<1>1. ASSUME NEW c \in Conns, ConnectionStep(c) PROVE IInv'
  BY <1>1, ConnectionCreateIInv, ConnectionRetainIInv, ConnectionReleaseIInv,
     ConnectionCloseIInv, BeginExecIInv DEF ConnectionStep
<1>2. ASSUME NEW s \in Stmts, StatementStep(s) PROVE IInv'
  BY <1>2, StatementRetainIInv, StatementReleaseIInv, StatementResetIInv,
     StatementClearBindingsIInv, StatementFinalizeIInv, BeginStepIInv DEF StatementStep
<1>3. ASSUME NEW s \in Stmts, NEW c \in Conns, StatementCreate(s, c) PROVE IInv'
  BY <1>3, StatementCreateIInv
<1>4. ASSUME NEW kind \in Helpers, NEW s \in Stmts, NEW c \in Conns,
             BeginHelper(kind, s, c)
      PROVE  IInv'
  BY <1>4, BeginHelperIInv
<1>5. CASE EndStep \/ EndHelper \/ EndExec
  BY <1>5, EndStepIInv, EndHelperIInv, EndExecIInv
<1>6. CASE UNCHANGED vars
  BY <1>6, StutterIInv
<1>7. QED
  BY <1>1, <1>2, <1>3, <1>4, <1>5, <1>6 DEF Next

\* IInv is inductive: it holds in every reachable state, whatever the rules the
\* application keeps and whichever helpers it calls.
THEOREM Invariance == Spec => []IInv
<1>1. QED
  BY InitIInv, NextIInv, PTL DEF Spec

\* Every variable keeps its type; above all, no retain count goes negative.
THEOREM TypeCorrect == Spec => []TypeOK
<1>1. IInv => TypeOK
  BY DEF IInv
<1>2. QED
  BY <1>1, Invariance, PTL

\* The retain count of every struct is the number of its holders, and a struct
\* is live exactly while it has one (SQLite3Connection.c:64-92,
\* SQLite3Statement.c:108-127).
THEOREM CountsAreExact == Spec => []RetainCountsAreExact
<1>1. IInv => RetainCountsAreExact
  BY DEF IInv, ShapesAreSound, ConnCountsAreExact, StmtCountsAreExact, RetainCountsAreExact
<1>2. QED
  BY <1>1, Invariance, PTL

\* A live statement always finds its connection, and with a Vdbe an open handle
\* (the CFRetain of SQLite3Statement.c:23 and the CFRelease of :122).
THEOREM StatementsPin == Spec => []StatementPinsConnection
<1>1. IInv => StatementPinsConnection
  <2> SUFFICES ASSUME IInv, NEW s \in Stmts, stmt[s].state = "live"
               PROVE  /\ conn[stmt[s].conn].state = "live"
                      /\ stmt[s].vdbe \in Compiled => conn[stmt[s].conn].db = "open"
    BY DEF StatementPinsConnection
  <2>1. QED
    BY LiveStmtCounts DEF IInv, VdbeKeepsHandleOpen
<1>2. QED
  BY <1>1, Invariance, PTL

\* Whatever its callbacks release, close and finalize, a call inside sqlite3 has its
\* handle open unless the application finalized the very statement it is stepping
\* (sqlite3_close is refused, SQLite3Connection.c:61,68), and a helper has its
\* statement and its connection.
THEOREM RunningCallsAreSafe == Spec => []RunningCallIsSafe
<1>1. IInv => RunningCallIsSafe
  <2> SUFFICES ASSUME IInv, NEW k \in DOMAIN calls
               PROVE  /\ \/ conn[calls[k].conn].db = "open"
                         \/ calls[k].kind = "step" /\ stmt[calls[k].stmt].vdbe = "finalized"
                      /\ calls[k].kind \in HelperKinds =>
                           /\ stmt[calls[k].stmt].state = "live"
                           /\ stmt[calls[k].stmt].vdbe = "running"
                           /\ conn[calls[k].conn].state = "live"
    BY DEF RunningCallIsSafe
  <2>1. calls[k] \in Frame /\ FrameIsSound(calls[k])
    BY DEF IInv, TypeOK, FramesAreSound
  <2>2. CASE calls[k].kind = "exec"
    BY <2>1, <2>2 DEF FrameIsSound, HelperKinds
  <2>3. CASE calls[k].kind = "step"
    <3>1. /\ calls[k].stmt \in Stmts /\ stmt[calls[k].stmt].conn = calls[k].conn
          /\ stmt[calls[k].stmt].vdbe # "null"
      BY <2>1, <2>3 DEF FrameIsSound
    <3>2. stmt[calls[k].stmt].vdbe \in Compiled \cup {"finalized"}
      BY <3>1, StmtFacts DEF StmtRecord, Compiled
    <3>3. QED
      BY <2>3, <3>1, <3>2 DEF IInv, VdbeKeepsHandleOpen, HelperKinds
  <2>4. CASE calls[k].kind \in HelperKinds
    <3>1. /\ calls[k].stmt \in Stmts /\ stmt[calls[k].stmt].conn = calls[k].conn
          /\ stmt[calls[k].stmt].state = "live" /\ stmt[calls[k].stmt].vdbe = "running"
      BY <2>1, <2>4 DEF FrameIsSound, HelperKinds
    <3>2. conn[calls[k].conn].state = "live"
      BY <3>1, LiveStmtCounts
    <3>3. conn[calls[k].conn].db = "open"
      BY <3>1 DEF IInv, VdbeKeepsHandleOpen, Compiled
    <3>4. QED
      BY <3>1, <3>2, <3>3
  <2>5. QED
    BY <2>1, <2>2, <2>3, <2>4 DEF Frame
<1>2. QED
  BY <1>1, Invariance, PTL
=============================================================================
