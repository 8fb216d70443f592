------------------------------- MODULE Lifecycle -------------------------------
(***************************************************************************)
(* The reference-counted structs of SQLite3Connection.c, SQLite3Statement.c *)
(* and SQLite3Observer.c, and the two sqlite3 objects they own: the         *)
(* database handle `connection->db` and the prepared statement              *)
(* `statement->stmt` (a Vdbe).                                              *)
(*                                                                          *)
(* The environment is the application.  It holds references, calls the API  *)
(* on what it can reach, and is called back from inside sqlite3_step and    *)
(* sqlite3_exec by update callbacks and registered SQL functions; `calls`   *)
(* is the stack of API calls that are inside sqlite3, and while it is not   *)
(* empty every application action is callback code.  Only calls that can    *)
(* run a callback are split into a Begin and an End.                        *)
(*                                                                          *)
(* Undefined behaviour ends the run in `fault`.  Rules names the things the *)
(* application is careful about, see MayDrop, MayUse and MayTouch.          *)
(***************************************************************************)
EXTENDS Integers, Sequences, FiniteSets

CONSTANTS
  Conns,      \* connection structs that can be allocated
  Stmts,      \* statement structs that can be allocated
  Helpers,    \* the one-shot helpers the application calls
  Rules,      \* what the application is careful about
  NoStmt,     \* "no statement": the frame of sqlite3_exec
  NoConn,     \* the connection of a statement that was never allocated
  MaxRefs,    \* bound: references of the application per object
  MaxDepth    \* bound: nested calls into sqlite3

(***************************************************************************)
(* The one-shot helpers, by how they treat their private statement.         *)
(*   query     Get*WithQuery, Create{Number,String,...}WithQuery            *)
(*   exists    DoesTableExist, DoesViewExist, DoesIndexExist, ...           *)
(*   bindings  ExecuteWith{Array,Dictionary}Bindings                        *)
(*   insert    InsertWithTableNameAndDictionary, which goes on to read the  *)
(*             allocator of the connection after it released its statement  *)
(*   firstRow  Create{Array,Dictionary}ForFirstRow, CFType and property     *)
(*             list queries                                                 *)
(*   executev  Executev, hence every Drop*                                  *)
(*   enumerate enumerateWithQuery:usingBlock:, whose block runs callback    *)
(*             code as well; the dealloc of its statement object releases   *)
(*             the struct without finalizing it                             *)
(***************************************************************************)
HelperKinds     == {"query", "exists", "bindings", "insert", "firstRow", "executev", "enumerate"}
ChecksForNull   == {"bindings", "insert", "firstRow"}
ClearsBindings  == {"exists", "bindings"}
UsesConnLast    == {"insert"}
\* Mutant: the query helpers forget the finalize, as Executev does.
FinalizesLess   == {"exists", "bindings", "insert", "firstRow"}
Finalizes       == HelperKinds \ {"executev", "enumerate"}

\* What a helper leaves of its Vdbe: a block that terminates the enumeration
\* leaves it on a row.
LeavesVdbe(kind) ==
  IF kind \in Finalizes THEN {"finalized"}
  ELSE {"idle"} \cup (IF kind = "enumerate" THEN {"row"} ELSE {})

AllRules == { "FinalizeBeforeRelease", "FinalizeOnce", "AbandonAfterClose",
              "CallbackKeepsConnection", "CallbackKeepsStatement", "CompilableSQL" }

ASSUME ConstantsAssumption ==
  /\ IsFiniteSet(Stmts)
  /\ NoStmt \notin Stmts
  /\ NoConn \notin Conns
  /\ Helpers \subseteq HelperKinds
  /\ Rules \subseteq AllRules
  /\ MaxRefs \in Nat \ {0}
  /\ MaxDepth \in Nat

VARIABLES
  conn,       \* struct __SQLite3Connection: state, retainCount, and the handle db
  stmt,       \* struct __SQLite3Statement: state, retainCount, connection, vdbe
  connRefs,   \* references to each connection held by the application
  stmtRefs,   \* references to each statement held by the application
  observers,  \* SQLite3Observer structs created on each connection
  calls,      \* stack of calls that are inside sqlite3
  fault       \* "none", or the undefined behaviour that ended the run

vars == <<conn, stmt, connRefs, stmtRefs, observers, calls, fault>>

Unborn     == [state |-> "unborn", retainCount |-> 0, db |-> "none"]
UnbornStmt == [state |-> "unborn", retainCount |-> 0, conn |-> NoConn, vdbe |-> "null"]

ConnRecord == [state: {"unborn", "live", "freed"}, retainCount: Nat,
               db: {"none", "open", "closed"}]
StmtRecord == [state: {"unborn", "live", "freed"}, retainCount: Nat,
               conn: Conns \cup {NoConn},
               vdbe: {"null", "idle", "running", "row", "finalized"}]
Compiled   == {"idle", "running", "row"}      \* a Vdbe that is not yet finalized
Frame      == [kind: HelperKinds \cup {"step", "exec"}, conn: Conns,
               stmt: Stmts \cup {NoStmt}]
Faults     == {"none", "nullStatement", "useAfterFinalize", "useAfterClose",
               "useAfterFree", "hookAfterFree", "disturbedWhileRunning"}

TypeOK ==
  /\ conn \in [Conns -> ConnRecord]
  /\ stmt \in [Stmts -> StmtRecord]
  /\ connRefs \in [Conns -> Nat]
  /\ stmtRefs \in [Stmts -> Nat]
  /\ observers \in [Conns -> Nat]
  /\ calls \in Seq(Frame)
  /\ fault \in Faults

-----------------------------------------------------------------------------
(* What can be read off the state.                                           *)

LiveStmts(c) == {s \in Stmts : stmt[s].state = "live" /\ stmt[s].conn = c}

Executing(c) == \E i \in DOMAIN calls : calls[i].kind = "exec" /\ calls[i].conn = c

\* A call under way will use the connection again without holding it.
Borrowed(c) ==
  \E i \in DOMAIN calls : calls[i].kind \in {"exec"} \cup UsesConnLast /\ calls[i].conn = c

Top == calls[Len(calls)]
Pop(stack) == SubSeq(stack, 1, Len(stack) - 1)

Running(s) == \E i \in DOMAIN calls : calls[i].stmt = s

\* db->pVdbe: the statements sqlite3_close finds unfinalized, whether or not
\* the struct that owned them still exists; sqlite3_exec has one of its own.
\* S is a set of statements that were finalized just before.
UnfinalizedBut(c, S) ==
  \/ Executing(c)
  \/ \E s \in Stmts \ S : stmt[s].conn = c /\ stmt[s].vdbe \in Compiled

Unfinalized(c) == UnfinalizedBut(c, {})

\* The application can name a connection through a reference of its own,
\* through a statement it holds, or as the argument of its callback.
Reachable(c) ==
  /\ conn[c].state = "live"
  /\ \/ connRefs[c] > 0
     \/ \E s \in LiveStmts(c) : stmtRefs[s] > 0
     \/ \E i \in DOMAIN calls : calls[i].conn = c

\* References of the connection that no helper is about to drop.
Outstanding(c) ==
  connRefs[c] + observers[c] + Cardinality({s \in LiveStmts(c) : stmtRefs[s] > 0})

-----------------------------------------------------------------------------
(* The care the application takes.                                           *)

MayUse(c) ==
  /\ Reachable(c)
  /\ "AbandonAfterClose" \in Rules => conn[c].db = "open"

MayDrop(c) ==
  /\ "AbandonAfterClose" \in Rules => conn[c].db = "open" \/ Outstanding(c) > 1
  /\ "CallbackKeepsConnection" \in Rules => ~Borrowed(c) \/ Outstanding(c) > 1

MayTouch(s) ==
  /\ stmtRefs[s] > 0
  /\ "CallbackKeepsStatement" \in Rules => ~Running(s)
  /\ "FinalizeOnce" \in Rules => stmt[s].vdbe # "finalized"

Outcomes(kind) ==
  {"ok"} \cup
  (IF kind \in ChecksForNull \/ "CompilableSQL" \notin Rules THEN {"error"} ELSE {}) \cup
  (IF kind = "insert" \/ (kind \in ClearsBindings /\ "CompilableSQL" \in Rules)
   THEN {} ELSE {"empty"})

Fault(kind) ==
  /\ fault' = kind
  /\ UNCHANGED <<conn, stmt, connRefs, stmtRefs, observers, calls>>

-----------------------------------------------------------------------------
(* Connections.                                                              *)

ConnectionCreate(c) ==
  /\ conn[c].state = "unborn"
  /\ \/ /\ conn' = [conn EXCEPT ![c] = [state |-> "live", retainCount |-> 1, db |-> "open"]]
        /\ connRefs' = [connRefs EXCEPT ![c] = 1]
     \/ \* sqlite3_open_v2 failed: the struct is released and NULL returned
        /\ conn' = [conn EXCEPT ![c] = [state |-> "freed", retainCount |-> 0, db |-> "closed"]]
        /\ UNCHANGED connRefs
  /\ UNCHANGED <<stmt, stmtRefs, observers, calls, fault>>

ConnectionRetain(c) ==
  /\ Reachable(c)
  /\ connRefs[c] < MaxRefs
  /\ conn' = [conn EXCEPT ![c].retainCount = @ + 1]
  /\ connRefs' = [connRefs EXCEPT ![c] = @ + 1]
  /\ UNCHANGED <<stmt, stmtRefs, observers, calls, fault>>

\* The struct after SQLite3ConnectionRelease.  At zero the handle is closed, with
\* the status ignored: an unfinalized statement keeps the handle open.
Dropped(c, S) ==
  IF conn[c].retainCount - 1 > 0
  THEN [conn[c] EXCEPT !.retainCount = @ - 1]
  ELSE [state |-> "freed", retainCount |-> conn[c].retainCount - 1,
        db |-> IF UnfinalizedBut(c, S) THEN conn[c].db ELSE "closed"]

\* Mutant: a close that does not mind unfinalized statements.
DropConnectionForcesClose(c, S) ==
  conn' = [conn EXCEPT ![c] = IF conn[c].retainCount - 1 > 0 THEN Dropped(c, S)
                              ELSE [Dropped(c, S) EXCEPT !.db = "closed"]]

\* Mutant: the count is compared with < 0 instead of <= 0.
DropConnectionTooLate(c, S) == conn' = [conn EXCEPT ![c].retainCount = @ - 1]

DropConnection(c, S) == conn' = [conn EXCEPT ![c] = Dropped(c, S)]

\* The last release closes a handle that SQLite3ConnectionClose closed before.
ClosesTwice(c) == conn[c].retainCount - 1 <= 0 /\ conn[c].db = "closed"

ConnectionRelease(c) ==
  /\ connRefs[c] > 0
  /\ MayDrop(c)
  /\ IF ClosesTwice(c) THEN Fault("useAfterClose")
     ELSE /\ DropConnection(c, {})
          /\ connRefs' = [connRefs EXCEPT ![c] = @ - 1]
          /\ UNCHANGED <<stmt, stmtRefs, observers, calls, fault>>

ConnectionClose(c) ==
  /\ MayUse(c)
  /\ IF conn[c].db = "closed" THEN Fault("useAfterClose")
     ELSE /\ ~Unfinalized(c)      \* otherwise SQLITE_BUSY and nothing changes
          /\ conn' = [conn EXCEPT ![c].db = "closed"]
          /\ UNCHANGED <<stmt, connRefs, stmtRefs, observers, calls, fault>>

\* An observer retains the connection; SQLite3ObserverRelease is a stub that
\* returns NULL, so nothing ever drops that reference.
ObserverCreate(c) ==
  /\ Reachable(c)
  /\ observers[c] < MaxRefs
  /\ conn' = [conn EXCEPT ![c].retainCount = @ + 1]
  /\ observers' = [observers EXCEPT ![c] = @ + 1]
  /\ UNCHANGED <<stmt, connRefs, stmtRefs, calls, fault>>

-----------------------------------------------------------------------------
(* Statements.                                                               *)

\* Mutant: the statement does not retain its connection.
AllocateUnretained(s, c, vdbe) ==
  /\ UNCHANGED conn
  /\ stmt' = [stmt EXCEPT ![s] = [state |-> "live", retainCount |-> 1, conn |-> c,
                                  vdbe |-> vdbe]]

\* The struct a successful _SQLite3StatementCreate leaves.
Allocate(s, c, vdbe) ==
  /\ conn' = [conn EXCEPT ![c].retainCount = @ + 1]
  /\ stmt' = [stmt EXCEPT ![s] = [state |-> "live", retainCount |-> 1, conn |-> c,
                                  vdbe |-> vdbe]]

\* sqlite3_prepare_v2 yields no Vdbe for SQL without a statement in it.  When the
\* SQL does not compile the struct is released again and the caller gets NULL: the
\* connection is back to the count it had.
StatementCreate(s, c) ==
  /\ stmt[s].state = "unborn"
  /\ MayUse(c)
  /\ IF conn[c].db = "closed" THEN Fault("useAfterClose")
     ELSE \E vdbe \in {"idle", "null"} :
            /\ Allocate(s, c, vdbe)
            /\ stmtRefs' = [stmtRefs EXCEPT ![s] = 1]
            /\ UNCHANGED <<connRefs, observers, calls, fault>>

StatementRetain(s) ==
  /\ stmtRefs[s] \in 1 .. MaxRefs - 1
  /\ stmt' = [stmt EXCEPT ![s].retainCount = @ + 1]
  /\ stmtRefs' = [stmtRefs EXCEPT ![s] = @ + 1]
  /\ UNCHANGED <<conn, connRefs, observers, calls, fault>>

\* Mutant: every release drops the connection, not the last one only.
DropStatementAndConnection(s, vdbe) ==
  /\ DropConnection(stmt[s].conn, IF vdbe = "finalized" THEN {s} ELSE {})
  /\ stmt' = [stmt EXCEPT ![s].retainCount = @ - 1, ![s].vdbe = vdbe,
                          ![s].state = IF stmt[s].retainCount > 1 THEN "live" ELSE "freed"]

\* SQLite3StatementRelease: the last release drops the connection and frees the
\* struct.  It does not finalize.
DropStatement(s, vdbe) ==
  IF stmt[s].retainCount - 1 > 0
  THEN /\ stmt' = [stmt EXCEPT ![s].retainCount = @ - 1, ![s].vdbe = vdbe]
       /\ UNCHANGED conn
  ELSE /\ DropConnection(stmt[s].conn, IF vdbe = "finalized" THEN {s} ELSE {})
       /\ stmt' = [stmt EXCEPT ![s] = [state |-> "freed", retainCount |-> @.retainCount - 1,
                                       conn |-> @.conn, vdbe |-> vdbe]]

StatementRelease(s) ==
  /\ stmtRefs[s] > 0
  /\ stmt[s].retainCount = 1 => MayDrop(stmt[s].conn)
  /\ "FinalizeBeforeRelease" \in Rules /\ stmt[s].retainCount = 1
       => stmt[s].vdbe \in {"null", "finalized"}
  /\ IF stmt[s].retainCount = 1 /\ ClosesTwice(stmt[s].conn)
     THEN Fault("useAfterClose")
     ELSE /\ DropStatement(s, stmt[s].vdbe)
          /\ stmtRefs' = [stmtRefs EXCEPT ![s] = @ - 1]
          /\ UNCHANGED <<connRefs, observers, calls, fault>>

\* Nothing keeps a callback from resetting, finalizing or stepping the statement
\* that is being stepped; what comes of that shows when the step returns (EndStep).
StatementReset(s) ==
  /\ MayTouch(s)
  /\ IF stmt[s].vdbe = "finalized" THEN Fault("useAfterFinalize")
     ELSE /\ stmt[s].vdbe \in {"row", "running"}
          /\ stmt' = [stmt EXCEPT ![s].vdbe = "idle"]
          /\ UNCHANGED <<conn, connRefs, stmtRefs, observers, calls, fault>>

\* sqlite3_clear_bindings dereferences its argument unchecked, and frees values
\* that the registers of a running Vdbe may still point to.  Otherwise it alters
\* only the parameters, which are not part of this module.
StatementClearBindings(s) ==
  /\ MayTouch(s)
  /\ \/ stmt[s].vdbe = "null" /\ "CompilableSQL" \notin Rules /\ Fault("nullStatement")
     \/ stmt[s].vdbe = "finalized" /\ Fault("useAfterFinalize")
     \/ stmt[s].vdbe = "running" /\ Fault("disturbedWhileRunning")

\* statement->stmt keeps its value, so a second finalize is of a freed Vdbe.
StatementFinalize(s) ==
  /\ MayTouch(s)
  /\ IF stmt[s].vdbe = "finalized" THEN Fault("useAfterFinalize")
     ELSE /\ stmt[s].vdbe # "null"
          /\ stmt' = [stmt EXCEPT ![s].vdbe = "finalized"]
          /\ UNCHANGED <<conn, connRefs, stmtRefs, observers, calls, fault>>

BeginStep(s) ==
  /\ MayTouch(s)
  /\ IF stmt[s].vdbe = "finalized" THEN Fault("useAfterFinalize")
     ELSE /\ stmt[s].vdbe # "null"        \* otherwise SQLITE_MISUSE at once
          /\ Len(calls) < MaxDepth
          /\ stmt' = [stmt EXCEPT ![s].vdbe = "running"]
          /\ calls' = Append(calls, [kind |-> "step", conn |-> stmt[s].conn, stmt |-> s])
          /\ UNCHANGED <<conn, connRefs, stmtRefs, observers, fault>>

\* Back from its callbacks sqlite3_step goes on with the run it began.  A Vdbe that
\* was finalized, reset or stepped in the meantime is freed, has lost its cursors or
\* is in another place: undefined.  The struct may be gone, sqlite3 has no use for
\* it; the connection is used by the default hook, as in EndExec.
EndStep ==
  /\ calls # <<>> /\ Top.kind = "step"
  /\ \/ stmt[Top.stmt].vdbe # "running" /\ Fault("disturbedWhileRunning")
     \/ conn[Top.conn].state = "freed" /\ Fault("hookAfterFree")
     \/ /\ stmt[Top.stmt].vdbe = "running"
        /\ \E result \in {"row", "idle"} :
             stmt' = [stmt EXCEPT ![Top.stmt].vdbe = result]
        /\ calls' = Pop(calls)
        /\ UNCHANGED <<conn, connRefs, stmtRefs, observers, fault>>

-----------------------------------------------------------------------------
(* One-shot helpers and sqlite3_exec.                                        *)

\* A helper creates its statement and steps it.  A NULL statement (the SQL did
\* not compile) reaches SQLite3StatementStep unless the helper checks; a
\* statement without a Vdbe reaches sqlite3_clear_bindings if it clears.
BeginHelper(kind, s, c) ==
  /\ stmt[s].state = "unborn"
  /\ MayUse(c)
  /\ IF conn[c].db = "closed" THEN Fault("useAfterClose")
     ELSE \E outcome \in Outcomes(kind) :
       \/ /\ outcome = "ok"
          /\ Len(calls) < MaxDepth
          /\ Allocate(s, c, "running")
          /\ calls' = Append(calls, [kind |-> kind, conn |-> c, stmt |-> s])
          /\ UNCHANGED <<connRefs, stmtRefs, observers, fault>>
       \/ /\ \/ outcome = "error" /\ kind \notin ChecksForNull
             \/ outcome = "empty" /\ kind \in ClearsBindings
          /\ Fault("nullStatement")
       \/ \* refused at once: the private statement comes and goes
          /\ \/ outcome = "error" /\ kind \in ChecksForNull
             \/ outcome = "empty" /\ kind \notin ClearsBindings
          /\ UNCHANGED vars

\* The last step returned: reset, clear, finalize (if the helper does) and release.
\* The release may be the last of the connection, which the insert uses after it.
EndHelper ==
  /\ calls # <<>> /\ Top.kind \in HelperKinds
  /\ IF Top.kind \in UsesConnLast /\ conn[Top.conn].retainCount = 1
     THEN Fault("useAfterFree")
     ELSE /\ \E vdbe \in LeavesVdbe(Top.kind) : DropStatement(Top.stmt, vdbe)
          /\ calls' = Pop(calls)
          /\ UNCHANGED <<connRefs, stmtRefs, observers, fault>>

BeginExec(c) ==
  /\ MayUse(c)
  /\ IF conn[c].db = "closed" THEN Fault("useAfterClose")
     ELSE /\ Len(calls) < MaxDepth
          /\ calls' = Append(calls, [kind |-> "exec", conn |-> c, stmt |-> NoStmt])
          /\ UNCHANGED <<conn, stmt, connRefs, stmtRefs, observers, fault>>

\* SQLite3ConnectionExecute does not retain the connection.  Back from an update
\* callback the default hook reads the callback count of the connection; back
\* from a registered SQL function nothing does.
EndExec ==
  /\ calls # <<>> /\ Top.kind = "exec"
  /\ \/ conn[Top.conn].state = "freed" /\ Fault("hookAfterFree")
     \/ /\ calls' = Pop(calls)
        /\ UNCHANGED <<conn, stmt, connRefs, stmtRefs, observers, fault>>

-----------------------------------------------------------------------------
Init ==
  /\ conn = [c \in Conns |-> Unborn]
  /\ stmt = [s \in Stmts |-> UnbornStmt]
  /\ connRefs = [c \in Conns |-> 0]
  /\ stmtRefs = [s \in Stmts |-> 0]
  /\ observers = [c \in Conns |-> 0]
  /\ calls = <<>>
  /\ fault = "none"

ConnectionStep(c) ==
  \/ ConnectionCreate(c) \/ ConnectionRetain(c) \/ ConnectionRelease(c)
  \/ ConnectionClose(c) \/ ObserverCreate(c) \/ BeginExec(c)

StatementStep(s) ==
  \/ StatementRetain(s) \/ StatementRelease(s) \/ StatementReset(s)
  \/ StatementClearBindings(s) \/ StatementFinalize(s) \/ BeginStep(s)

Next ==
  /\ fault = "none"
  /\ \/ \E c \in Conns : ConnectionStep(c)
     \/ \E s \in Stmts : StatementStep(s)
     \/ \E s \in Stmts, c \in Conns : StatementCreate(s, c)
     \/ \E kind \in Helpers, s \in Stmts, c \in Conns : BeginHelper(kind, s, c)
     \/ EndStep \/ EndHelper \/ EndExec

Spec == Init /\ [][Next]_vars
-----------------------------------------------------------------------------
(* Properties.                                                               *)

HelperOwned(s) == \E i \in DOMAIN calls : calls[i].stmt = s /\ calls[i].kind \in HelperKinds

\* The retain count of a live struct is the number of its holders: for a
\* connection the application's references, its observers and its live
\* statements, for a statement the application's references or the helper that
\* created it.  Nobody holds a struct that was freed.
RetainCountsAreExact ==
  /\ \A c \in Conns :
       /\ conn[c].retainCount = connRefs[c] + observers[c] + Cardinality(LiveStmts(c))
       /\ conn[c].state = "live" <=> conn[c].retainCount > 0
  /\ \A s \in Stmts :
       /\ stmt[s].retainCount = stmtRefs[s] + (IF HelperOwned(s) THEN 1 ELSE 0)
       /\ stmt[s].state = "live" <=> stmt[s].retainCount > 0

\* A live statement can use its connection: the struct is there, and as long as
\* the statement has a Vdbe the handle is open, whatever the application
\* released or closed in the meantime, callbacks included.
StatementPinsConnection ==
  \A s \in Stmts : stmt[s].state = "live" =>
    /\ conn[stmt[s].conn].state = "live"
    /\ stmt[s].vdbe \in Compiled => conn[stmt[s].conn].db = "open"

\* Whatever callbacks release, close and finalize, a call inside sqlite3 keeps what
\* it needs but for what the application did to the very statement it is stepping:
\* the handle stays open unless the application finalized that statement, even when
\* all structs are gone; and a helper finds its private statement as it left it, and
\* its connection.
RunningCallIsSafe ==
  \A i \in DOMAIN calls :
    /\ \/ conn[calls[i].conn].db = "open"
       \/ calls[i].kind = "step" /\ stmt[calls[i].stmt].vdbe = "finalized"
    /\ calls[i].kind \in HelperKinds =>
         /\ stmt[calls[i].stmt].state = "live" /\ stmt[calls[i].stmt].vdbe = "running"
         /\ conn[calls[i].conn].state = "live"

\* An application that is careful in every respect never reaches undefined
\* behaviour.
NoFault == fault = "none"

\* Freeing a connection struct closes its handle: no handle is left open with
\* nothing to close it by.
NoHandleLeak == \A c \in Conns : conn[c].state = "freed" => conn[c].db = "closed"

\* Statement.c:113-116 and the comment at Tests.m:176: by the time a statement
\* struct is freed its Vdbe is finalized.
FreedStatementIsFinalized ==
  \A s \in Stmts : stmt[s].state = "freed" => stmt[s].vdbe \in {"null", "finalized"}

\* Each connection, seen from outside, is a handle shared by its holders.
Shared == INSTANCE SharedHandle WITH
  Handles <- Conns,
  handle  <- [c \in Conns |-> conn[c].db],
  holders <- [c \in Conns |-> connRefs[c] + observers[c] + Cardinality(LiveStmts(c))]

\* Releasing, finalizing and closing in any order the careful application can
\* choose, a handle is opened once, stays open while it is held and is closed
\* by the last holder or by an explicit close.
ImplementsSharedHandle == Shared!Spec
=============================================================================
