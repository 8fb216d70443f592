---------------------------- MODULE FastEnumeration ----------------------------
(***************************************************************************)
(* `for (row in statement)`: -[SQLite3Statement countByEnumeratingWithState: *)
(* objects:count:] as the compiled loop drives it, on a statement that is   *)
(* bound, enumerated and bound again.                                       *)
(*                                                                          *)
(* The loop asks for a batch of at most BufferLen rows, runs its body for   *)
(* each and asks for the next batch until it gets none.  Before every body  *)
(* it compares *state->mutationsPtr with what it was after the first batch, *)
(* and raises an exception when it differs: that is code the compiler       *)
(* emits.  Here mutationsPtr points at state->extra[0], the status of the   *)
(* last sqlite3_step.                                                       *)
(***************************************************************************)
EXTENDS Integers, Sequences, FiniteSets

CONSTANTS
  Bindings,   \* what the application binds to the parameter of the query
  NoBinding,  \* the parameter before the first bind: NULL
  Rows,       \* the number of rows of the result, by binding
  BufferLen,  \* the len the compiled loop passes (16 in practice)
  MayFail     \* sqlite3_step can fail

ASSUME ConstantsAssumption ==
  /\ NoBinding \notin Bindings
  /\ Rows \in [Bindings \cup {NoBinding} -> Nat]
  /\ BufferLen \in Nat \ {0}
  /\ MayFail \in BOOLEAN

VARIABLES
  binding,    \* the value of the parameter
  vdbe,       \* the prepared statement: its state, the row it stands on
  phase,      \* where the loop is: "idle", "fetch" (in the method), "body"
  enum,       \* NSFastEnumerationState and the loop's copy of *mutationsPtr
  batch,      \* stackbuf: the rows the loop has not seen yet
  count,      \* the local variable count: rows put into the buffer by this call
  loop        \* history of the current or last loop

vars == <<binding, vdbe, phase, enum, batch, count, loop>>

Values == Bindings \cup {NoBinding}

TypeOK ==
  /\ binding \in Values
  /\ vdbe \in [state: {"reset", "row", "halted"}, row: Nat]
  /\ phase \in {"idle", "fetch", "body"}
  /\ enum \in [state: Nat, extra: {"unset", "row", "done", "error"},
               start: {"unset", "row", "done", "error"}]
  /\ batch \in Seq(Nat) /\ Len(batch) <= BufferLen
  /\ count \in 0 .. BufferLen
  /\ loop \in [of: Values, fresh: BOOLEAN, failed: BOOLEAN, interrupted: BOOLEAN,
               seen: Seq(Nat), outcome: {"none", "finished", "broken", "mutation"}]

AtRest == [state |-> "reset", row |-> 0]

-----------------------------------------------------------------------------
(* Between loops.                                                            *)

\* sqlite3_bind_* refuses a statement that was stepped and not reset, with a
\* status the callers here ignore.
Bindable == vdbe.state = "reset"

Bind(b) ==
  /\ phase = "idle" /\ Bindable
  /\ binding' = b
  /\ UNCHANGED <<vdbe, phase, enum, batch, count, loop>>

StatementReset ==
  /\ phase = "idle" /\ vdbe # AtRest
  /\ vdbe' = AtRest
  /\ loop' = [loop EXCEPT !.interrupted = FALSE]
  /\ UNCHANGED <<binding, phase, enum, batch, count>>

-----------------------------------------------------------------------------
(* countByEnumeratingWithState:objects:count:                                *)

\* The first call of a loop finds state->state zero.
StartLoop ==
  /\ phase = "idle"
  /\ phase' = "fetch"
  /\ enum' = [state |-> 0, extra |-> "row", start |-> "unset"]
  /\ batch' = <<>> /\ count' = 0
  /\ loop' = [of |-> binding, fresh |-> vdbe.state # "row", failed |-> FALSE,
              interrupted |-> loop.interrupted, seen |-> <<>>, outcome |-> "none"]
  /\ UNCHANGED <<binding, vdbe>>

\* What sqlite3_step returns, and the state it leaves.  A halted statement is
\* reset first, so it starts over.
NextRow == IF vdbe.state = "row" THEN vdbe.row + 1 ELSE 1

StepReturns(status) ==
  \/ /\ status = "row" /\ NextRow <= Rows[binding]
     /\ vdbe' = [state |-> "row", row |-> NextRow]
  \/ /\ \/ status = "done" /\ NextRow > Rows[binding]
        \/ status = "error" /\ MayFail
     /\ vdbe' = [state |-> "halted", row |-> 0]

\* Mutant: off by one.
HasRoomTooLong == count <= BufferLen
HasRoom == count < BufferLen

\* while (ROW == (extra[0] = step) && (count < len)): the step comes first, so a
\* batch that is full has taken one row more from the statement.
FetchRow ==
  /\ phase = "fetch" /\ HasRoom
  /\ StepReturns("row")
  /\ batch' = Append(batch, NextRow)
  /\ count' = count + 1
  /\ enum' = [enum EXCEPT !.state = @ + 1, !.extra = "row"]
  /\ UNCHANGED <<binding, phase, loop>>

\* Mutant: the reset at the end is missing.
EndOfRowsUnreset == UNCHANGED vdbe

\* count == 0: SQLite3StatementReset.
EndOfRows == vdbe' = AtRest

\* The loop gets no rows and is over.
Finish(failed) ==
  /\ phase' = "idle"
  /\ loop' = [loop EXCEPT !.outcome = "finished", !.failed = failed, !.interrupted = FALSE]

\* The while ends with something in the buffer.
BatchEnds ==
  /\ phase = "fetch" /\ count > 0
  /\ \E status \in {"row", "done", "error"} :
       /\ status = "row" => ~HasRoom
       /\ StepReturns(status)
       /\ enum' = [enum EXCEPT !.extra = status,
                               !.start = IF @ = "unset" THEN status ELSE @]
       /\ loop' = [loop EXCEPT !.failed = @ \/ status = "error"]
  /\ phase' = "body"
  /\ UNCHANGED <<binding, batch, count>>

\* ... or with nothing: the statement is reset right after the step.
NothingFetched ==
  /\ phase = "fetch" /\ count = 0
  /\ \E status \in {"done", "error"} :
       /\ \/ status = "done" /\ NextRow > Rows[binding]
          \/ status = "error" /\ MayFail
       /\ enum' = [enum EXCEPT !.extra = status]
       /\ Finish(loop.failed \/ status = "error")
  /\ EndOfRows
  /\ UNCHANGED <<binding, batch, count>>

\* Mutant: the rows are fetched without looking at the last status.
MoreToComeAlways == TRUE
MoreToCome == enum.extra = "row"

\* Mutant: a call that has nothing to deliver does not answer zero.
NextBatchNeverZero ==
  /\ phase = "body" /\ batch = <<>>
  /\ IF MoreToCome
     THEN phase' = "fetch" /\ count' = 0
     ELSE UNCHANGED <<phase, count>>
  /\ UNCHANGED <<binding, vdbe, enum, batch, loop>>

\* The buffer is used up, and the loop calls again.
NextBatch ==
  /\ phase = "body" /\ batch = <<>>
  /\ count' = 0
  /\ IF MoreToCome
     THEN phase' = "fetch" /\ UNCHANGED <<vdbe, loop>>
     ELSE Finish(loop.failed) /\ EndOfRows
  /\ UNCHANGED <<binding, enum, batch>>

-----------------------------------------------------------------------------
(* The compiled loop.                                                        *)

Interrupt(outcome) ==
  /\ phase' = "idle"
  /\ batch' = <<>>
  /\ loop' = [loop EXCEPT !.outcome = outcome, !.interrupted = TRUE]
  /\ UNCHANGED <<binding, vdbe, enum, count>>

Body ==
  /\ phase = "body" /\ batch # <<>> /\ enum.extra = enum.start
  /\ batch' = Tail(batch)
  /\ loop' = [loop EXCEPT !.seen = Append(@, Head(batch))]
  /\ UNCHANGED <<binding, vdbe, phase, enum, count>>

\* objc_enumerationMutation
RaiseMutation ==
  /\ phase = "body" /\ batch # <<>> /\ enum.extra # enum.start
  /\ Interrupt("mutation")

\* The body leaves the loop: enumerateWithQuery:usingBlock: when its block sets
\* terminate, or a break of the application's.  Nothing resets the statement.
Break ==
  /\ phase = "body" /\ loop.seen # <<>>
  /\ Interrupt("broken")

-----------------------------------------------------------------------------
Init ==
  /\ binding = NoBinding
  /\ vdbe = AtRest
  /\ phase = "idle"
  /\ enum = [state |-> 0, extra |-> "unset", start |-> "unset"]
  /\ batch = <<>> /\ count = 0
  /\ loop = [of |-> NoBinding, fresh |-> TRUE, failed |-> FALSE, interrupted |-> FALSE,
             seen |-> <<>>, outcome |-> "none"]

Enumerating == FetchRow \/ BatchEnds \/ NothingFetched \/ NextBatch \/ Body \/ RaiseMutation

Next ==
  \/ \E b \in Bindings : Bind(b)
  \/ StatementReset \/ StartLoop \/ Enumerating \/ Break

Spec == Init /\ [][Next]_vars

\* A loop that was entered keeps running.
FairSpec == Spec /\ WF_vars(Enumerating)
-----------------------------------------------------------------------------
(* Properties.                                                               *)

Seen == {loop.seen[i] : i \in DOMAIN loop.seen}

\* A loop sees rows of one result in order, none twice: it never runs past the
\* end into the statement's automatic restart.
RowsInOrder ==
  \A i, j \in DOMAIN loop.seen : i < j => loop.seen[i] < loop.seen[j]

\* What a loop that ended by itself has seen.  Every time the buffer is full the
\* step that ends the while takes a row nobody is given.
FinishedLoopSees ==
  loop.outcome = "finished" /\ loop.fresh /\ ~loop.failed =>
    Seen = {k \in 1 .. Rows[loop.of] : k % (BufferLen + 1) # 0}

\* A loop that ended by itself leaves the statement reset, so what is bound next
\* takes effect (Tests.m:75-83 binds again after a loop, without a reset).
BindTakesEffect == phase = "idle" /\ ~loop.interrupted => Bindable

\* Every loop ends.
LoopEnds == phase # "idle" ~> phase = "idle"

\* Tests.m:75-87: nothing changes the statement while it is enumerated, so no
\* loop is told that something did.
NoMutation == loop.outcome # "mutation"
=============================================================================
