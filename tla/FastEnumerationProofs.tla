------------------------- MODULE FastEnumerationProofs -------------------------
(***************************************************************************)
(* What a loop over a statement promises for results and buffers of any      *)
(* size: the rows come in order, and the statement can be bound after it.    *)
(***************************************************************************)
EXTENDS FastEnumeration, TLAPS

\* The method is only entered again while the last step delivered a row.
FetchesAfterRow == phase = "fetch" => enum.extra = "row"

\* While it is in the method, count is the number of rows in the buffer.
CountIsBatch == phase = "fetch" => count = Len(batch)

\* The rows in the buffer are in order, and come after those the loop has seen.
BatchInOrder ==
  /\ \A i, j \in DOMAIN batch : i < j => batch[i] < batch[j]
  /\ \A i \in DOMAIN loop.seen : \A j \in DOMAIN batch : loop.seen[i] < batch[j]

\* While there may be more to come the statement stands on or behind everything
\* it has delivered to this loop, or it has delivered nothing.
StandsBehind ==
  phase # "idle" /\ enum.extra = "row" =>
    \/ /\ vdbe.state = "row"
       /\ \A i \in DOMAIN batch : batch[i] <= vdbe.row
       /\ \A i \in DOMAIN loop.seen : loop.seen[i] <= vdbe.row
    \/ vdbe.state # "row" /\ batch = <<>> /\ loop.seen = <<>>

Inv ==
  /\ TypeOK
  /\ FetchesAfterRow
  /\ CountIsBatch
  /\ BatchInOrder
  /\ RowsInOrder
  /\ StandsBehind
  /\ BindTakesEffect

-----------------------------------------------------------------------------
(* Sequences of rows.                                                        *)

LEMMA AppendRow ==
  ASSUME NEW s \in Seq(Nat), NEW r \in Nat
  PROVE  /\ Append(s, r) \in Seq(Nat) /\ Len(Append(s, r)) = Len(s) + 1
         /\ DOMAIN Append(s, r) = 1 .. Len(s) + 1 /\ DOMAIN s = 1 .. Len(s)
         /\ \A i \in 1 .. Len(s) : Append(s, r)[i] = s[i]
         /\ Append(s, r)[Len(s) + 1] = r
  OBVIOUS

LEMMA DropRow ==
  ASSUME NEW s \in Seq(Nat), s # <<>>
  PROVE  /\ Tail(s) \in Seq(Nat) /\ Len(Tail(s)) = Len(s) - 1
         /\ DOMAIN Tail(s) = 1 .. Len(s) - 1 /\ DOMAIN s = 1 .. Len(s)
         /\ \A i \in 1 .. Len(s) - 1 : Tail(s)[i] = s[i + 1]
         /\ Head(s) = s[1] /\ Head(s) \in Nat /\ Len(s) \in Nat \ {0}
  OBVIOUS

Ascending(s) == \A i, j \in DOMAIN s : i < j => s[i] < s[j]
Before(s, t) == \A i \in DOMAIN s : \A j \in DOMAIN t : s[i] < t[j]
AtMost(s, r) == \A i \in DOMAIN s : s[i] <= r

LEMMA AppendAbove ==
  ASSUME NEW s \in Seq(Nat), NEW r \in Nat, Ascending(s), \A i \in DOMAIN s : s[i] < r
  PROVE  Ascending(Append(s, r))
<1> DEFINE a == Append(s, r)
<1>1. /\ DOMAIN a = 1 .. Len(s) + 1 /\ DOMAIN s = 1 .. Len(s) /\ Len(s) \in Nat
      /\ \A i \in 1 .. Len(s) : a[i] = s[i]
      /\ a[Len(s) + 1] = r
  BY AppendRow
<1> HIDE DEF a
<1>2. ASSUME NEW i \in DOMAIN a, NEW j \in DOMAIN a, i < j PROVE a[i] < a[j]
  <2>1. i \in 1 .. Len(s) /\ a[i] = s[i] /\ i \in DOMAIN s
    BY <1>1, <1>2
  <2>2. CASE j = Len(s) + 1
    BY <1>1, <2>1, <2>2
  <2>3. CASE j # Len(s) + 1
    <3>1. j \in 1 .. Len(s) /\ a[j] = s[j] /\ j \in DOMAIN s
      BY <1>1, <2>3
    <3>2. QED
      BY <1>2, <2>1, <3>1 DEF Ascending
  <2>4. QED
    BY <2>2, <2>3
<1>3. QED
  BY <1>2 DEF Ascending, a

\* The body takes the head of the buffer.
LEMMA HeadMoves ==
  ASSUME NEW s \in Seq(Nat), NEW t \in Seq(Nat), t # <<>>,
         Ascending(s), Ascending(t), Before(s, t)
  PROVE  /\ Ascending(Append(s, Head(t))) /\ Ascending(Tail(t))
         /\ Before(Append(s, Head(t)), Tail(t))
<1> DEFINE u == Tail(t)
           a == Append(s, Head(t))
<1>1. /\ DOMAIN u = 1 .. Len(t) - 1 /\ DOMAIN t = 1 .. Len(t) /\ Len(t) \in Nat \ {0}
      /\ \A i \in 1 .. Len(t) - 1 : u[i] = t[i + 1]
      /\ Head(t) = t[1] /\ Head(t) \in Nat
  BY DropRow
<1>2. /\ DOMAIN a = 1 .. Len(s) + 1 /\ DOMAIN s = 1 .. Len(s) /\ Len(s) \in Nat
      /\ \A i \in 1 .. Len(s) : a[i] = s[i]
      /\ a[Len(s) + 1] = t[1]
  BY <1>1, AppendRow
<1>3. Ascending(a)
  BY <1>1, AppendAbove DEF Before
<1> HIDE DEF u, a
<1>4. ASSUME NEW i \in DOMAIN u
      PROVE  u[i] = t[i + 1] /\ i + 1 \in DOMAIN t /\ 1 \in DOMAIN t /\ i \in Int /\ 1 < i + 1
  BY <1>1
<1>5. ASSUME NEW i \in DOMAIN u, NEW j \in DOMAIN u, i < j PROVE u[i] < u[j]
  <2>1. i + 1 < j + 1
    BY <1>4, <1>5
  <2>2. QED
    BY <1>4, <2>1 DEF Ascending
<1>6. ASSUME NEW i \in DOMAIN a, NEW j \in DOMAIN u PROVE a[i] < u[j]
  <2>1. CASE i = Len(s) + 1
    BY <1>2, <1>4, <2>1 DEF Ascending
  <2>2. CASE i # Len(s) + 1
    <3>1. i \in DOMAIN s /\ a[i] = s[i]
      BY <1>2, <2>2
    <3>2. QED
      BY <1>4, <3>1 DEF Before
  <2>3. QED
    BY <2>1, <2>2
<1>7. QED
  BY <1>3, <1>5, <1>6 DEF Ascending, Before, u, a

LEMMA HeadMovesWithin ==
  ASSUME NEW s \in Seq(Nat), NEW t \in Seq(Nat), t # <<>>, NEW r \in Nat,
         AtMost(s, r), AtMost(t, r)
  PROVE  AtMost(Append(s, Head(t)), r) /\ AtMost(Tail(t), r)
<1> DEFINE u == Tail(t)
           a == Append(s, Head(t))
<1>1. /\ DOMAIN u = 1 .. Len(t) - 1 /\ DOMAIN t = 1 .. Len(t) /\ Len(t) \in Nat \ {0}
      /\ \A i \in 1 .. Len(t) - 1 : u[i] = t[i + 1]
      /\ Head(t) = t[1] /\ Head(t) \in Nat
  BY DropRow
<1>2. /\ DOMAIN a = 1 .. Len(s) + 1 /\ DOMAIN s = 1 .. Len(s) /\ Len(s) \in Nat
      /\ \A i \in 1 .. Len(s) : a[i] = s[i]
      /\ a[Len(s) + 1] = t[1]
  BY <1>1, AppendRow
<1> HIDE DEF u, a
<1>3. ASSUME NEW i \in DOMAIN u PROVE u[i] <= r
  <2>1. u[i] = t[i + 1] /\ i + 1 \in DOMAIN t
    BY <1>1
  <2>2. QED
    BY <2>1 DEF AtMost
<1>4. ASSUME NEW i \in DOMAIN a PROVE a[i] <= r
  <2>1. CASE i = Len(s) + 1
    <3>1. 1 \in DOMAIN t
      BY <1>1
    <3>2. t[1] <= r
      BY <3>1 DEF AtMost
    <3>3. QED
      BY <1>2, <2>1, <3>2
  <2>2. CASE i # Len(s) + 1
    <3>1. i \in DOMAIN s /\ a[i] = s[i]
      BY <1>2, <2>2
    <3>2. QED
      BY <3>1 DEF AtMost
  <2>3. QED
    BY <2>1, <2>2
<1>5. QED
  BY <1>3, <1>4 DEF AtMost, u, a

LEMMA InitInv == Init => Inv
<1> SUFFICES ASSUME Init PROVE Inv
  OBVIOUS
<1> USE ConstantsAssumption DEF Init
<1>1. TypeOK
  BY DEF TypeOK, AtRest, Values
<1>2. FetchesAfterRow /\ CountIsBatch /\ BatchInOrder /\ RowsInOrder /\ StandsBehind
  BY DEF FetchesAfterRow, CountIsBatch, BatchInOrder, RowsInOrder, StandsBehind
<1>3. BindTakesEffect
  BY DEF BindTakesEffect, Bindable, AtRest
<1>4. QED
  BY <1>1, <1>2, <1>3 DEF Inv

-----------------------------------------------------------------------------
(* The steps.                                                                *)

LEMMA NextRowType == TypeOK => NextRow \in Nat
  BY DEF TypeOK, NextRow

LEMMA StepKeepsTypes ==
  ASSUME TypeOK, NEW status \in {"row", "done", "error"}, StepReturns(status)
  PROVE  vdbe' \in [state: {"reset", "row", "halted"}, row: Nat]
  BY NextRowType DEF StepReturns

LEMMA FetchRowInv == Inv /\ FetchRow => Inv'
<1> SUFFICES ASSUME Inv, FetchRow PROVE Inv'
  OBVIOUS
<1>1. TypeOK
  BY DEF Inv
<1>2. /\ NextRow \in Nat /\ batch \in Seq(Nat) /\ batch' = Append(batch, NextRow)
      /\ vdbe' = [state |-> "row", row |-> NextRow]
      /\ loop' = loop /\ phase' = phase /\ phase = "fetch" /\ enum'.extra = "row"
      /\ loop.seen \in Seq(Nat) /\ binding' = binding /\ count' = count + 1
  BY <1>1, NextRowType DEF FetchRow, StepReturns, TypeOK
<1>3. /\ \A i \in DOMAIN batch : batch[i] < NextRow
      /\ \A i \in DOMAIN loop.seen : loop.seen[i] < NextRow
  <2>1. CASE vdbe.state = "row"
    <3>1. NextRow = vdbe.row + 1 /\ vdbe.row \in Nat
      BY <1>1, <2>1 DEF NextRow, TypeOK
    <3>2. /\ \A i \in DOMAIN batch : batch[i] \in Nat /\ batch[i] <= vdbe.row
          /\ \A i \in DOMAIN loop.seen : loop.seen[i] \in Nat /\ loop.seen[i] <= vdbe.row
      BY <1>2, <2>1 DEF Inv, StandsBehind, FetchesAfterRow
    <3>3. QED
      BY <3>1, <3>2
  <2>2. CASE vdbe.state # "row"
    BY <1>2, <2>2 DEF Inv, StandsBehind, FetchesAfterRow
  <2>3. QED
    BY <2>1, <2>2
<1>4. /\ Len(batch') = Len(batch) + 1 /\ batch' \in Seq(Nat)
      /\ DOMAIN batch' = 1 .. Len(batch) + 1 /\ DOMAIN batch = 1 .. Len(batch)
      /\ \A i \in 1 .. Len(batch) : batch'[i] = batch[i]
      /\ batch'[Len(batch) + 1] = NextRow /\ Len(batch) \in Nat
  BY <1>2, AppendRow
<1>5. TypeOK'
  <2>1. count < BufferLen /\ count = Len(batch) /\ BufferLen \in Nat
    BY <1>2, ConstantsAssumption DEF FetchRow, HasRoom, Inv, CountIsBatch
  <2>2. Len(batch') <= BufferLen /\ count' \in 0 .. BufferLen
    BY <1>2, <1>4, <2>1
  <2>3. enum' \in [state: Nat, extra: {"unset", "row", "done", "error"},
                   start: {"unset", "row", "done", "error"}]
    <3>1. /\ enum \in [state: Nat, extra: {"unset", "row", "done", "error"},
                       start: {"unset", "row", "done", "error"}]
          /\ enum' = [enum EXCEPT !.state = @ + 1, !.extra = "row"]
      BY <1>1 DEF FetchRow, TypeOK
    <3>2. enum.state + 1 \in Nat
      BY <3>1
    <3>3. QED
      BY <3>1, <3>2
  <2>4. QED
    BY <1>1, <1>2, <1>4, <2>2, <2>3 DEF TypeOK
<1>6. FetchesAfterRow' /\ CountIsBatch'
  BY <1>2, <1>4 DEF Inv, FetchesAfterRow, CountIsBatch
<1>7. BatchInOrder'
  <2>1. Ascending(batch')
    BY <1>2, <1>3, AppendAbove DEF Inv, BatchInOrder, Ascending
  <2>2. \A i \in DOMAIN loop'.seen : \A j \in DOMAIN batch' : loop'.seen[i] < batch'[j]
    BY <1>2, <1>3, <1>4 DEF Inv, BatchInOrder
  <2>3. QED
    BY <2>1, <2>2 DEF BatchInOrder, Ascending
<1>8. RowsInOrder' /\ BindTakesEffect'
  BY <1>2 DEF Inv, RowsInOrder, BindTakesEffect
<1>9. StandsBehind'
  <2>1. \A i \in DOMAIN batch' : batch'[i] <= NextRow
    <3>1. \A i \in DOMAIN batch : batch[i] \in Nat /\ batch[i] < NextRow
      BY <1>2, <1>3
    <3>2. QED
      BY <1>2, <1>4, <3>1
  <2>2. \A i \in DOMAIN loop.seen : loop.seen[i] <= NextRow
    <3>1. \A i \in DOMAIN loop.seen : loop.seen[i] \in Nat /\ loop.seen[i] < NextRow
      BY <1>2, <1>3
    <3>2. QED
      BY <1>2, <3>1
  <2>3. QED
    BY <1>2, <2>1, <2>2 DEF StandsBehind
<1>10. QED
  BY <1>5, <1>6, <1>7, <1>8, <1>9 DEF Inv

LEMMA BatchEndsInv == Inv /\ BatchEnds => Inv'
<1> SUFFICES ASSUME Inv, BatchEnds PROVE Inv'
  OBVIOUS
<1>1. PICK status \in {"row", "done", "error"} :
        /\ StepReturns(status)
        /\ enum' = [enum EXCEPT !.extra = status,
                                !.start = IF @ = "unset" THEN status ELSE @]
        /\ loop' = [loop EXCEPT !.failed = @ \/ status = "error"]
  BY DEF BatchEnds
<1>2. TypeOK /\ NextRow \in Nat
  BY NextRowType DEF Inv
<1>3. /\ phase = "fetch" /\ phase' = "body" /\ batch' = batch /\ count' = count
      /\ binding' = binding /\ loop'.seen = loop.seen /\ enum'.extra = status
      /\ batch \in Seq(Nat) /\ loop.seen \in Seq(Nat)
  BY <1>1, <1>2 DEF BatchEnds, TypeOK
<1>4. TypeOK'
  <2>1. vdbe' \in [state: {"reset", "row", "halted"}, row: Nat]
    BY <1>1, <1>2, StepKeepsTypes
  <2>2. enum' \in [state: Nat, extra: {"unset", "row", "done", "error"},
                   start: {"unset", "row", "done", "error"}]
    BY <1>1, <1>2 DEF TypeOK
  <2>3. loop' \in [of: Values, fresh: BOOLEAN, failed: BOOLEAN, interrupted: BOOLEAN,
                   seen: Seq(Nat), outcome: {"none", "finished", "broken", "mutation"}]
    BY <1>1, <1>2 DEF TypeOK
  <2>4. QED
    BY <1>2, <1>3, <2>1, <2>2, <2>3 DEF TypeOK
<1>5. FetchesAfterRow' /\ CountIsBatch' /\ BatchInOrder' /\ RowsInOrder' /\ BindTakesEffect'
  BY <1>3 DEF Inv, FetchesAfterRow, CountIsBatch, BatchInOrder, RowsInOrder, BindTakesEffect
<1>6. StandsBehind'
  <2>1. CASE status = "row" /\ vdbe.state = "row"
    <3>1. /\ vdbe' = [state |-> "row", row |-> NextRow]
          /\ NextRow = vdbe.row + 1 /\ vdbe.row \in Nat
      BY <1>1, <1>2, <2>1 DEF StepReturns, NextRow, TypeOK
    <3>2. /\ \A i \in DOMAIN batch : batch[i] \in Nat /\ batch[i] <= vdbe.row
          /\ \A i \in DOMAIN loop.seen : loop.seen[i] \in Nat /\ loop.seen[i] <= vdbe.row
      BY <1>3, <2>1 DEF Inv, StandsBehind, FetchesAfterRow
    <3>3. /\ \A i \in DOMAIN batch' : batch'[i] <= NextRow
          /\ \A i \in DOMAIN loop'.seen : loop'.seen[i] <= NextRow
      BY <1>3, <3>1, <3>2
    <3>4. QED
      BY <3>1, <3>3 DEF StandsBehind
  <2>2. CASE status = "row" /\ vdbe.state # "row"
    <3>1. batch = <<>> /\ loop.seen = <<>> /\ vdbe' = [state |-> "row", row |-> NextRow]
      BY <1>1, <1>3, <2>2 DEF Inv, StandsBehind, FetchesAfterRow, StepReturns
    <3>2. QED
      BY <1>3, <3>1 DEF StandsBehind
  <2>3. CASE status # "row"
    BY <1>3, <2>3 DEF StandsBehind
  <2>4. QED
    BY <2>1, <2>2, <2>3
<1>7. QED
  BY <1>4, <1>5, <1>6 DEF Inv

LEMMA BodyInv == Inv /\ Body => Inv'
<1> SUFFICES ASSUME Inv, Body PROVE Inv'
  OBVIOUS
<1> DEFINE seen == loop.seen
           seenNext == Append(seen, Head(batch))
           batchNext == Tail(batch)
<1>1. /\ TypeOK /\ batch \in Seq(Nat) /\ seen \in Seq(Nat) /\ batch # <<>>
      /\ batch' = batchNext /\ loop'.seen = seenNext
      /\ phase = "body" /\ UNCHANGED <<binding, vdbe, phase, enum, count>>
      /\ loop' = [loop EXCEPT !.seen = Append(@, Head(batch))]
  BY DEF Inv, Body, TypeOK
<1>2. /\ batchNext \in Seq(Nat) /\ Len(batchNext) = Len(batch) - 1
      /\ Len(batch) \in Nat \ {0} /\ seenNext \in Seq(Nat)
  BY <1>1, DropRow, AppendRow
<1>3. TypeOK'
  <2>1. loop' \in [of: Values, fresh: BOOLEAN, failed: BOOLEAN, interrupted: BOOLEAN,
                   seen: Seq(Nat), outcome: {"none", "finished", "broken", "mutation"}]
    BY <1>1, <1>2 DEF TypeOK
  <2>2. Len(batch') <= BufferLen
    BY <1>1, <1>2, ConstantsAssumption DEF TypeOK
  <2>3. QED
    BY <1>1, <1>2, <2>1, <2>2 DEF TypeOK
<1>4. FetchesAfterRow' /\ CountIsBatch' /\ BindTakesEffect'
  BY <1>1 DEF Inv, FetchesAfterRow, CountIsBatch, BindTakesEffect
<1>5. Ascending(batchNext) /\ Ascending(seenNext) /\ Before(seenNext, batchNext)
  <2>1. Ascending(batch) /\ Ascending(seen) /\ Before(seen, batch)
    BY DEF Inv, BatchInOrder, RowsInOrder, Ascending, Before
  <2>2. QED
    BY <1>1, <2>1, HeadMoves
<1>6. BatchInOrder' /\ RowsInOrder'
  BY <1>1, <1>5 DEF BatchInOrder, RowsInOrder, Ascending, Before
<1>7. StandsBehind'
  <2>1. CASE enum.extra = "row"
    <3>1. vdbe.state = "row" /\ vdbe.row \in Nat /\ AtMost(batch, vdbe.row) /\ AtMost(seen, vdbe.row)
      BY <1>1, <2>1 DEF Inv, StandsBehind, AtMost, TypeOK
    <3>2. AtMost(batchNext, vdbe.row) /\ AtMost(seenNext, vdbe.row)
      BY <1>1, <3>1, HeadMovesWithin
    <3>3. QED
      BY <1>1, <3>1, <3>2 DEF StandsBehind, AtMost
  <2>2. CASE enum.extra # "row"
    BY <1>1, <2>2 DEF StandsBehind
  <2>3. QED
    BY <2>1, <2>2
<1>8. QED
  BY <1>3, <1>4, <1>6, <1>7 DEF Inv

\* The other steps leave both sequences, or empty them.
LEMMA StartLoopInv == Inv /\ StartLoop => Inv'
  BY ConstantsAssumption DEF StartLoop, Inv, TypeOK, FetchesAfterRow, CountIsBatch,
     BatchInOrder, RowsInOrder, StandsBehind, BindTakesEffect, Bindable

LEMMA NothingFetchedInv == Inv /\ NothingFetched => Inv'
<1> SUFFICES ASSUME Inv, NothingFetched PROVE Inv'
  OBVIOUS
<1>1. PICK status \in {"done", "error"} :
        enum' = [enum EXCEPT !.extra = status] /\ Finish(loop.failed \/ status = "error")
  BY DEF NothingFetched
<1>2. /\ TypeOK /\ phase' = "idle" /\ vdbe' = AtRest /\ loop'.seen = loop.seen
      /\ UNCHANGED <<binding, batch, count>>
  BY <1>1 DEF NothingFetched, EndOfRows, Finish, Inv, TypeOK
<1>3. TypeOK'
  <2>1. loop' \in [of: Values, fresh: BOOLEAN, failed: BOOLEAN, interrupted: BOOLEAN,
                   seen: Seq(Nat), outcome: {"none", "finished", "broken", "mutation"}]
    BY <1>1, <1>2 DEF Finish, TypeOK
  <2>2. QED
    BY <1>1, <1>2, <2>1 DEF TypeOK, AtRest
<1>4. BindTakesEffect'
  BY <1>2 DEF BindTakesEffect, Bindable, AtRest
<1>5. QED
  BY <1>2, <1>3, <1>4 DEF Inv, FetchesAfterRow, CountIsBatch, BatchInOrder, RowsInOrder,
     StandsBehind

LEMMA NextBatchInv == Inv /\ NextBatch => Inv'
<1> SUFFICES ASSUME Inv, NextBatch PROVE Inv'
  OBVIOUS
<1>1. TypeOK /\ phase = "body" /\ batch = <<>> /\ count' = 0
      /\ UNCHANGED <<binding, enum, batch>>
  BY DEF NextBatch, Inv
<1>2. CASE MoreToCome
  BY <1>1, <1>2, ConstantsAssumption DEF NextBatch, MoreToCome, Inv, TypeOK, FetchesAfterRow,
     CountIsBatch, BatchInOrder, RowsInOrder, StandsBehind, BindTakesEffect
<1>3. CASE ~MoreToCome
  <2>1. phase' = "idle" /\ vdbe' = AtRest /\ loop'.seen = loop.seen
    BY <1>1, <1>3 DEF NextBatch, EndOfRows, Finish, TypeOK
  <2>2. TypeOK'
    <3>1. loop' \in [of: Values, fresh: BOOLEAN, failed: BOOLEAN, interrupted: BOOLEAN,
                     seen: Seq(Nat), outcome: {"none", "finished", "broken", "mutation"}]
      BY <1>1, <1>3 DEF NextBatch, Finish, TypeOK
    <3>2. QED
      BY <1>1, <2>1, <3>1, ConstantsAssumption DEF TypeOK, AtRest
  <2>3. BindTakesEffect'
    BY <2>1 DEF BindTakesEffect, Bindable, AtRest
  <2>4. QED
    BY <1>1, <2>1, <2>2, <2>3 DEF Inv, FetchesAfterRow, CountIsBatch, BatchInOrder,
       RowsInOrder, StandsBehind
<1>4. QED
  BY <1>2, <1>3

LEMMA InterruptInv ==
  ASSUME Inv, NEW outcome \in {"broken", "mutation"}, Interrupt(outcome)
  PROVE  Inv'
<1>1. /\ phase' = "idle" /\ batch' = <<>> /\ loop'.seen = loop.seen
      /\ loop'.interrupted = TRUE /\ UNCHANGED <<binding, vdbe, enum, count>>
  BY DEF Interrupt, Inv, TypeOK
<1>2. TypeOK'
  <2>1. loop' \in [of: Values, fresh: BOOLEAN, failed: BOOLEAN, interrupted: BOOLEAN,
                   seen: Seq(Nat), outcome: {"none", "finished", "broken", "mutation"}]
    BY DEF Interrupt, Inv, TypeOK
  <2>2. QED
    BY <1>1, <2>1, ConstantsAssumption DEF Inv, TypeOK
<1>3. QED
  BY <1>1, <1>2 DEF Inv, FetchesAfterRow, CountIsBatch, BatchInOrder, RowsInOrder,
     StandsBehind, BindTakesEffect

LEMMA BetweenLoopsInv ==
  Inv /\ ((\E b \in Bindings : Bind(b)) \/ StatementReset) => Inv'
<1>1. ASSUME Inv, NEW b \in Bindings, Bind(b) PROVE Inv'
  BY <1>1 DEF Bind, Inv, TypeOK, Values, FetchesAfterRow, CountIsBatch, BatchInOrder,
     RowsInOrder, StandsBehind, BindTakesEffect, Bindable
<1>2. ASSUME Inv, StatementReset PROVE Inv'
  <2>1. /\ phase = "idle" /\ vdbe' = AtRest /\ loop'.seen = loop.seen
        /\ UNCHANGED <<binding, phase, enum, batch, count>>
    BY <1>2 DEF StatementReset, Inv, TypeOK
  <2>2. TypeOK'
    <3>1. loop' \in [of: Values, fresh: BOOLEAN, failed: BOOLEAN, interrupted: BOOLEAN,
                     seen: Seq(Nat), outcome: {"none", "finished", "broken", "mutation"}]
      BY <1>2 DEF StatementReset, Inv, TypeOK
    <3>2. QED
      BY <1>2, <2>1, <3>1 DEF Inv, TypeOK, AtRest
  <2>3. QED
    BY <1>2, <2>1, <2>2 DEF Inv, FetchesAfterRow, CountIsBatch, BatchInOrder, RowsInOrder,
       StandsBehind, BindTakesEffect, Bindable, AtRest
<1>3. QED
  BY <1>1, <1>2

LEMMA StepInv == Inv /\ [Next]_vars => Inv'
<1>1. CASE UNCHANGED vars
  BY <1>1 DEF vars, Inv, TypeOK, FetchesAfterRow, CountIsBatch, BatchInOrder, RowsInOrder,
     StandsBehind, BindTakesEffect, Bindable
<1>2. Inv /\ (RaiseMutation \/ Break) => Inv'
  BY InterruptInv DEF RaiseMutation, Break
<1>3. QED
  BY <1>1, <1>2, FetchRowInv, BatchEndsInv, BodyInv, StartLoopInv, NothingFetchedInv,
     NextBatchInv, BetweenLoopsInv DEF Next, Enumerating

THEOREM Invariance == Spec => []Inv
  BY InitInv, StepInv, PTL DEF Spec

\* The buffer never holds more rows than it has room for, and the rest of the state
\* has the types declared for it.
THEOREM TypeCorrect == Spec => []TypeOK
  BY Invariance, PTL DEF Inv

\* A loop sees the rows in order and none twice, whatever the size of the buffer
\* and the number of rows, and whether or not the statement was left in the middle
\* of its rows before.
THEOREM OrderOfRows == Spec => []RowsInOrder
  BY Invariance, PTL DEF Inv

\* After a loop that was not left early the next bind is not refused.
THEOREM BindAfterLoop == Spec => []BindTakesEffect
  BY Invariance, PTL DEF Inv

-----------------------------------------------------------------------------
(* What a loop that was not disturbed has been given.                        *)

\* The rows in a sequence.
Given(s) == {s[i] : i \in DOMAIN s}

\* How many rows of the result the statement has delivered.
Position == IF vdbe.state = "row" THEN vdbe.row ELSE 0

\* The rows up to n but those that end a full batch.
Skipping(n) == {k \in 1 .. n : k % (BufferLen + 1) # 0}

\* A loop stays on the result it was started on, and has no outcome until it ends.
OnOneResult == phase # "idle" => loop.of = binding /\ loop.outcome = "none"

\* What the loop has seen and what is in the buffer are together the rows before
\* the statement's position without those that end a full batch: in the method the
\* position within the batch is count, outside the batch was full.
Progress ==
  phase # "idle" /\ loop.fresh /\ ~loop.failed =>
    /\ enum.extra = "row" =>
         /\ Position <= Rows[binding]
         /\ Given(loop.seen) \cup Given(batch) = Skipping(Position)
         /\ Position % (BufferLen + 1) = IF phase = "fetch" THEN count ELSE 0
    /\ enum.extra # "row" =>
         Given(loop.seen) \cup Given(batch) = Skipping(Rows[binding])

ProgressInv == OnOneResult /\ Progress /\ FinishedLoopSees

LEMMA GivenAppend ==
  ASSUME NEW s \in Seq(Nat), NEW r \in Nat
  PROVE  Given(Append(s, r)) = Given(s) \cup {r}
<1> DEFINE a == Append(s, r)
<1>1. /\ DOMAIN a = 1 .. Len(s) + 1 /\ DOMAIN s = 1 .. Len(s) /\ Len(s) \in Nat
      /\ \A i \in 1 .. Len(s) : a[i] = s[i]
      /\ a[Len(s) + 1] = r
  BY AppendRow
<1> HIDE DEF a
<1>2. \A i \in DOMAIN a : a[i] \in Given(s) \cup {r}
  BY <1>1 DEF Given
<1>3. \A x \in Given(s) \cup {r} : \E i \in DOMAIN a : a[i] = x
  <2>1. ASSUME NEW i \in DOMAIN s PROVE i \in DOMAIN a /\ a[i] = s[i]
    BY <1>1
  <2>2. Len(s) + 1 \in DOMAIN a
    BY <1>1
  <2>3. QED
    BY <1>1, <2>1, <2>2 DEF Given
<1>4. QED
  BY <1>2, <1>3 DEF Given, a

LEMMA GivenTail ==
  ASSUME NEW t \in Seq(Nat), t # <<>>
  PROVE  Given(t) = Given(Tail(t)) \cup {Head(t)}
<1> DEFINE u == Tail(t)
<1>1. /\ DOMAIN u = 1 .. Len(t) - 1 /\ DOMAIN t = 1 .. Len(t) /\ Len(t) \in Nat \ {0}
      /\ \A i \in 1 .. Len(t) - 1 : u[i] = t[i + 1]
      /\ Head(t) = t[1]
  BY DropRow
<1> HIDE DEF u
<1>2. \A i \in DOMAIN t : t[i] \in Given(u) \cup {Head(t)}
  <2>1. ASSUME NEW i \in DOMAIN t, i # 1 PROVE i - 1 \in DOMAIN u /\ u[i - 1] = t[i]
    BY <1>1, <2>1
  <2>2. QED
    BY <1>1, <2>1 DEF Given
<1>3. \A x \in Given(u) \cup {Head(t)} : \E i \in DOMAIN t : t[i] = x
  <2>1. ASSUME NEW i \in DOMAIN u PROVE i + 1 \in DOMAIN t /\ u[i] = t[i + 1]
    BY <1>1
  <2>2. 1 \in DOMAIN t
    BY <1>1
  <2>3. QED
    BY <1>1, <2>1, <2>2 DEF Given
<1>4. QED
  BY <1>2, <1>3 DEF Given, u

LEMMA GivenNothing == Given(<<>>) = {}
  BY DEF Given

\* Division with a remainder, for a divisor that is not a literal.
LEMMA Remainder ==
  ASSUME NEW n \in Nat, NEW d \in Nat \ {0}
  PROVE  /\ n \div d \in Int /\ n % d \in 0 .. d - 1
         /\ n = d * (n \div d) + (n % d)
  OBVIOUS

LEMMA RemainderIsUnique ==
  ASSUME NEW d \in Nat \ {0}, NEW a \in Int, NEW b \in Int,
         NEW x \in 0 .. d - 1, NEW y \in 0 .. d - 1, d * a + x = d * b + y
  PROVE  x = y
<1>1. d * (a - b) = y - x
  OBVIOUS
<1>2. CASE a - b >= 1
  <2>1. d * (a - b) >= d
    BY <1>2
  <2>2. QED
    BY <1>1, <2>1
<1>3. CASE a - b <= -1
  <2>1. d * (a - b) <= -d
    BY <1>3
  <2>2. QED
    BY <1>1, <2>1
<1>4. QED
  BY <1>1, <1>2, <1>3

LEMMA NextRemainder ==
  ASSUME NEW n \in Nat, NEW d \in Nat \ {0}
  PROVE  (n + 1) % d = IF (n % d) + 1 = d THEN 0 ELSE (n % d) + 1
<1> DEFINE m == n % d
           q == n \div d
           mNext == (n + 1) % d
           qNext == (n + 1) \div d
           r == IF m + 1 = d THEN 0 ELSE m + 1
           p == IF m + 1 = d THEN q + 1 ELSE q
<1>1. /\ m \in 0 .. d - 1 /\ mNext \in 0 .. d - 1 /\ q \in Int /\ qNext \in Int
      /\ n = d * q + m /\ n + 1 = d * qNext + mNext
  BY Remainder
<1> HIDE DEF m, q, mNext, qNext
<1>2. r \in 0 .. d - 1 /\ p \in Int /\ n + 1 = d * p + r
  <2>1. CASE m + 1 = d
    BY <1>1, <2>1
  <2>2. CASE m + 1 # d
    BY <1>1, <2>2
  <2>3. QED
    BY <2>1, <2>2
<1> HIDE DEF r, p
<1>3. mNext = r
  <2>1. d * qNext + mNext = d * p + r
    BY <1>1, <1>2
  <2>2. QED
    BY <1>1, <1>2, <2>1, RemainderIsUnique
<1>4. QED
  BY <1>3 DEF mNext, r, m

\* One row more is one row more to see, unless it ends a full batch.
LEMMA SkippingNext ==
  ASSUME NEW n \in Nat
  PROVE  /\ n % (BufferLen + 1) \in 0 .. BufferLen
         /\ n % (BufferLen + 1) < BufferLen =>
              /\ Skipping(n + 1) = Skipping(n) \cup {n + 1}
              /\ (n + 1) % (BufferLen + 1) = (n % (BufferLen + 1)) + 1
         /\ n % (BufferLen + 1) = BufferLen =>
              /\ Skipping(n + 1) = Skipping(n)
              /\ (n + 1) % (BufferLen + 1) = 0
<1> DEFINE d == BufferLen + 1
           m == n % d
           mNext == (n + 1) % d
<1>1. d \in Nat \ {0} /\ BufferLen \in Nat \ {0} /\ d = BufferLen + 1
  BY ConstantsAssumption
<1>2. m \in 0 .. BufferLen /\ mNext = IF m + 1 = d THEN 0 ELSE m + 1
  <2> HIDE DEF d
  <2>1. m \in 0 .. d - 1
    BY <1>1, Remainder
  <2>2. mNext = IF m + 1 = d THEN 0 ELSE m + 1
    BY <1>1, NextRemainder
  <2>3. QED
    BY <1>1, <2>1, <2>2
<1>3. 1 .. n + 1 = (1 .. n) \cup {n + 1}
  OBVIOUS
<1>4. Skipping(n + 1) = Skipping(n) \cup {k \in {n + 1} : k % d # 0}
  BY <1>3 DEF Skipping
<1>5. {k \in {n + 1} : k % d # 0} = IF mNext = 0 THEN {} ELSE {n + 1}
  OBVIOUS
<1> HIDE DEF m, mNext, d
<1>6. m < BufferLen => mNext = m + 1 /\ mNext # 0
  BY <1>1, <1>2
<1>7. m = BufferLen => mNext = 0
  BY <1>1, <1>2
<1>8. QED
  BY <1>2, <1>4, <1>5, <1>6, <1>7 DEF m, mNext, d

LEMMA InitProgress == Init => ProgressInv
  BY DEF Init, ProgressInv, OnOneResult, Progress, FinishedLoopSees

LEMMA PositionType ==
  ASSUME TypeOK
  PROVE  /\ Position \in Nat /\ NextRow = Position + 1 /\ Rows[binding] \in Nat
         /\ count \in 0 .. BufferLen /\ BufferLen \in Nat \ {0}
         /\ batch \in Seq(Nat) /\ loop.seen \in Seq(Nat) /\ loop.failed \in BOOLEAN
  BY ConstantsAssumption DEF TypeOK, Position, NextRow, Values

LEMMA StartLoopProgress == Inv /\ ProgressInv /\ StartLoop => ProgressInv'
<1> SUFFICES ASSUME Inv, ProgressInv, StartLoop PROVE ProgressInv'
  OBVIOUS
<1>1. /\ phase' = "fetch" /\ binding' = binding /\ vdbe' = vdbe /\ batch' = <<>> /\ count' = 0
      /\ loop'.of = binding /\ loop'.outcome = "none" /\ loop'.seen = <<>>
      /\ loop'.fresh = (vdbe.state # "row") /\ enum'.extra = "row"
  BY DEF StartLoop
<1>2. Rows[binding] \in Nat
  BY PositionType DEF Inv
<1>3. Skipping(0) = {} /\ 0 % (BufferLen + 1) = 0
  <2>1. Skipping(0) = {}
    BY DEF Skipping
  <2>2. 0 % (BufferLen + 1) = 0
    BY ConstantsAssumption, RemainderIsUnique, Remainder
  <2>3. QED
    BY <2>1, <2>2
<1>4. Progress'
  <2>1. CASE vdbe.state = "row"
    BY <1>1, <2>1 DEF Progress
  <2>2. CASE vdbe.state # "row"
    <3>1. Position' = 0
      BY <1>1, <2>2 DEF Position
    <3>2. Given(loop'.seen) \cup Given(batch') = {}
      BY <1>1, GivenNothing
    <3>3. Skipping(Position)' = {} /\ Position' % (BufferLen + 1) = 0
      BY <1>3, <3>1 DEF Skipping
    <3>4. QED
      BY <1>1, <1>2, <3>1, <3>2, <3>3 DEF Progress
  <2>3. QED
    BY <2>1, <2>2
<1>5. QED
  BY <1>1, <1>4 DEF ProgressInv, OnOneResult, FinishedLoopSees

LEMMA FetchRowProgress == Inv /\ ProgressInv /\ FetchRow => ProgressInv'
<1> SUFFICES ASSUME Inv, ProgressInv, FetchRow PROVE ProgressInv'
  OBVIOUS
<1>1. /\ phase = "fetch" /\ phase' = "fetch" /\ binding' = binding /\ loop' = loop
      /\ batch' = Append(batch, NextRow) /\ count' = count + 1 /\ count < BufferLen
      /\ NextRow <= Rows[binding] /\ vdbe' = [state |-> "row", row |-> NextRow]
      /\ enum.extra = "row" /\ enum'.extra = "row"
  BY DEF FetchRow, HasRoom, StepReturns, Inv, FetchesAfterRow, TypeOK
<1>2. /\ Position \in Nat /\ NextRow = Position + 1 /\ Rows[binding] \in Nat
      /\ count \in 0 .. BufferLen /\ batch \in Seq(Nat)
  BY PositionType DEF Inv
<1>3. Position' = Position + 1
  BY <1>1, <1>2 DEF Position
<1>4. OnOneResult' /\ FinishedLoopSees'
  BY <1>1 DEF ProgressInv, OnOneResult, FinishedLoopSees
<1>5. ASSUME loop.fresh, ~loop.failed
      PROVE  /\ Given(loop.seen) \cup Given(batch') = Skipping(Position + 1)
             /\ (Position + 1) % (BufferLen + 1) = count + 1
  <2>1. /\ Given(loop.seen) \cup Given(batch) = Skipping(Position)
        /\ Position % (BufferLen + 1) = count
    BY <1>1, <1>5 DEF ProgressInv, Progress
  <2>2. Given(batch') = Given(batch) \cup {Position + 1}
    BY <1>1, <1>2, GivenAppend
  <2>3. /\ Skipping(Position + 1) = Skipping(Position) \cup {Position + 1}
        /\ (Position + 1) % (BufferLen + 1) = count + 1
    BY <1>1, <1>2, <2>1, SkippingNext
  <2>4. QED
    BY <2>1, <2>2, <2>3
<1>6. Progress'
  <2>1. Skipping(Position)' = Skipping(Position + 1)
    BY <1>3 DEF Skipping
  <2>2. QED
    BY <1>1, <1>2, <1>3, <1>5, <2>1 DEF Progress
<1>7. QED
  BY <1>4, <1>6 DEF ProgressInv

LEMMA BatchEndsProgress == Inv /\ ProgressInv /\ BatchEnds => ProgressInv'
<1> SUFFICES ASSUME Inv, ProgressInv, BatchEnds PROVE ProgressInv'
  OBVIOUS
<1>1. PICK status \in {"row", "done", "error"} :
        /\ status = "row" => ~HasRoom
        /\ StepReturns(status)
        /\ enum' = [enum EXCEPT !.extra = status,
                                !.start = IF @ = "unset" THEN status ELSE @]
        /\ loop' = [loop EXCEPT !.failed = @ \/ status = "error"]
  BY DEF BatchEnds
<1>2. /\ Position \in Nat /\ NextRow = Position + 1 /\ Rows[binding] \in Nat
      /\ count \in 0 .. BufferLen /\ BufferLen \in Nat \ {0} /\ loop.failed \in BOOLEAN
  BY PositionType DEF Inv
<1>3. /\ phase = "fetch" /\ phase' = "body" /\ batch' = batch /\ count' = count
      /\ binding' = binding /\ enum'.extra = status /\ enum.extra = "row"
  BY <1>1 DEF BatchEnds, Inv, TypeOK, FetchesAfterRow
<1>4. /\ loop'.seen = loop.seen /\ loop'.of = loop.of /\ loop'.outcome = loop.outcome
      /\ loop'.fresh = loop.fresh /\ loop'.failed = (loop.failed \/ status = "error")
  BY <1>1 DEF Inv, TypeOK
<1>5. OnOneResult' /\ FinishedLoopSees'
  BY <1>3, <1>4 DEF ProgressInv, OnOneResult, FinishedLoopSees
<1>6. ASSUME loop.fresh, ~loop.failed
      PROVE  /\ Position <= Rows[binding]
             /\ Given(loop.seen) \cup Given(batch) = Skipping(Position)
             /\ Position % (BufferLen + 1) = count
  BY <1>3, <1>6 DEF ProgressInv, Progress
<1>7. CASE status = "row"
  <2>1. /\ count = BufferLen /\ Position + 1 <= Rows[binding]
        /\ vdbe' = [state |-> "row", row |-> Position + 1]
    BY <1>1, <1>2, <1>7 DEF StepReturns, HasRoom
  <2>2. Position' = Position + 1
    BY <2>1 DEF Position
  <2>3. ASSUME loop.fresh, ~loop.failed
        PROVE  Skipping(Position + 1) = Skipping(Position) /\ (Position + 1) % (BufferLen + 1) = 0
    BY <1>2, <1>6, <2>1, <2>3, SkippingNext
  <2>4. Skipping(Position)' = Skipping(Position + 1)
    BY <2>2 DEF Skipping
  <2>5. Progress'
    BY <1>2, <1>3, <1>4, <1>6, <1>7, <2>1, <2>2, <2>3, <2>4 DEF Progress
  <2>6. QED
    BY <1>5, <2>5 DEF ProgressInv
<1>8. CASE status = "done"
  <2>1. Position + 1 > Rows[binding]
    BY <1>1, <1>2, <1>8 DEF StepReturns
  <2>2. ASSUME loop.fresh, ~loop.failed
        PROVE  Given(loop.seen) \cup Given(batch) = Skipping(Rows[binding])
    <3>1. Position = Rows[binding]
      BY <1>2, <1>6, <2>1, <2>2
    <3>2. QED
      BY <1>6, <2>2, <3>1
  <2>3. Skipping(Rows[binding])' = Skipping(Rows[binding])
    BY <1>3 DEF Skipping
  <2>4. Progress'
    BY <1>3, <1>4, <1>8, <2>2, <2>3 DEF Progress
  <2>5. QED
    BY <1>5, <2>4 DEF ProgressInv
<1>9. CASE status = "error"
  BY <1>4, <1>5, <1>9 DEF ProgressInv, Progress
<1>10. QED
  BY <1>7, <1>8, <1>9

\* The end of a loop.
LEMMA FinishProgress ==
  ASSUME Inv, ProgressInv, NEW failed \in BOOLEAN, Finish(failed), binding' = binding,
         loop.outcome = "none", loop.of = binding,
         loop.fresh /\ ~failed => Given(loop.seen) = Skipping(Rows[binding])
  PROVE  ProgressInv'
<1>1. /\ phase' = "idle" /\ loop'.seen = loop.seen /\ loop'.of = binding
      /\ loop'.fresh = loop.fresh /\ loop'.failed = failed
  BY DEF Finish, Inv, TypeOK
<1>2. FinishedLoopSees'
  BY <1>1 DEF FinishedLoopSees, Seen, Given, Skipping
<1>3. QED
  BY <1>1, <1>2 DEF ProgressInv, OnOneResult, Progress

LEMMA NothingFetchedProgress == Inv /\ ProgressInv /\ NothingFetched => ProgressInv'
<1> SUFFICES ASSUME Inv, ProgressInv, NothingFetched PROVE ProgressInv'
  OBVIOUS
<1>1. PICK status \in {"done", "error"} :
        /\ \/ status = "done" /\ NextRow > Rows[binding]
           \/ status = "error" /\ MayFail
        /\ Finish(loop.failed \/ status = "error")
  BY DEF NothingFetched
<1>2. /\ Position \in Nat /\ NextRow = Position + 1 /\ Rows[binding] \in Nat
      /\ batch \in Seq(Nat) /\ loop.failed \in BOOLEAN
  BY PositionType DEF Inv
<1>3. /\ phase = "fetch" /\ count = 0 /\ binding' = binding /\ enum.extra = "row"
      /\ loop.outcome = "none" /\ loop.of = binding
  BY DEF NothingFetched, Inv, FetchesAfterRow, ProgressInv, OnOneResult
<1>4. batch = <<>>
  BY <1>2, <1>3 DEF Inv, CountIsBatch
<1>5. ASSUME loop.fresh, ~(loop.failed \/ status = "error")
      PROVE  Given(loop.seen) = Skipping(Rows[binding])
  <2>1. /\ Position <= Rows[binding]
        /\ Given(loop.seen) \cup Given(batch) = Skipping(Position)
    BY <1>3, <1>5 DEF ProgressInv, Progress
  <2>2. Position = Rows[binding]
    BY <1>1, <1>2, <1>5, <2>1
  <2>3. QED
    BY <1>4, <2>1, <2>2, GivenNothing
<1>6. QED
  BY <1>1, <1>2, <1>3, <1>5, FinishProgress

LEMMA NextBatchProgress == Inv /\ ProgressInv /\ NextBatch => ProgressInv'
<1> SUFFICES ASSUME Inv, ProgressInv, NextBatch PROVE ProgressInv'
  OBVIOUS
<1>1. /\ phase = "body" /\ batch = <<>> /\ count' = 0 /\ UNCHANGED <<binding, enum, batch>>
      /\ loop.outcome = "none" /\ loop.of = binding
  BY DEF NextBatch, ProgressInv, OnOneResult
<1>2. CASE MoreToCome
  <2>1. phase' = "fetch" /\ UNCHANGED <<vdbe, loop>> /\ enum.extra = "row"
    BY <1>2 DEF NextBatch, MoreToCome
  <2>2. Position' = Position /\ Skipping(Position)' = Skipping(Position)
    BY <2>1 DEF Position, Skipping
  <2>3. Progress'
    BY <1>1, <2>1, <2>2 DEF ProgressInv, Progress
  <2>4. QED
    BY <1>1, <2>1, <2>3 DEF ProgressInv, OnOneResult, FinishedLoopSees
<1>3. CASE ~MoreToCome
  <2>1. enum.extra # "row" /\ Finish(loop.failed)
    BY <1>3 DEF NextBatch, MoreToCome
  <2>2. loop.fresh /\ ~loop.failed => Given(loop.seen) = Skipping(Rows[binding])
    BY <1>1, <2>1, GivenNothing DEF ProgressInv, Progress
  <2>3. loop.failed \in BOOLEAN
    BY PositionType DEF Inv
  <2>4. QED
    BY <1>1, <2>1, <2>2, <2>3, FinishProgress
<1>4. QED
  BY <1>2, <1>3

LEMMA BodyProgress == Inv /\ ProgressInv /\ Body => ProgressInv'
<1> SUFFICES ASSUME Inv, ProgressInv, Body PROVE ProgressInv'
  OBVIOUS
<1>1. /\ phase = "body" /\ batch # <<>> /\ batch \in Seq(Nat) /\ loop.seen \in Seq(Nat)
      /\ batch' = Tail(batch) /\ UNCHANGED <<binding, vdbe, phase, enum, count>>
      /\ loop' = [loop EXCEPT !.seen = Append(@, Head(batch))]
  BY DEF Body, Inv, TypeOK
<1>2. /\ loop'.seen = Append(loop.seen, Head(batch)) /\ loop'.of = loop.of
      /\ loop'.outcome = loop.outcome /\ loop'.fresh = loop.fresh /\ loop'.failed = loop.failed
  BY <1>1 DEF Inv, TypeOK
<1>3. Given(loop'.seen) \cup Given(batch') = Given(loop.seen) \cup Given(batch)
  <2>1. Head(batch) \in Nat
    BY <1>1, DropRow
  <2>2. Given(Append(loop.seen, Head(batch))) = Given(loop.seen) \cup {Head(batch)}
    BY <1>1, <2>1, GivenAppend
  <2>3. Given(batch) = Given(Tail(batch)) \cup {Head(batch)}
    BY <1>1, GivenTail
  <2>4. QED
    BY <1>1, <1>2, <2>2, <2>3
<1>4. Position' = Position /\ Skipping(Position)' = Skipping(Position)
      /\ Skipping(Rows[binding])' = Skipping(Rows[binding])
  BY <1>1 DEF Position, Skipping
<1>5. Progress'
  BY <1>1, <1>2, <1>3, <1>4 DEF ProgressInv, Progress
<1>6. loop.outcome = "none"
  BY <1>1 DEF ProgressInv, OnOneResult
<1>7. QED
  BY <1>1, <1>2, <1>5, <1>6 DEF ProgressInv, OnOneResult, FinishedLoopSees

LEMMA InterruptProgress ==
  ASSUME Inv, NEW outcome \in {"broken", "mutation"}, Interrupt(outcome)
  PROVE  ProgressInv'
<1>1. phase' = "idle" /\ loop'.outcome # "finished"
  BY DEF Interrupt, Inv, TypeOK
<1>2. QED
  BY <1>1 DEF ProgressInv, OnOneResult, Progress, FinishedLoopSees

LEMMA BetweenLoopsProgress ==
  Inv /\ ProgressInv /\ ((\E b \in Bindings : Bind(b)) \/ StatementReset) => ProgressInv'
<1> SUFFICES ASSUME Inv, ProgressInv, (\E b \in Bindings : Bind(b)) \/ StatementReset
             PROVE  ProgressInv'
  OBVIOUS
<1>1. /\ phase' = "idle" /\ loop'.outcome = loop.outcome /\ loop'.fresh = loop.fresh
      /\ loop'.failed = loop.failed /\ loop'.seen = loop.seen /\ loop'.of = loop.of
  BY DEF Bind, StatementReset, Inv, TypeOK
<1>2. FinishedLoopSees'
  BY <1>1 DEF ProgressInv, FinishedLoopSees, Seen
<1>3. QED
  BY <1>1, <1>2 DEF ProgressInv, OnOneResult, Progress

LEMMA StepProgress == Inv /\ ProgressInv /\ [Next]_vars => ProgressInv'
<1>1. ASSUME ProgressInv, UNCHANGED vars PROVE ProgressInv'
  BY <1>1 DEF vars, ProgressInv, OnOneResult, Progress, Position, Skipping, Given,
     FinishedLoopSees, Seen
<1>2. Inv /\ ProgressInv /\ (RaiseMutation \/ Break) => ProgressInv'
  BY InterruptProgress DEF RaiseMutation, Break
<1>3. QED
  BY <1>1, <1>2, StartLoopProgress, FetchRowProgress, BatchEndsProgress, BodyProgress,
     NothingFetchedProgress, NextBatchProgress, BetweenLoopsProgress DEF Next, Enumerating

\* A loop that was started on a statement not in the middle of its rows, and that
\* ends by itself without an error, has seen every row but the one after each full
\* buffer: those rows are lost for every size of the result and of the buffer.
THEOREM LoopSeesAllButLost == Spec => []FinishedLoopSees
<1>1. Spec => [](Inv /\ ProgressInv)
  BY Invariance, InitProgress, StepProgress, PTL DEF Spec
<1>2. QED
  BY <1>1, PTL DEF ProgressInv
=============================================================================
