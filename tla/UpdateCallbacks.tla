---------------------------- MODULE UpdateCallbacks ----------------------------
(***************************************************************************)
(* The update callbacks of one connection: the fixed array                  *)
(* `__updateCallbacksWithUserInfo` and its count, the sqlite3 update hook   *)
(* that is installed while the array is not empty, and the loop of          *)
(* __SQLite3ConnectionDefaultUpdateHook that calls the callbacks for one    *)
(* row change.  A callback may append and remove registrations, of its own  *)
(* or of others, while that loop is in the middle of the array.             *)
(*                                                                          *)
(* The history variables, which the code does not have, say of each         *)
(* registration what happened to it since the last row change.              *)
(***************************************************************************)
EXTENDS Integers, FiniteSets

CONSTANTS
  Pairs,      \* the <<callback, userInfo>> pairs the application registers
  Max         \* kSQlite3UserCallbacksMaxCount

ASSUME MaxAssumption == Max \in Nat \ {0}

VARIABLES
  slots,      \* the array
  count,      \* __updateCallbacksWithUserInfoCount
  hook,       \* the hook sqlite3 has: "default" or "null"
  phase,      \* "idle", "loop" (in the hook) or "calling" (in a callback)
  i,          \* the hook's loop index
  seen,       \* history: slots whose registration was called in this dispatch
  moved,      \* history: slots whose registration a removal put there
  late,       \* history: slots whose registration was appended in this dispatch
  removals    \* history: "none", or "some" were made in this dispatch

history == <<seen, moved, late, removals>>
vars == <<slots, count, hook, phase, i, history>>

Slots == 0 .. Max - 1

TypeOK ==
  /\ slots \in [Slots -> Pairs]
  /\ count \in 0 .. Max
  /\ hook \in {"default", "null"}
  /\ phase \in {"idle", "loop", "calling"}
  /\ i \in 0 .. Max
  /\ seen \in SUBSET Slots /\ moved \in SUBSET Slots /\ late \in SUBSET Slots
  /\ removals \in {"none", "some"}

Registered == 0 .. count - 1

\* The application runs between row changes and inside its callbacks.
ApplicationRuns == phase \in {"idle", "calling"}

-----------------------------------------------------------------------------
(* SQLite3ConnectionAppendUpdateCallback and -RemoveUpdateCallback.          *)

AppendToHistory ==
  /\ seen' = seen \ {count}
  /\ moved' = moved \ {count}
  /\ late' = IF phase = "calling" THEN late \cup {count} ELSE late
  /\ UNCHANGED removals

\* Mutant: room for one more than the array has.
AppendUpdateCallbackOverflowing(p) ==
  /\ ApplicationRuns
  /\ count <= Max
  /\ slots' = [slots EXCEPT ![count] = p]
  /\ count' = count + 1
  /\ hook' = IF count + 1 = 1 THEN "default" ELSE hook
  /\ UNCHANGED <<phase, i>> /\ AppendToHistory

\* Appending to a full array is refused and changes nothing.
AppendUpdateCallback(p) ==
  /\ ApplicationRuns
  /\ count < Max
  /\ slots' = [slots EXCEPT ![count] = p]
  /\ count' = count + 1
  /\ hook' = IF count + 1 = 1 THEN "default" ELSE hook
  /\ UNCHANGED <<phase, i>> /\ AppendToHistory

\* The first slot, from the front, that holds the pair.
IsFirst(k, p) ==
  /\ k \in Registered
  /\ slots[k] = p
  /\ \A j \in Registered : slots[j] = p => k <= j

\* What a set of slots becomes when slot k is refilled from the last one.
Refill(S, k) == {j \in 0 .. count - 2 : IF j = k THEN count - 1 \in S ELSE j \in S}

RemoveFromHistory(k) ==
  /\ seen' = Refill(seen, k)
  /\ moved' = IF k = count - 1 THEN moved \ {k} ELSE Refill(moved, k) \cup {k}
  /\ late' = Refill(late, k)
  /\ removals' = IF phase = "calling" THEN "some" ELSE removals

\* Mutant: the hook stays installed when the last callback goes.
RemoveUpdateCallbackKeepingHook(p) ==
  /\ ApplicationRuns
  /\ \E k \in Registered :
       /\ IsFirst(k, p)
       /\ slots' = [slots EXCEPT ![k] = slots[count - 1]]
       /\ RemoveFromHistory(k)
  /\ count' = count - 1
  /\ UNCHANGED <<hook, phase, i>>

\* Mutant: the slot behind the last registration is moved (count, not count - 1).
RemoveUpdateCallbackStale(p) ==
  /\ ApplicationRuns
  /\ \E k \in Registered :
       /\ IsFirst(k, p)
       /\ slots' = [slots EXCEPT ![k] = slots[IF count < Max THEN count ELSE 0]]
       /\ RemoveFromHistory(k)
  /\ count' = count - 1
  /\ hook' = IF count - 1 = 0 THEN "null" ELSE hook
  /\ UNCHANGED <<phase, i>>

\* The last registration takes the place of the removed one.
RemoveUpdateCallback(p) ==
  /\ ApplicationRuns
  /\ \E k \in Registered :
       /\ IsFirst(k, p)
       /\ slots' = [slots EXCEPT ![k] = slots[count - 1]]
       /\ RemoveFromHistory(k)
  /\ count' = count - 1
  /\ hook' = IF count - 1 = 0 THEN "null" ELSE hook
  /\ UNCHANGED <<phase, i>>

\* Nothing to remove: the hook is cleared all the same if the array is empty.
RemoveUnknownUpdateCallback(p) ==
  /\ ApplicationRuns
  /\ \A k \in Registered : slots[k] # p
  /\ hook' = IF count = 0 THEN "null" ELSE hook
  /\ UNCHANGED <<slots, count, phase, i, history>>

-----------------------------------------------------------------------------
(* One row change: sqlite3 calls the hook, the hook calls the callbacks.     *)

RowChanged ==
  /\ phase = "idle"
  /\ hook = "default"
  /\ phase' = "loop"
  /\ i' = 0
  /\ seen' = {} /\ moved' = {} /\ late' = {} /\ removals' = "none"
  /\ UNCHANGED <<slots, count, hook>>

InvokeCallback ==
  /\ phase = "loop"
  /\ i < count
  /\ phase' = "calling"
  /\ seen' = seen \cup {i}
  /\ UNCHANGED <<slots, count, hook, i, moved, late, removals>>

\* Mutant: the loop steps back after a removal so as not to miss the
\* registration that took the freed slot.
CallbackReturnsRewinding ==
  /\ phase = "calling"
  /\ phase' = "loop"
  /\ i' = IF removals = "some" THEN i ELSE i + 1
  /\ UNCHANGED <<slots, count, hook, history>>

\* Mutant: the index is incremented twice.
CallbackReturnsSkipping ==
  /\ phase = "calling"
  /\ phase' = "loop"
  /\ i' = i + 2
  /\ UNCHANGED <<slots, count, hook, history>>

CallbackReturns ==
  /\ phase = "calling"
  /\ phase' = "loop"
  /\ i' = i + 1
  /\ UNCHANGED <<slots, count, hook, history>>

EndDispatch ==
  /\ phase = "loop"
  /\ i >= count
  /\ phase' = "idle"
  /\ UNCHANGED <<slots, count, hook, i, history>>

-----------------------------------------------------------------------------
\* The array starts as uninitialised memory; every slot the same is enough
\* here because nothing behind the count is read.
Init ==
  /\ \E p \in Pairs : slots = [k \in Slots |-> p]
  /\ count = 0
  /\ hook = "null"
  /\ phase = "idle"
  /\ i = 0
  /\ seen = {} /\ moved = {} /\ late = {} /\ removals = "none"

Application(p) ==
  AppendUpdateCallback(p) \/ RemoveUpdateCallback(p) \/ RemoveUnknownUpdateCallback(p)

Dispatch == InvokeCallback \/ CallbackReturns \/ EndDispatch

Next == RowChanged \/ Dispatch \/ \E p \in Pairs : Application(p)

Spec == Init /\ [][Next]_vars

\* A callback returns to the hook that called it, and the hook's loop runs on.
FairSpec == Spec /\ WF_vars(Dispatch)

-----------------------------------------------------------------------------
(* Properties.                                                               *)

\* sqlite3 has the default hook exactly while there is a callback to call
\* (the comment at Connection.c:20-22), through every append and removal,
\* refused or not, inside callbacks too.
HookMatchesTable == hook = "default" <=> count > 0

\* No registration is called twice for one row change, however the callbacks
\* rearrange the array under the loop.
CalledAtMostOnce == [][InvokeCallback => i \notin seen]_vars

\* At the end of a dispatch whatever was not called was displaced by a removal
\* made from a callback: it is the last registration, moved to a slot the loop
\* had passed, or one appended into the room the removal made.  Without a
\* removal every registration is called, those appended meanwhile included.
MissedOnlyByRemoval ==
  [][EndDispatch => \A k \in Registered :
       k \in seen \/ (removals = "some" /\ k \in moved \cup late)]_vars

\* The dispatch of a row change ends, even if every callback it calls appends
\* callbacks.
DispatchEnds == phase # "idle" ~> phase = "idle"

\* Seen through its interface the array is a bag of registrations.
Occurrences(p) == {k \in Registered : slots[k] = p}

Registry == INSTANCE CallbackRegistry WITH
  bag       <- [p \in Pairs |-> Cardinality(Occurrences(p))],
  size      <- count,
  observing <- (hook = "default"),
  delivery  <- CASE phase = "idle" -> "none" [] phase = "loop" -> "between" [] OTHER -> "in"

\* Appending and removing, with the last registration taking the place of the
\* removed one, add and take exactly the registration that was asked for.
ImplementsRegistry == Registry!Spec
=============================================================================
