------------------------ MODULE UpdateCallbacksThreads ------------------------
(***************************************************************************)
(* The update callbacks of one connection that several threads share, one  *)
(* action per access to the memory they share: the count, and the two      *)
(* words of each slot.  The connection was opened in sqlite's serialized    *)
(* mode: db->mutex, which is recursive, is held during a step, so also      *)
(* during the hook, and by sqlite3_update_hook.  Append and remove take no  *)
(* lock of their own ("TODO: critial section").                             *)
(*                                                                          *)
(* Each thread's n is the register the compiler may keep the count in.  It  *)
(* may as well load it again before any access, which is Reload.            *)
(*                                                                          *)
(* The mode is how the application makes up for the missing lock:           *)
(*   guarded    its threads hold db->mutex around every append and remove   *)
(*   oneWriter  only one thread appends and removes, outside of callbacks   *)
(*   appendOnly it does nothing, but nobody removes anything either         *)
(***************************************************************************)
EXTENDS Integers, FiniteSets

CONSTANTS
  Threads,    \* threads that use the connection
  Writer,     \* the one that appends and removes in mode "oneWriter"
  Pairs,      \* the <<callback, userInfo>> pairs they register
  Max,        \* kSQlite3UserCallbacksMaxCount
  Modes,      \* the modes that are considered
  Nobody      \* the mutex is free

ASSUME ConstantsAssumption ==
  /\ IsFiniteSet(Threads) /\ Writer \in Threads /\ Nobody \notin Threads
  /\ Max \in Nat \ {0}
  /\ \A p \in Pairs : p = <<p[1], p[2]>>
  /\ Modes \subseteq {"guarded", "oneWriter", "appendOnly"}

VARIABLES
  mode,       \* what the application is careful about
  slots,      \* the array, two words each
  count,      \* __updateCallbacksWithUserInfoCount
  hook,       \* the hook sqlite3 has: "default" or "null"
  mutex,      \* the thread that holds db->mutex
  thread,     \* each thread: the access that comes next, and its registers
  fault,      \* "none", or a slot outside of the array was accessed
  settled     \* history: what was registered when an append or remove last returned

memory == <<slots, count, hook>>
vars == <<mode, memory, mutex, thread, fault, settled>>

Slots     == 0 .. Max - 1
Callbacks == {p[1] : p \in Pairs}
Infos     == {p[2] : p \in Pairs}

\* In "idle" and "calling" it is the application that runs.
Appending   == {"check", "putCallback", "putInfo", "putCount", "testOne", "setHook"}
Removing    == {"lookCallback", "lookInfo", "takeCount", "moveCallback", "moveInfo",
                "testZero", "clearHook"}
Dispatching == {"compare", "getCallback", "getInfo"}

\* at    the access that comes next
\* home  where an append or a remove returns to
\* n     the count, as the thread knows it
\* k     where a remove is in its search
\* i     where the hook is in its loop
\* pair  the arguments of append and remove, or what the hook has read
Local == [at: {"idle", "calling"} \cup Appending \cup Removing \cup Dispatching,
          home: {"idle", "calling"}, n: Int, k: Nat, i: Nat, pair: Callbacks \X Infos]

Careful == mode \in {"guarded", "oneWriter"}

\* Threads that lock, or leave appending and removing to one of them, stay within
\* the array.  Two threads that only append overrun it by one slot, if both passed
\* the check when one slot was left.  Three can overrun it by more: one of them writes
\* back a count that it read long ago, with which the others pass the check again.
TypeOK ==
  /\ Careful => fault = "none" /\ count <= Max
  /\ count \in Nat
  /\ Cardinality(Threads) = 2 => count <= Max + 1
  /\ mode \in Modes
  /\ slots \in [Slots -> Callbacks \X Infos]
  /\ hook \in {"default", "null"}
  /\ mutex \in Threads \cup {Nobody}
  /\ thread \in [Threads -> Local]
  /\ fault \in {"none", "outOfBounds"}
  /\ settled \in [bag: [Pairs -> Nat], size: Int, hook: {"default", "null"}]

-----------------------------------------------------------------------------
At(t, access) == fault = "none" /\ thread[t].at = access

Goto(t, access) == thread' = [thread EXCEPT ![t].at = access]

MutexAvailable(t) == mutex \in {t, Nobody}

\* A slot that is not one ends what can be said about the program.
OutOfBounds ==
  /\ fault' = "outOfBounds"
  /\ UNCHANGED <<mode, memory, mutex, thread, settled>>

\* Where the register can be stale.
Cached == {"putCallback", "putInfo", "putCount", "testOne",
           "lookCallback", "takeCount", "testZero"}

Reload(t) ==
  /\ fault = "none" /\ thread[t].at \in Cached
  /\ thread[t].n # count
  /\ thread' = [thread EXCEPT ![t].n = count]
  /\ UNCHANGED <<mode, memory, mutex, fault, settled>>

MayRegister(t) ==
  CASE mode = "guarded"   -> MutexAvailable(t)
    [] mode = "oneWriter" -> t = Writer /\ thread[t].at = "idle"
    [] OTHER              -> TRUE

\* The application's thread calls append or remove.  In a callback the thread has
\* the mutex anyway.
Enter(t, access, p) ==
  /\ fault = "none" /\ thread[t].at \in {"idle", "calling"}
  /\ MayRegister(t)
  /\ mutex' = IF mode = "guarded" THEN t ELSE mutex
  /\ thread' = [thread EXCEPT ![t] = [@ EXCEPT !.at = access, !.home = thread[t].at,
                                               !.n = count, !.k = 0, !.pair = p]]
  /\ UNCHANGED <<mode, memory, fault, settled>>

Contents(s, n, h) ==
  [bag |-> [p \in Pairs |-> Cardinality({j \in Slots : j < n /\ s[j] = p})], size |-> n, hook |-> h]

\* ... and returns.
Leave(t) ==
  /\ Goto(t, thread[t].home)
  /\ mutex' = IF mode = "guarded" /\ thread[t].home = "idle" THEN Nobody ELSE mutex
  /\ settled' = IF mode = "guarded" THEN Contents(slots, count, hook') ELSE settled

-----------------------------------------------------------------------------
(* SQLite3ConnectionAppendUpdateCallback.                                    *)

AppendUpdateCallback(t, p) == Enter(t, "check", p)

\* Mutant: room for one more than the array has.
CheckCountLate(t) ==
  /\ At(t, "check")
  /\ thread' = [thread EXCEPT ![t].at = IF count <= Max THEN "putCallback" ELSE "testOne",
                              ![t].n = count]
  /\ UNCHANGED <<mode, memory, mutex, fault, settled>>

CheckCount(t) ==
  /\ At(t, "check")
  /\ thread' = [thread EXCEPT ![t].at = IF count < Max THEN "putCallback" ELSE "testOne",
                              ![t].n = count]
  /\ UNCHANGED <<mode, memory, mutex, fault, settled>>

PutCallback(t) ==
  /\ At(t, "putCallback")
  /\ IF thread[t].n \notin Slots THEN OutOfBounds
     ELSE /\ slots' = [slots EXCEPT ![thread[t].n] = <<thread[t].pair[1], @[2]>>]
          /\ Goto(t, "putInfo")
          /\ UNCHANGED <<mode, count, hook, mutex, fault, settled>>

PutInfo(t) ==
  /\ At(t, "putInfo")
  /\ IF thread[t].n \notin Slots THEN OutOfBounds
     ELSE /\ slots' = [slots EXCEPT ![thread[t].n] = <<@[1], thread[t].pair[2]>>]
          /\ Goto(t, "putCount")
          /\ UNCHANGED <<mode, count, hook, mutex, fault, settled>>

PutCount(t) ==
  /\ At(t, "putCount")
  /\ count' = thread[t].n + 1
  /\ thread' = [thread EXCEPT ![t].at = "testOne", ![t].n = @ + 1]
  /\ UNCHANGED <<mode, slots, hook, mutex, fault, settled>>

\* Mutant: the count is tested as it was before the append.
TestOneBefore(t) ==
  /\ At(t, "testOne")
  /\ IF thread[t].n = 0 THEN Goto(t, "setHook") /\ UNCHANGED <<mutex, settled>>
     ELSE UNCHANGED hook /\ Leave(t)
  /\ UNCHANGED <<mode, memory, fault>>

\* Registered the first callback?  Set the hook.
TestOne(t) ==
  /\ At(t, "testOne")
  /\ IF thread[t].n = 1 THEN Goto(t, "setHook") /\ UNCHANGED <<mutex, settled>>
     ELSE UNCHANGED hook /\ Leave(t)
  /\ UNCHANGED <<mode, memory, fault>>

SetHook(t) ==
  /\ At(t, "setHook")
  /\ MutexAvailable(t)
  /\ hook' = "default"
  /\ Leave(t)
  /\ UNCHANGED <<mode, slots, count, fault>>

-----------------------------------------------------------------------------
(* SQLite3ConnectionRemoveUpdateCallback.                                    *)

RemoveUpdateCallback(t, p) == Enter(t, "lookCallback", p)

LookCallback(t) ==
  /\ At(t, "lookCallback")
  /\ LET k == thread[t].k IN
       \/ k >= thread[t].n /\ Goto(t, "testZero") /\ UNCHANGED <<mode, memory, mutex, fault, settled>>
       \/ k < thread[t].n /\ k \notin Slots /\ OutOfBounds
       \/ /\ k < thread[t].n /\ k \in Slots
          /\ IF slots[k][1] = thread[t].pair[1] THEN Goto(t, "lookInfo")
             ELSE thread' = [thread EXCEPT ![t].k = k + 1]
          /\ UNCHANGED <<mode, memory, mutex, fault, settled>>

LookInfo(t) ==
  /\ At(t, "lookInfo")
  /\ IF slots[thread[t].k][2] = thread[t].pair[2] THEN Goto(t, "takeCount")
     ELSE thread' = [thread EXCEPT ![t].at = "lookCallback", ![t].k = @ + 1]
  /\ UNCHANGED <<mode, memory, mutex, fault, settled>>

\* Mutant: n is the count before the decrement.
TakeCountAfter(t) ==
  /\ At(t, "takeCount")
  /\ count' = thread[t].n - 1
  /\ Goto(t, "moveCallback")
  /\ UNCHANGED <<mode, slots, hook, mutex, fault, settled>>

TakeCount(t) ==
  /\ At(t, "takeCount")
  /\ count' = thread[t].n - 1
  /\ thread' = [thread EXCEPT ![t].at = "moveCallback", ![t].n = @ - 1]
  /\ UNCHANGED <<mode, slots, hook, mutex, fault, settled>>

MoveCallback(t) ==
  /\ At(t, "moveCallback")
  /\ IF thread[t].n \notin Slots THEN OutOfBounds
     ELSE /\ slots' = [slots EXCEPT ![thread[t].k] = <<slots[thread[t].n][1], @[2]>>]
          /\ Goto(t, "moveInfo")
          /\ UNCHANGED <<mode, count, hook, mutex, fault, settled>>

\* Mutant: the userInfo of the removed registration stays behind.
MoveInfoForgotten(t) ==
  /\ At(t, "moveInfo")
  /\ Goto(t, "testZero")
  /\ UNCHANGED <<mode, memory, mutex, fault, settled>>

MoveInfo(t) ==
  /\ At(t, "moveInfo")
  /\ slots' = [slots EXCEPT ![thread[t].k] = <<@[1], slots[thread[t].n][2]>>]
  /\ Goto(t, "testZero")
  /\ UNCHANGED <<mode, count, hook, mutex, fault, settled>>

\* De-registered the last callback?  Nullify the hook.
TestZero(t) ==
  /\ At(t, "testZero")
  /\ IF thread[t].n = 0 THEN Goto(t, "clearHook") /\ UNCHANGED <<mutex, settled>>
     ELSE UNCHANGED hook /\ Leave(t)
  /\ UNCHANGED <<mode, memory, fault>>

ClearHook(t) ==
  /\ At(t, "clearHook")
  /\ MutexAvailable(t)
  /\ hook' = "null"
  /\ Leave(t)
  /\ UNCHANGED <<mode, slots, count, fault>>

-----------------------------------------------------------------------------
(* A row change, which sqlite3 reports with db->mutex held.                  *)

RowChanged(t) ==
  /\ At(t, "idle")
  /\ hook = "default" /\ mutex = Nobody
  /\ mutex' = t
  /\ thread' = [thread EXCEPT ![t].at = "compare", ![t].i = 0]
  /\ UNCHANGED <<mode, memory, fault, settled>>

\* Mutant: the loop runs one too far.
CompareIndexThrough(t) ==
  /\ At(t, "compare")
  /\ IF thread[t].i <= count THEN Goto(t, "getCallback") /\ UNCHANGED mutex
     ELSE thread' = [thread EXCEPT ![t].at = "idle", ![t].i = 0] /\ mutex' = Nobody
  /\ UNCHANGED <<mode, memory, fault, settled>>

CompareIndex(t) ==
  /\ At(t, "compare")
  /\ IF thread[t].i < count THEN Goto(t, "getCallback") /\ UNCHANGED mutex
     ELSE thread' = [thread EXCEPT ![t].at = "idle", ![t].i = 0] /\ mutex' = Nobody
  /\ UNCHANGED <<mode, memory, fault, settled>>

GetCallback(t) ==
  /\ At(t, "getCallback")
  /\ IF thread[t].i \notin Slots THEN OutOfBounds
     ELSE /\ thread' = [thread EXCEPT ![t].at = "getInfo",
                                      ![t].pair = <<slots[thread[t].i][1], @[2]>>]
          /\ UNCHANGED <<mode, memory, mutex, fault, settled>>

\* The pair the hook is about to call.
ReadPair(t) == <<thread[t].pair[1], slots[thread[t].i][2]>>

InvokeCallback(t) ==
  /\ At(t, "getInfo")
  /\ thread' = [thread EXCEPT ![t].at = "calling", ![t].pair = ReadPair(t)]
  /\ UNCHANGED <<mode, memory, mutex, fault, settled>>

CallbackReturns(t) ==
  /\ At(t, "calling")
  /\ thread' = [thread EXCEPT ![t].at = "compare", ![t].i = @ + 1]
  /\ UNCHANGED <<mode, memory, mutex, fault, settled>>

-----------------------------------------------------------------------------
\* The array is uninitialised memory; nothing that is read before it is written
\* is used, so any pair will do.
Init ==
  /\ mode \in Modes
  /\ \E p \in Pairs :
       /\ slots = [k \in Slots |-> p]
       /\ thread = [t \in Threads |-> [at |-> "idle", home |-> "idle", n |-> 0, k |-> 0, i |-> 0, pair |-> p]]
  /\ count = 0
  /\ hook = "null"
  /\ mutex = Nobody
  /\ fault = "none"
  /\ settled = Contents(slots, count, hook)

Application(t) ==
  \E p \in Pairs :
    AppendUpdateCallback(t, p) \/ (mode # "appendOnly" /\ RemoveUpdateCallback(t, p))

Append(t) ==
  CheckCount(t) \/ PutCallback(t) \/ PutInfo(t) \/ PutCount(t) \/ TestOne(t) \/ SetHook(t)

Remove(t) ==
  \/ LookCallback(t) \/ LookInfo(t) \/ TakeCount(t) \/ MoveCallback(t) \/ MoveInfo(t)
  \/ TestZero(t) \/ ClearHook(t)

Dispatch(t) ==
  RowChanged(t) \/ CompareIndex(t) \/ GetCallback(t) \/ InvokeCallback(t) \/ CallbackReturns(t)

\* The run is over; without a fault the threads must never block each other.
Over == fault # "none" /\ UNCHANGED vars

Next == Over \/ \E t \in Threads : Application(t) \/ Reload(t) \/ Append(t) \/ Remove(t) \/ Dispatch(t)

Spec == Init /\ [][Next]_vars

-----------------------------------------------------------------------------
(* Properties.                                                               *)

Busy(t) == thread[t].at \in Appending \cup Removing

\* Whenever no append or remove is under way, the hook is there exactly if there
\* is somebody to call, in either careful mode, dispatches in other threads
\* notwithstanding.
HookSettles ==
  Careful /\ (\A t \in Threads : ~Busy(t)) => (hook = "default" <=> count > 0)

\* What is below the count is a pair that somebody registered, and not the
\* callback of one with the userInfo of another, except in the slot that a remove
\* has refilled by half.  A thread that dispatches meanwhile does not hold up the
\* one writer.
SlotsAreWhole ==
  Careful => \A j \in Slots : j < count =>
    \/ slots[j] \in Pairs
    \/ \E t \in Threads : thread[t].at = "moveInfo" /\ thread[t].k = j

\* Under the lock the hook calls only what is registered at that moment.
CalledIsRegistered ==
  [][\A t \in Threads : mode = "guarded" /\ InvokeCallback(t)
       => ReadPair(t) \in Pairs /\ settled.bag[ReadPair(t)] > 0]_vars

\* Under the lock the threads together are one user of the abstract registry: the
\* accesses of an append or a remove add up to one step of it.
Dispatcher == {t \in Threads : thread[t].at \in Dispatching \cup {"calling"}
                               \/ (Busy(t) /\ thread[t].home = "calling")}

Registry == INSTANCE CallbackRegistry WITH
  bag       <- settled.bag,
  size      <- settled.size,
  observing <- (settled.hook = "default"),
  delivery  <- IF Dispatcher = {} THEN "none"
               ELSE IF \E t \in Dispatcher : thread[t].at \in Dispatching THEN "between" ELSE "in"

ImplementsRegistry ==
  [][mode = "guarded" => Registry!Next \/ UNCHANGED Registry!registryVars]_vars
=============================================================================
