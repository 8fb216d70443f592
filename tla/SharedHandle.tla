---------------------------- MODULE SharedHandle ----------------------------
(***************************************************************************)
(* What the reference counting of a connection promises: a database handle  *)
(* is shared by a number of holders, is opened for the first one, stays     *)
(* open as long as anybody holds it and is closed in the step in which the  *)
(* last holder lets go, never a second time.  A holder may close it early   *)
(* for everybody.                                                           *)
(***************************************************************************)
EXTENDS Naturals

CONSTANT Handles

VARIABLES
  handle,    \* "none", "open" or "closed"
  holders    \* how many hold each handle

sharedVars == <<handle, holders>>

Init ==
  /\ handle = [h \in Handles |-> "none"]
  /\ holders = [h \in Handles |-> 0]

Open(h) ==
  /\ handle[h] = "none"
  /\ \/ /\ handle' = [handle EXCEPT ![h] = "open"]
        /\ holders' = [holders EXCEPT ![h] = 1]
     \/ /\ handle' = [handle EXCEPT ![h] = "closed"]   \* opening failed
        /\ UNCHANGED holders

Join(h) ==
  /\ handle[h] # "none" /\ holders[h] > 0
  /\ holders' = [holders EXCEPT ![h] = @ + 1]
  /\ UNCHANGED handle

Leave(h) ==
  /\ holders[h] > 0
  /\ holders[h] = 1 => handle[h] = "open"
  /\ holders' = [holders EXCEPT ![h] = @ - 1]
  /\ handle' = [handle EXCEPT ![h] = IF holders[h] = 1 THEN "closed" ELSE @]

CloseEarly(h) ==
  /\ handle[h] = "open" /\ holders[h] > 0
  /\ handle' = [handle EXCEPT ![h] = "closed"]
  /\ UNCHANGED holders

Next == \E h \in Handles : Open(h) \/ Join(h) \/ Leave(h) \/ CloseEarly(h)

Spec == Init /\ [][Next]_sharedVars
=============================================================================
