--------------------------- MODULE CallbackRegistry ---------------------------
(***************************************************************************)
(* What the update callbacks of a connection promise to an application that *)
(* does not know how they are stored: a bag of at most Max registrations,   *)
(* observed by sqlite3 exactly while it is not empty.  A registration can   *)
(* be added while there is room and taken out while it is in, at any time   *)
(* the application runs; only what is in the bag is ever called.            *)
(***************************************************************************)
EXTENDS Naturals

CONSTANTS Pairs, Max

VARIABLES
  bag,         \* how often each pair is registered
  size,        \* how many registrations there are
  observing,   \* does sqlite3 report row changes?
  delivery     \* "none", "between" or "in" a callback, for one row change

registryVars == <<bag, size, observing, delivery>>

Init ==
  /\ bag = [p \in Pairs |-> 0]
  /\ size = 0
  /\ observing = FALSE
  /\ delivery = "none"

Add(p) ==
  /\ delivery # "between" /\ size < Max
  /\ bag' = [bag EXCEPT ![p] = @ + 1]
  /\ size' = size + 1
  /\ observing' = TRUE
  /\ UNCHANGED delivery

Take(p) ==
  /\ delivery # "between" /\ bag[p] > 0
  /\ bag' = [bag EXCEPT ![p] = @ - 1]
  /\ size' = size - 1
  /\ observing' = (size > 1)
  /\ UNCHANGED delivery

RowChange == observing /\ delivery = "none" /\ delivery' = "between" /\ UNCHANGED <<bag, size, observing>>

Call == 
  /\ delivery = "between" 
  /\ \E p \in Pairs : bag[p] > 0
  /\ delivery' = "in" 
  /\ UNCHANGED <<bag, size, observing>>

Return == delivery = "in" /\ delivery' = "between" /\ UNCHANGED <<bag, size, observing>>

Done == delivery = "between" /\ delivery' = "none" /\ UNCHANGED <<bag, size, observing>>

Next == RowChange \/ Call \/ Return \/ Done \/ \E p \in Pairs : Add(p) \/ Take(p)

Spec == Init /\ [][Next]_registryVars
=============================================================================
