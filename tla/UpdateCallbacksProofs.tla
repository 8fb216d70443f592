------------------------- MODULE UpdateCallbacksProofs -------------------------
(***************************************************************************)
(* What UpdateCallbacks promises for arrays of any size and any set of      *)
(* callbacks.                                                               *)
(***************************************************************************)
EXTENDS UpdateCallbacks, FiniteSetTheorems, TLAPS

\* The slots the loop has called or stepped over.
Passed(k) == k < i \/ (k = i /\ phase = "calling")

\* What lies ahead of the loop has not been called in this dispatch.
AheadIsUnseen ==
  phase # "idle" => \A k \in Registered : ~Passed(k) => k \notin seen

\* What the loop has passed uncalled was put there by a removal.
PassedIsExplained ==
  phase # "idle" => \A k \in Registered : Passed(k) =>
    k \in seen \/ (removals = "some" /\ k \in moved \cup late)

\* As long as nothing was removed the array still reaches beyond the loop index.
IntactReachesIndex ==
  removals = "none" => /\ phase = "calling" => i < count
                       /\ phase = "loop" => i <= count

\* A callback is called from a slot of the array.
CallingInArray == phase = "calling" => i < Max

Inv ==
  /\ TypeOK
  /\ HookMatchesTable
  /\ AheadIsUnseen
  /\ PassedIsExplained
  /\ IntactReachesIndex
  /\ CallingInArray

LEMMA InitInv == Init => Inv
  BY MaxAssumption DEF Init, Inv, TypeOK, HookMatchesTable, AheadIsUnseen,
     PassedIsExplained, IntactReachesIndex, CallingInArray, Slots, Registered, Passed

LEMMA StepInv == Inv /\ [Next]_vars => Inv'
<1> SUFFICES ASSUME Inv, [Next]_vars PROVE Inv'
  OBVIOUS
<1> USE MaxAssumption
<1> USE DEF Inv, TypeOK, HookMatchesTable, AheadIsUnseen, PassedIsExplained,
            IntactReachesIndex, Passed, Slots, Registered, CallingInArray, history
<1>1. CASE RowChanged
  BY <1>1 DEF RowChanged
<1>2. CASE InvokeCallback
  BY <1>2 DEF InvokeCallback
<1>3. CASE CallbackReturns
  BY <1>3 DEF CallbackReturns
<1>4. CASE EndDispatch
  BY <1>4 DEF EndDispatch
<1>5. ASSUME NEW p \in Pairs, AppendUpdateCallback(p) PROVE Inv'
  BY <1>5 DEF AppendUpdateCallback, ApplicationRuns, AppendToHistory
<1>6. ASSUME NEW p \in Pairs, RemoveUpdateCallback(p) PROVE Inv'
  BY <1>6 DEF RemoveUpdateCallback, ApplicationRuns, IsFirst, RemoveFromHistory, Refill
<1>7. ASSUME NEW p \in Pairs, RemoveUnknownUpdateCallback(p) PROVE Inv'
  BY <1>7 DEF RemoveUnknownUpdateCallback, ApplicationRuns
<1>8. CASE UNCHANGED vars
  BY <1>8 DEF vars
<1>9. QED
  BY <1>1, <1>2, <1>3, <1>4, <1>5, <1>6, <1>7, <1>8 DEF Next, Dispatch, Application

THEOREM Invariance == Spec => []Inv
  BY InitInv, StepInv, PTL DEF Spec

\* The types of the state components hold in every reachable state; the array
\* is never indexed outside its Max slots.
THEOREM TypeCorrect == Spec => []TypeOK
  BY Invariance, PTL DEF Inv

\* The hook is installed exactly while there is a callback to call.
THEOREM HookIsExact == Spec => []HookMatchesTable
  BY Invariance, PTL DEF Inv

\* No registration is called twice for one row change.
THEOREM AtMostOnce == Spec => CalledAtMostOnce
<1>1. Inv /\ [Next]_vars => [InvokeCallback => i \notin seen]_vars
  BY DEF Inv, AheadIsUnseen, InvokeCallback, Passed, Registered, TypeOK
<1>2. QED
  BY <1>1, Invariance, PTL DEF CalledAtMostOnce, Spec

\* Only a removal made during the dispatch can keep a registration from being
\* called.
THEOREM MissedOnlyAfterRemoval == Spec => MissedOnlyByRemoval
<1> DEFINE Explained == EndDispatch => \A k \in Registered :
       k \in seen \/ (removals = "some" /\ k \in moved \cup late)
<1>1. Inv /\ [Next]_vars => [Explained]_vars
  BY DEF Inv, PassedIsExplained, EndDispatch, Passed, Registered, TypeOK
<1>2. QED
  BY <1>1, Invariance, PTL DEF MissedOnlyByRemoval, Spec
-----------------------------------------------------------------------------
(* The array implements a bag of registrations.                              *)

Bag == [p \in Pairs |-> Cardinality(Occurrences(p))]

LEMMA OccurrencesAreCounted ==
  ASSUME TypeOK
  PROVE  \A p \in Pairs : /\ IsFiniteSet(Occurrences(p)) /\ Cardinality(Occurrences(p)) \in Nat
                          /\ Cardinality(Occurrences(p)) > 0 <=> Occurrences(p) # {}
<1> SUFFICES ASSUME NEW p \in Pairs
             PROVE  /\ IsFiniteSet(Occurrences(p)) /\ Cardinality(Occurrences(p)) \in Nat
                    /\ Cardinality(Occurrences(p)) > 0 <=> Occurrences(p) # {}
  OBVIOUS
<1>1. IsFiniteSet(Occurrences(p))
  <2>1. IsFiniteSet(0 .. count - 1)
    BY FS_Interval, MaxAssumption DEF TypeOK
  <2>2. Occurrences(p) \subseteq 0 .. count - 1
    BY DEF Occurrences, Registered
  <2>3. QED
    BY <2>1, <2>2, FS_Subset
<1>2. QED
  BY <1>1, FS_CardinalityType, FS_EmptySet

LEMMA AppendAddsOne ==
  ASSUME TypeOK, NEW p \in Pairs, AppendUpdateCallback(p)
  PROVE  Bag' = [Bag EXCEPT ![p] = @ + 1]
<1>1. count \in Nat /\ count \in Slots /\ slots \in [Slots -> Pairs] /\ count' = count + 1
  BY MaxAssumption DEF TypeOK, AppendUpdateCallback, Slots
<1>2. ASSUME NEW q \in Pairs
      PROVE  Occurrences(q)' = IF q = p THEN Occurrences(q) \cup {count} ELSE Occurrences(q)
  <2>1. \A k \in Slots : slots'[k] = IF k = count THEN p ELSE slots[k]
    BY <1>1 DEF AppendUpdateCallback
  <2>2. Registered' = Registered \cup {count} /\ count \notin Registered /\ Registered \subseteq Slots
    BY <1>1, MaxAssumption DEF Registered, Slots, AppendUpdateCallback
  <2>3. QED
    BY <1>1, <2>1, <2>2 DEF Occurrences
<1>3. ASSUME NEW q \in Pairs
      PROVE  Cardinality(Occurrences(q)') =
               IF q = p THEN Cardinality(Occurrences(q)) + 1 ELSE Cardinality(Occurrences(q))
  <2>1. IsFiniteSet(Occurrences(q)) /\ count \notin Occurrences(q)
    BY <1>1, OccurrencesAreCounted DEF Occurrences, Registered
  <2>2. Cardinality(Occurrences(q) \cup {count}) = Cardinality(Occurrences(q)) + 1
    BY <2>1, FS_AddElement
  <2>3. QED
    BY <1>2, <2>2
<1>4. QED
  BY <1>3 DEF Bag

LEMMA RemoveTakesOne ==
  ASSUME TypeOK, NEW p \in Pairs, RemoveUpdateCallback(p)
  PROVE  Bag' = [Bag EXCEPT ![p] = @ - 1] /\ Occurrences(p) # {}
<1>1. PICK k \in Registered : IsFirst(k, p) /\ slots' = [slots EXCEPT ![k] = slots[count - 1]]
  BY DEF RemoveUpdateCallback
<1> DEFINE last == count - 1
<1>2. /\ count \in Nat /\ Registered = 0 .. last /\ Registered' = 0 .. last - 1
      /\ k \in Registered /\ last \in Registered /\ Registered \subseteq Slots
      /\ Registered' = Registered \ {last} /\ slots[k] = p
  BY <1>1, MaxAssumption DEF TypeOK, RemoveUpdateCallback, Registered, IsFirst, Slots
<1>3. \A j \in Slots : slots'[j] = IF j = k THEN slots[last] ELSE slots[j]
  BY <1>1, <1>2 DEF TypeOK
<1>4. \A q \in Pairs : Occurrences(q)' = {j \in Registered \ {last} : slots'[j] = q}
  BY <1>2 DEF Occurrences
<1> HIDE DEF last
<1>5. ASSUME NEW q \in Pairs
      PROVE  Cardinality(Occurrences(q)') =
               IF q = p THEN Cardinality(Occurrences(q)) - 1 ELSE Cardinality(Occurrences(q))
  <2>1. IsFiniteSet(Occurrences(q))
    BY OccurrencesAreCounted
  <2>2. CASE q = p /\ slots[last] = p
    <3>1. Occurrences(q)' = Occurrences(q) \ {last} /\ last \in Occurrences(q)
      BY <1>2, <1>3, <1>4, <2>2 DEF Occurrences
    <3>2. QED
      BY <2>1, <2>2, <3>1, FS_RemoveElement
  <2>3. CASE q = p /\ slots[last] # p
    <3>1. Occurrences(q)' = Occurrences(q) \ {k} /\ k \in Occurrences(q)
      BY <1>2, <1>3, <1>4, <2>3 DEF Occurrences
    <3>2. QED
      BY <2>1, <2>3, <3>1, FS_RemoveElement
  <2>4. CASE q # p /\ slots[last] = q
    <3> DEFINE rest == Occurrences(q) \ {last}
    <3>1. /\ Occurrences(q)' = rest \cup {k} /\ last \in Occurrences(q)
          /\ k \notin rest
      BY <1>2, <1>3, <1>4, <2>4 DEF Occurrences
    <3>2. IsFiniteSet(rest) /\ Cardinality(rest) = Cardinality(Occurrences(q)) - 1
      BY <2>1, <3>1, FS_RemoveElement
    <3> HIDE DEF rest
    <3>3. Cardinality(rest \cup {k}) = Cardinality(rest) + 1
      BY <3>1, <3>2, FS_AddElement
    <3>4. Cardinality(Occurrences(q)) \in Nat
      BY OccurrencesAreCounted
    <3>5. QED
      BY <2>4, <3>1, <3>2, <3>3, <3>4
  <2>5. CASE q # p /\ slots[last] # q
    <3>1. Occurrences(q)' = Occurrences(q)
      BY <1>2, <1>3, <1>4, <2>5 DEF Occurrences
    <3>2. QED
      BY <2>5, <3>1
  <2>6. QED
    BY <2>2, <2>3, <2>4, <2>5
<1>6. Bag' = [Bag EXCEPT ![p] = @ - 1]
  BY <1>5 DEF Bag
<1>7. k \in Occurrences(p)
  BY <1>2 DEF Occurrences
<1>8. QED
  BY <1>6, <1>7

LEMMA InitIsEmptyBag == Init => Registry!Init
<1> SUFFICES ASSUME Init PROVE Registry!Init
  OBVIOUS
<1>1. \A p \in Pairs : Occurrences(p) = {}
  BY DEF Init, Occurrences, Registered
<1>2. \A p \in Pairs : Cardinality(Occurrences(p)) = 0
  BY <1>1, FS_EmptySet
<1>3. QED
  BY <1>2 DEF Init, Registry!Init

\* A step that leaves the array and the count leaves the bag.
LEMMA SameBag == slots' = slots /\ count' = count => Bag' = Bag
  BY DEF Bag, Occurrences, Registered

LEMMA StepImplements == Inv /\ [Next]_vars => [Registry!Next]_(Registry!registryVars)
<1> SUFFICES ASSUME Inv, [Next]_vars PROVE [Registry!Next]_(Registry!registryVars)
  OBVIOUS
<1> USE DEF Registry!registryVars
<1>0. TypeOK /\ HookMatchesTable
  BY DEF Inv
<1>1. CASE RowChanged
  <2>1. Registry!RowChange
    BY <1>1, SameBag DEF RowChanged, Registry!RowChange, Bag
  <2>2. QED
    BY <2>1 DEF Registry!Next
<1>2. CASE InvokeCallback
  <2>1. slots[i] \in Pairs /\ i \in Occurrences(slots[i])
    BY <1>0, <1>2, MaxAssumption DEF InvokeCallback, TypeOK, Occurrences, Registered, Slots
  <2>2. \E p \in Pairs : Cardinality(Occurrences(p)) > 0
    BY <1>0, <2>1, OccurrencesAreCounted
  <2>3. Registry!Call
    BY <1>2, <2>2, SameBag DEF InvokeCallback, Registry!Call, Bag
  <2>4. QED
    BY <2>3 DEF Registry!Next
<1>3. CASE CallbackReturns
  <2>1. Registry!Return
    BY <1>3, SameBag DEF CallbackReturns, Registry!Return, Bag
  <2>2. QED
    BY <2>1 DEF Registry!Next
<1>4. CASE EndDispatch
  <2>1. Registry!Done
    BY <1>4, SameBag DEF EndDispatch, Registry!Done, Bag
  <2>2. QED
    BY <2>1 DEF Registry!Next
<1>5. ASSUME NEW p \in Pairs, AppendUpdateCallback(p) PROVE Registry!Add(p)
  <2>1. Bag' = [Bag EXCEPT ![p] = @ + 1]
    BY <1>0, <1>5, AppendAddsOne
  <2>2. /\ phase \in {"idle", "calling"} /\ phase' = phase /\ count < Max /\ count' = count + 1
        /\ hook' = "default"
    BY <1>0, <1>5, MaxAssumption DEF AppendUpdateCallback, ApplicationRuns, HookMatchesTable, TypeOK
  <2>3. QED
    BY <2>1, <2>2 DEF Registry!Add, Bag
<1>6. ASSUME NEW p \in Pairs, RemoveUpdateCallback(p) PROVE Registry!Take(p)
  <2>1. Bag' = [Bag EXCEPT ![p] = @ - 1] /\ Cardinality(Occurrences(p)) > 0
    BY <1>0, <1>6, RemoveTakesOne, OccurrencesAreCounted
  <2>2. /\ phase \in {"idle", "calling"} /\ phase' = phase /\ count' = count - 1
        /\ (hook' = "default") = (count > 1)
    BY <1>0, <1>6, MaxAssumption DEF RemoveUpdateCallback, ApplicationRuns, HookMatchesTable,
       TypeOK, Registered
  <2>3. QED
    BY <2>1, <2>2 DEF Registry!Take, Bag
<1>7. ASSUME NEW p \in Pairs, RemoveUnknownUpdateCallback(p)
      PROVE  UNCHANGED <<Bag, count, hook, phase>>
  BY <1>0, <1>7, SameBag, MaxAssumption DEF RemoveUnknownUpdateCallback, HookMatchesTable, TypeOK
<1>8. CASE UNCHANGED vars
  BY <1>8, SameBag DEF vars, Bag
<1>9. UNCHANGED <<Bag, count, hook, phase>> => UNCHANGED Registry!registryVars
  BY DEF Bag
<1>10. QED
  BY <1>1, <1>2, <1>3, <1>4, <1>5, <1>6, <1>7, <1>8, <1>9
     DEF Next, Dispatch, Application, Registry!Next

\* Through its interface the array, its hook and its loop cannot be told from a bag
\* of registrations, for any number of slots and callbacks.
THEOREM ArrayIsABag == Spec => ImplementsRegistry
  BY InitIsEmptyBag, StepImplements, Invariance, PTL DEF ImplementsRegistry, Registry!Spec, Spec
=============================================================================
