--------------------- MODULE UpdateCallbacksThreadsProofs ---------------------
(***************************************************************************)
(* Update callbacks that threads share with care, be there as many threads   *)
(* and slots as there may: under a lock, or with one thread that appends and  *)
(* removes, no access is out of bounds, the hook and the array are right.     *)
(* Threads that only append keep the types and, if they are two, the bound of  *)
(* the count.  Under the lock the threads implement CallbackRegistry.          *)
(***************************************************************************)
EXTENDS UpdateCallbacksThreads, FiniteSetTheorems, TLAPS

IsBusy(l) == l.at \in Appending \cup Removing
NobodyIsBusy == \A t \in Threads : ~IsBusy(thread[t])

\* A thread that is inside the hook, its callbacks included.
IsInHook(l) == l.at \in Dispatching \cup {"calling"} \/ (IsBusy(l) /\ l.home = "calling")

\* Who has the mutex, and who may append and remove.
MutexIsKept ==
  \A t \in Threads :
    /\ IsInHook(thread[t]) => mutex = t
    /\ IsBusy(thread[t]) /\ mode = "guarded" => mutex = t
    /\ IsBusy(thread[t]) /\ mode = "oneWriter" => t = Writer /\ thread[t].home = "idle"

\* The memory as an append or remove that has come this far left it: its register
\* is right, and the hook is, but for the time between the count and the hook.
InStep(l) ==
  /\ l.n = count /\ l.pair \in Pairs
  /\ l.at \in {"putCallback", "putInfo", "putCount"} => count < Max
  /\ l.at = "putInfo" => slots[count][1] = l.pair[1]
  /\ l.at = "putCount" => slots[count] = l.pair
  /\ l.at \in {"lookInfo", "takeCount"} => l.k < count
  /\ l.at \in {"moveCallback", "moveInfo"} =>
       l.k <= count /\ count < Max /\ slots[count] \in Pairs /\ hook = "default"
  /\ l.at = "moveInfo" => slots[l.k][1] = slots[count][1]
  /\ l.at = "testOne" => count >= 1 /\ (count > 1 => hook = "default")
  /\ l.at = "setHook" => count = 1
  /\ l.at = "testZero" => (count > 0 => hook = "default")
  /\ l.at = "clearHook" => count = 0
  /\ l.at \in {"check", "putCallback", "putInfo", "putCount",
               "lookCallback", "lookInfo", "takeCount"} => (hook = "default" <=> count > 0)

\* The hook's loop stays in the array; under the lock, among what is registered.
InLoop(l) ==
  l.at \in {"getCallback", "getInfo"} =>
    /\ l.i \in Slots
    /\ mode = "guarded" => l.i < count
    /\ mode = "guarded" /\ l.at = "getInfo" => l.pair[1] = slots[l.i][1]

Quiet ==
  NobodyIsBusy =>
    /\ hook = "default" <=> count > 0
    /\ mode = "guarded" => settled = Contents(slots, count, hook)

CInv ==
  /\ TypeOK /\ Careful
  /\ MutexIsKept
  /\ \A t \in Threads : IsBusy(thread[t]) => InStep(thread[t])
  /\ \A t \in Threads : InLoop(thread[t])
  /\ SlotsAreWhole
  /\ Quiet

-----------------------------------------------------------------------------
(* Types.                                                                    *)

LEMMA PairType == ASSUME NEW p \in Pairs PROVE p \in Callbacks \X Infos /\ p = <<p[1], p[2]>>
<1>1. p = <<p[1], p[2]>> /\ p[1] \in Callbacks /\ p[2] \in Infos
  BY ConstantsAssumption DEF Callbacks, Infos
<1>2. <<p[1], p[2]>> \in Callbacks \X Infos
  BY <1>1
<1>3. QED
  BY <1>1, <1>2

LEMMA ContentsType ==
  ASSUME NEW s, NEW n \in 0 .. Max, NEW h \in {"default", "null"}
  PROVE  /\ Contents(s, n, h) \in [bag: [Pairs -> Nat], size: Int, hook: {"default", "null"}]
         /\ \A p \in Pairs, j \in Slots : j < n /\ s[j] = p => Contents(s, n, h).bag[p] > 0
<1>1. ASSUME NEW A \in SUBSET Slots
      PROVE  Cardinality(A) \in Nat /\ (A # {} => Cardinality(A) > 0)
  <2>1. IsFiniteSet(Slots)
    <3>1. 0 \in Int /\ Max - 1 \in Int
      BY ConstantsAssumption
    <3>2. QED
      BY <3>1, FS_Interval DEF Slots
  <2>2. IsFiniteSet(A)
    BY <2>1, FS_Subset
  <2>3. QED
    BY <2>2, FS_CardinalityType, FS_EmptySet
<1> DEFINE occurrences(p) == {j \in Slots : j < n /\ s[j] = p}
<1>2. \A p \in Pairs : occurrences(p) \in SUBSET Slots
  OBVIOUS
<1>3. \A p \in Pairs : Cardinality(occurrences(p)) \in Nat
  BY <1>1, <1>2
<1>4. ASSUME NEW p \in Pairs, NEW j \in Slots, j < n, s[j] = p
      PROVE  Cardinality(occurrences(p)) > 0
  BY <1>1, <1>2, <1>4
<1>5. Contents(s, n, h) = [bag |-> [p \in Pairs |-> Cardinality(occurrences(p))],
                           size |-> n, hook |-> h]
  BY DEF Contents
<1> HIDE DEF occurrences
<1>6. [p \in Pairs |-> Cardinality(occurrences(p))] \in [Pairs -> Nat] /\ n \in Int
  BY <1>3, ConstantsAssumption
<1>7. Contents(s, n, h) \in [bag: [Pairs -> Nat], size: Int, hook: {"default", "null"}]
  BY <1>5, <1>6
<1>8. \A p \in Pairs : Contents(s, n, h).bag[p] = Cardinality(occurrences(p))
  BY <1>5
<1>9. QED
  BY <1>4, <1>7, <1>8

\* The part of the invariant that is about the memory.
MemoryOK ==
  /\ mode \in Modes /\ Careful /\ fault = "none"
  /\ slots \in [Slots -> Callbacks \X Infos] /\ count \in 0 .. Max
  /\ hook \in {"default", "null"} /\ mutex \in Threads \cup {Nobody}
  /\ settled \in [bag: [Pairs -> Nat], size: Int, hook: {"default", "null"}]

LEMMA TypeParts ==
  /\ CInv => MemoryOK /\ thread \in [Threads -> Local]
  /\ MemoryOK' /\ (thread \in [Threads -> Local])' => (TypeOK /\ Careful)'
<1>1. CInv => MemoryOK /\ thread \in [Threads -> Local]
  <2> SUFFICES ASSUME CInv PROVE MemoryOK /\ thread \in [Threads -> Local]
    OBVIOUS
  <2>1. count \in 0 .. Max
    BY ConstantsAssumption DEF CInv, TypeOK
  <2>2. QED
    BY <2>1 DEF CInv, TypeOK, MemoryOK
<1>2. MemoryOK' /\ (thread \in [Threads -> Local])' => (TypeOK /\ Careful)'
  <2> SUFFICES ASSUME MemoryOK', (thread \in [Threads -> Local])' PROVE (TypeOK /\ Careful)'
    OBVIOUS
  <2>1. count' \in Nat /\ count' <= Max /\ count' <= Max + 1
    BY ConstantsAssumption DEF MemoryOK
  <2>2. QED
    BY <2>1 DEF MemoryOK, TypeOK, Careful
<1>3. QED
  BY <1>1, <1>2

LEMMA StutterKeeps == ASSUME CInv, UNCHANGED vars PROVE CInv'
<1>1. /\ UNCHANGED <<mode, slots, count, hook, mutex, thread, fault, settled>>
  BY DEF vars, memory
<1>2. (TypeOK /\ Careful /\ SlotsAreWhole)' = (TypeOK /\ Careful /\ SlotsAreWhole)
  BY <1>1 DEF TypeOK, Careful, SlotsAreWhole
<1>3. (MutexIsKept /\ Quiet)' = (MutexIsKept /\ Quiet)
  BY <1>1 DEF MutexIsKept, Quiet, NobodyIsBusy, IsInHook, IsBusy, Contents
<1>4. \A l : InStep(l)' = InStep(l) /\ InLoop(l)' = InLoop(l)
  BY <1>1 DEF InStep, InLoop
<1>5. QED
  BY <1>1, <1>2, <1>3, <1>4 DEF CInv, IsBusy

LEMMA InitKeeps == Careful /\ Init => CInv
<1> SUFFICES ASSUME Careful, Init PROVE CInv
  OBVIOUS
<1>1. PICK p \in Pairs :
        /\ slots = [k \in Slots |-> p]
        /\ thread = [t \in Threads |-> [at |-> "idle", home |-> "idle", n |-> 0, k |-> 0,
                                        i |-> 0, pair |-> p]]
  BY DEF Init
<1>2. MemoryOK /\ thread \in [Threads -> Local]
  <2>1. p \in Callbacks \X Infos /\ 0 \in 0 .. Max
    BY PairType, ConstantsAssumption
  <2>2. settled \in [bag: [Pairs -> Nat], size: Int, hook: {"default", "null"}]
    BY <2>1, ContentsType DEF Init
  <2>3. thread \in [Threads -> Local]
    BY <1>1, <2>1 DEF Local
  <2>4. QED
    BY <1>1, <2>1, <2>2, <2>3 DEF Init, MemoryOK
<1>3. TypeOK /\ Careful
  <2>1. count \in Nat /\ count <= Max /\ count <= Max + 1
    BY <1>2, ConstantsAssumption DEF MemoryOK
  <2>2. QED
    BY <1>2, <2>1 DEF MemoryOK, TypeOK, Careful
<1>4. \A t \in Threads : thread[t].at = "idle"
  BY <1>1
<1>5. /\ MutexIsKept /\ SlotsAreWhole
      /\ \A t \in Threads : ~IsBusy(thread[t]) /\ InLoop(thread[t])
  BY <1>4 DEF Init, MutexIsKept, SlotsAreWhole, IsInHook, IsBusy, InLoop, Appending, Removing,
     Dispatching, Slots
<1>6. Quiet
  BY DEF Init, Quiet
<1>7. QED
  BY <1>3, <1>5, <1>6 DEF CInv

-----------------------------------------------------------------------------
(* One thread moves.                                                         *)

Goes(t) ==
  /\ thread' \in [Threads -> Local]
  /\ \A u \in Threads \ {t} : thread'[u] = thread[u]

LEMMA OneAtATime ==
  ASSUME CInv, NEW t \in Threads, NEW u \in Threads, IsBusy(thread[t]), IsBusy(thread[u])
  PROVE  t = u
  BY DEF CInv, MutexIsKept, Careful

\* What the busy thread can rely on in the array.
LEMMA WholeForBusy ==
  ASSUME CInv, NEW t \in Threads, IsBusy(thread[t]), NEW j \in Slots, j < count
  PROVE  slots[j] \in Pairs \/ (thread[t].at = "moveInfo" /\ thread[t].k = j)
<1>1. CASE \E u \in Threads : thread[u].at = "moveInfo" /\ thread[u].k = j
  <2>1. PICK u \in Threads : thread[u].at = "moveInfo" /\ thread[u].k = j
    BY <1>1
  <2>2. u = t
    BY <2>1, OneAtATime DEF IsBusy, Removing
  <2>3. QED
    BY <2>1, <2>2
<1>2. QED
  BY <1>1 DEF CInv, SlotsAreWhole

\* A thread in the middle of an append or remove stays there: nobody else looks at
\* what it changes, but the hook, which in mode "oneWriter" may see anything.
LEMMA BusyStep ==
  ASSUME CInv, NEW t \in Threads, Goes(t),
         IsBusy(thread[t]), IsBusy(thread'[t]), thread'[t].home = thread[t].home,
         UNCHANGED <<mode, mutex, fault, settled>>,
         slots' \in [Slots -> Callbacks \X Infos], count' \in 0 .. Max,
         hook' \in {"default", "null"},
         InStep(thread[t])',
         \A j \in Slots : j < count' =>
           slots'[j] \in Pairs \/ (thread'[t].at = "moveInfo" /\ thread'[t].k = j)
  PROVE  CInv'
<1>1. (TypeOK /\ Careful)'
  BY TypeParts DEF MemoryOK, Careful, Goes
<1>2. ASSUME NEW u \in Threads, u # t PROVE ~IsBusy(thread'[u]) /\ thread'[u] = thread[u]
  BY <1>2, OneAtATime DEF Goes
<1>3. MutexIsKept'
  <2>1. IsInHook(thread'[t]) => IsInHook(thread[t])
    BY DEF IsInHook, IsBusy, Appending, Removing, Dispatching
  <2>2. QED
    BY <1>2, <2>1 DEF CInv, MutexIsKept
<1>4. ASSUME NEW u \in Threads PROVE (IsBusy(thread[u]) => InStep(thread[u]))'
  BY <1>2
<1>5. ASSUME NEW u \in Threads PROVE InLoop(thread[u])'
  <2>1. CASE u = t
    BY <2>1 DEF InLoop, IsBusy, Appending, Removing
  <2>2. CASE u # t
    <3>1. thread'[u] = thread[u] /\ InLoop(thread[u])
      BY <1>2, <2>2 DEF CInv
    <3>2. thread[u].at \in {"getCallback", "getInfo"} => mode # "guarded"
      BY <2>2 DEF CInv, MutexIsKept, IsInHook, Dispatching
    <3>3. QED
      BY <3>1, <3>2 DEF InLoop
  <2>3. QED
    BY <2>1, <2>2
<1>6. SlotsAreWhole'
  BY DEF SlotsAreWhole
<1>7. Quiet'
  BY DEF Quiet, NobodyIsBusy
<1>8. QED
  BY <1>1, <1>3, <1>4, <1>5, <1>6, <1>7 DEF CInv

\* It returns: the hook is right again.
LEMMA LeaveKeeps ==
  ASSUME CInv, NEW t \in Threads, IsBusy(thread[t]), thread[t].at # "moveInfo", Leave(t),
         UNCHANGED <<mode, slots, count, fault>>, hook' \in {"default", "null"},
         hook' = "default" <=> count > 0
  PROVE  CInv'
<1>1. /\ thread[t] \in Local /\ thread[t].home \in {"idle", "calling"}
      /\ thread \in [Threads -> Local]
  BY TypeParts DEF Local
<1>2. thread'[t].at = thread[t].home /\ thread'[t].home = thread[t].home
  BY <1>1 DEF Leave, Goto, Local
<1>3. Goes(t)
  <2>1. [thread[t] EXCEPT !.at = thread[t].home] \in Local
    BY <1>1 DEF Local
  <2>2. QED
    BY <1>1, <2>1 DEF Leave, Goto, Goes
<1>4. ~IsBusy(thread'[t])
  BY <1>1, <1>2 DEF IsBusy, Appending, Removing
<1>5. mode = mode' /\ mutex' = IF mode = "guarded" /\ thread[t].home = "idle" THEN Nobody ELSE mutex
  BY DEF Leave
<1>6. settled' = IF mode = "guarded" THEN Contents(slots, count, hook') ELSE settled
  BY DEF Leave
<1>7. (TypeOK /\ Careful)'
  <2>1. MemoryOK
    BY TypeParts
  <2>2. Contents(slots, count, hook') \in [bag: [Pairs -> Nat], size: Int, hook: {"default", "null"}]
    BY <2>1, ContentsType DEF MemoryOK
  <2>3. MemoryOK'
    BY <1>5, <1>6, <2>1, <2>2 DEF MemoryOK, Careful
  <2>4. QED
    BY <1>3, <2>3, TypeParts DEF Goes
<1>8. ASSUME NEW u \in Threads, u # t PROVE ~IsBusy(thread'[u]) /\ thread'[u] = thread[u]
  BY <1>3, <1>8, OneAtATime DEF Goes
<1>9. MutexIsKept'
  <2>1. mode = "guarded" => mutex = t
    BY DEF CInv, MutexIsKept
  <2>2. ASSUME IsInHook(thread'[t]) PROVE mutex' = t
    <3>1. thread[t].home = "calling"
      BY <1>1, <1>2, <1>4, <2>2 DEF IsInHook, Dispatching
    <3>2. mutex = t
      BY <3>1 DEF CInv, MutexIsKept, IsInHook
    <3>3. QED
      BY <1>5, <3>1, <3>2
  <2>3. ASSUME NEW u \in Threads, u # t, IsInHook(thread'[u]) PROVE mutex' = u
    <3>1. mutex = u
      BY <1>8, <2>3 DEF CInv, MutexIsKept
    <3>2. QED
      BY <1>5, <2>1, <2>3, <3>1
  <2>4. QED
    BY <1>4, <1>8, <2>2, <2>3 DEF MutexIsKept
<1>10. ASSUME NEW u \in Threads PROVE ~IsBusy(thread'[u])
  BY <1>4, <1>8
<1>11. ASSUME NEW u \in Threads PROVE InLoop(thread[u])'
  <2>1. CASE u = t
    BY <1>1, <1>2, <2>1 DEF InLoop
  <2>2. CASE u # t
    BY <1>5, <1>8, <2>2 DEF InLoop, CInv
  <2>3. QED
    BY <2>1, <2>2
<1>12. SlotsAreWhole'
  BY WholeForBusy DEF SlotsAreWhole
<1>13. Quiet'
  BY <1>5, <1>6 DEF Quiet, Contents
<1>14. QED
  BY <1>7, <1>9, <1>10, <1>11, <1>12, <1>13 DEF CInv

\* A thread of which nobody is the wiser: the memory stays.
LEMMA CalmStep ==
  ASSUME CInv, NEW t \in Threads, Goes(t), ~IsBusy(thread[t]), ~IsBusy(thread'[t]),
         UNCHANGED <<mode, slots, count, hook, fault, settled>>,
         mutex' \in Threads \cup {Nobody},
         mutex' = mutex \/ (mutex \in {t, Nobody} /\ mutex' \in {t, Nobody}),
         IsInHook(thread'[t]) => mutex' = t,
         InLoop(thread'[t])
  PROVE  CInv'
<1>1. (TypeOK /\ Careful)'
  BY TypeParts DEF MemoryOK, Careful, Goes
<1>2. ASSUME NEW u \in Threads, u # t PROVE thread'[u] = thread[u]
  BY <1>2 DEF Goes
<1>3. MutexIsKept'
  <2>1. ASSUME NEW u \in Threads, u # t, mutex = u PROVE mutex' = u
    BY <2>1, ConstantsAssumption
  <2>2. ASSUME NEW u \in Threads
        PROVE (/\ IsInHook(thread[u]) => mutex = u
               /\ IsBusy(thread[u]) /\ mode = "guarded" => mutex = u
               /\ IsBusy(thread[u]) /\ mode = "oneWriter" => u = Writer /\ thread[u].home = "idle")'
    <3>1. CASE u = t
      BY <3>1
    <3>2. CASE u # t
      BY <1>2, <2>1, <3>2 DEF CInv, MutexIsKept
    <3>3. QED
      BY <3>1, <3>2
  <2>3. QED
    BY <2>2 DEF MutexIsKept
<1>4. ASSUME NEW u \in Threads PROVE (IsBusy(thread[u]) => InStep(thread[u]))' /\ InLoop(thread[u])'
  <2>1. CASE u = t
    BY <2>1 DEF InLoop
  <2>2. CASE u # t
    BY <1>2, <2>2 DEF CInv, InStep, InLoop
  <2>3. QED
    BY <2>1, <2>2
<1>5. SlotsAreWhole'
  <2>1. ASSUME NEW j \in Slots, NEW u \in Threads, thread[u].at = "moveInfo", thread[u].k = j
        PROVE  thread'[u].at = "moveInfo" /\ thread'[u].k = j
    BY <1>2, <2>1 DEF IsBusy, Removing
  <2>2. QED
    BY <2>1 DEF CInv, SlotsAreWhole, Careful
<1>6. Quiet'
  <2>1. NobodyIsBusy' => NobodyIsBusy
    BY <1>2 DEF NobodyIsBusy
  <2>2. QED
    BY <2>1 DEF CInv, Quiet, Contents
<1>7. QED
  BY <1>1, <1>3, <1>4, <1>5, <1>6 DEF CInv

LEMMA GoesSuffices ==
  ASSUME CInv, NEW t \in Threads, NEW l \in Local, thread' = [thread EXCEPT ![t] = l]
  PROVE  Goes(t) /\ thread'[t] = l
  BY TypeParts DEF Goes

\* What is known of a thread that moves.
LEMMA Knows ==
  ASSUME CInv, NEW t \in Threads
  PROVE  /\ thread[t] \in Local /\ thread[t].n \in Int /\ thread[t].k \in Nat /\ thread[t].i \in Nat
         /\ count \in Nat /\ count <= Max /\ Max \in Nat /\ Max >= 1
         /\ IsBusy(thread[t]) => InStep(thread[t])
  BY TypeParts, ConstantsAssumption DEF MemoryOK, CInv, Local

-----------------------------------------------------------------------------
(* Append.                                                                   *)

\* An append or remove starts when nobody else is in one.
LEMMA EnterStep ==
  ASSUME CInv, NEW t \in Threads, NEW p \in Pairs, NEW access \in {"check", "lookCallback"},
         Enter(t, access, p)
  PROVE  CInv'
<1>1. thread[t] \in Local /\ thread \in [Threads -> Local] /\ thread[t].at \in {"idle", "calling"}
  BY TypeParts DEF Enter
<1> DEFINE l == [thread[t] EXCEPT !.at = access, !.home = thread[t].at, !.n = count, !.k = 0,
                                  !.pair = p]
<1>2. l \in Local
  <2>1. count \in Int /\ 0 \in Nat /\ p \in Callbacks \X Infos
    BY Knows, PairType
  <2>2. access \in {"idle", "calling"} \cup Appending \cup Removing \cup Dispatching
    BY DEF Appending, Removing
  <2>3. QED
    BY <1>1, <2>1, <2>2 DEF Local
<1>3. Goes(t) /\ thread'[t] = l
  <2>1. thread' = [thread EXCEPT ![t] = l]
    BY DEF Enter
  <2>2. QED
    BY <1>2, <2>1, GoesSuffices
<1>4. /\ thread'[t].at = access /\ thread'[t].home = thread[t].at
      /\ thread'[t].n = count /\ thread'[t].pair = p
  BY <1>1, <1>3 DEF Local
<1>5. ~IsBusy(thread[t])
  BY <1>1 DEF IsBusy, Appending, Removing
<1>6. NobodyIsBusy
  <2>1. ASSUME NEW u \in Threads, IsBusy(thread[u]) PROVE FALSE
    <3>1. CASE mode = "guarded"
      BY <1>5, <2>1, <3>1, ConstantsAssumption DEF CInv, MutexIsKept, Enter, MayRegister, MutexAvailable
    <3>2. CASE mode = "oneWriter"
      BY <1>5, <2>1, <3>2 DEF CInv, MutexIsKept, Enter, MayRegister
    <3>3. QED
      BY <3>1, <3>2 DEF CInv, Careful
  <2>2. QED
    BY <2>1 DEF NobodyIsBusy
<1>7. UNCHANGED <<mode, slots, count, hook, fault, settled>>
  BY DEF Enter, memory
<1>8. mutex' = IF mode = "guarded" THEN t ELSE mutex
  BY DEF Enter
<1>9. (TypeOK /\ Careful)'
  BY <1>3, <1>7, <1>8, TypeParts DEF MemoryOK, Careful, Goes
<1>10. ASSUME NEW u \in Threads, u # t PROVE ~IsBusy(thread'[u]) /\ thread'[u] = thread[u]
  BY <1>3, <1>6, <1>10 DEF Goes, NobodyIsBusy
<1>11. MutexIsKept'
  <2>1. mode = "guarded" => mutex \in {t, Nobody}
    BY DEF Enter, MayRegister, MutexAvailable
  <2>2. mode = "oneWriter" => t = Writer /\ thread[t].at = "idle"
    BY DEF Enter, MayRegister
  <2>3. ASSUME NEW u \in Threads, u # t, IsInHook(thread'[u]) PROVE mutex' = u
    <3>1. mutex = u
      BY <1>10, <2>3 DEF CInv, MutexIsKept
    <3>2. QED
      BY <1>8, <2>1, <2>3, <3>1, ConstantsAssumption
  <2>4. ASSUME IsInHook(thread'[t]) PROVE mutex' = t
    <3>1. thread[t].at = "calling"
      BY <1>4, <2>4 DEF IsInHook, Dispatching
    <3>2. mutex = t
      BY <3>1 DEF CInv, MutexIsKept, IsInHook
    <3>3. QED
      BY <1>8, <3>2
  <2>5. QED
    BY <1>4, <1>7, <1>8, <1>10, <2>2, <2>3, <2>4 DEF MutexIsKept
<1>12. InStep(thread[t])'
  <2>1. hook = "default" <=> count > 0
    BY <1>6 DEF CInv, Quiet
  <2>2. QED
    BY <1>4, <1>7, <2>1 DEF InStep
<1>13. ASSUME NEW u \in Threads PROVE (IsBusy(thread[u]) => InStep(thread[u]))'
  BY <1>10, <1>12
<1>14. ASSUME NEW u \in Threads PROVE InLoop(thread[u])'
  <2>1. CASE u = t
    BY <1>4, <2>1 DEF InLoop
  <2>2. CASE u # t
    BY <1>7, <1>10, <2>2 DEF InLoop, CInv
  <2>3. QED
    BY <2>1, <2>2
<1>15. SlotsAreWhole'
  <2>1. \A u \in Threads : thread[u].at # "moveInfo"
    BY <1>6 DEF NobodyIsBusy, IsBusy, Removing
  <2>2. QED
    BY <1>7, <2>1 DEF CInv, SlotsAreWhole, Careful
<1>16. Quiet'
  BY <1>4 DEF Quiet, NobodyIsBusy, IsBusy, Appending, Removing
<1>17. QED
  BY <1>9, <1>11, <1>13, <1>14, <1>15, <1>16 DEF CInv

LEMMA CheckCountKeeps == ASSUME CInv, NEW t \in Threads, CheckCount(t) PROVE CInv'
<1>1. IsBusy(thread[t]) /\ thread[t].at = "check"
  BY DEF CheckCount, At, IsBusy, Appending
<1>2. InStep(thread[t]) /\ thread[t] \in Local /\ count \in Nat /\ count <= Max /\ Max >= 1 /\ Max \in Nat
  BY <1>1, Knows
<1> DEFINE next == IF count < Max THEN "putCallback" ELSE "testOne"
           l == [thread[t] EXCEPT !.at = next, !.n = count]
<1>3. next \in Appending
  BY DEF Appending
<1>4. (next = "putCallback" /\ count < Max) \/ (next = "testOne" /\ count = Max)
  BY <1>2
<1>5. thread' = [thread EXCEPT ![t] = l]
  BY <1>2, TypeParts DEF CheckCount, Local
<1> HIDE DEF next
<1>6. l \in Local /\ l.at = next /\ l.n = count /\ l.home = thread[t].home /\ l.pair = thread[t].pair
  <2>1. /\ count \in Int
        /\ next \in {"idle", "calling"} \cup Appending \cup Removing \cup Dispatching
    BY <1>2, <1>3
  <2>2. QED
    BY <1>2, <2>1 DEF Local
<1> HIDE DEF l
<1>7. Goes(t) /\ thread'[t] = l
  BY <1>5, <1>6, GoesSuffices
<1>8. UNCHANGED <<mode, slots, count, hook, mutex, fault, settled>>
  BY DEF CheckCount, memory
<1>9. InStep(thread[t])'
  BY <1>1, <1>2, <1>4, <1>6, <1>7, <1>8 DEF InStep
<1>10. \A j \in Slots : j < count => slots[j] \in Pairs
  BY <1>1, WholeForBusy
<1>11. IsBusy(thread'[t])
  BY <1>3, <1>6, <1>7 DEF IsBusy
<1>12. QED
  BY <1>1, <1>6, <1>7, <1>8, <1>9, <1>10, <1>11, BusyStep, TypeParts DEF MemoryOK

LEMMA PutCallbackKeeps == ASSUME CInv, NEW t \in Threads, PutCallback(t) PROVE CInv'
<1>1. IsBusy(thread[t]) /\ thread[t].at = "putCallback"
  BY DEF PutCallback, At, IsBusy, Appending
<1>2. InStep(thread[t]) /\ thread[t] \in Local /\ count \in Nat /\ Max \in Nat
  BY <1>1, Knows
<1>3. thread[t].n = count /\ count \in Slots /\ thread[t].pair \in Pairs
  BY <1>1, <1>2 DEF InStep, Slots
<1> DEFINE l == [thread[t] EXCEPT !.at = "putInfo"]
<1>4. /\ thread' = [thread EXCEPT ![t] = l]
      /\ slots' = [slots EXCEPT ![count] = <<thread[t].pair[1], @[2]>>]
      /\ UNCHANGED <<mode, count, hook, mutex, fault, settled>>
  BY <1>3 DEF PutCallback, Goto
<1>5. l \in Local /\ l.at = "putInfo" /\ l.n = count /\ l.home = thread[t].home /\ l.pair = thread[t].pair
  BY <1>2, <1>3 DEF Local, Appending
<1> HIDE DEF l
<1>6. Goes(t) /\ thread'[t] = l
  BY <1>4, <1>5, GoesSuffices
<1>7. MemoryOK /\ slots \in [Slots -> Callbacks \X Infos]
  BY TypeParts DEF MemoryOK
<1>8. /\ slots' \in [Slots -> Callbacks \X Infos] /\ slots'[count][1] = thread[t].pair[1]
      /\ \A j \in Slots : j # count => slots'[j] = slots[j]
  BY <1>3, <1>4, <1>7, PairType
<1>9. InStep(thread[t])'
  BY <1>1, <1>2, <1>4, <1>5, <1>6, <1>8 DEF InStep
<1>10. \A j \in Slots : j < count => slots'[j] \in Pairs
  BY <1>1, <1>2, <1>8, WholeForBusy
<1>11. IsBusy(thread'[t])
  BY <1>5, <1>6 DEF IsBusy, Appending
<1>12. QED
  BY <1>1, <1>4, <1>5, <1>6, <1>7, <1>8, <1>9, <1>10, <1>11, BusyStep DEF MemoryOK

LEMMA PutInfoKeeps == ASSUME CInv, NEW t \in Threads, PutInfo(t) PROVE CInv'
<1>1. IsBusy(thread[t]) /\ thread[t].at = "putInfo"
  BY DEF PutInfo, At, IsBusy, Appending
<1>2. InStep(thread[t]) /\ thread[t] \in Local /\ count \in Nat /\ Max \in Nat
  BY <1>1, Knows
<1>3. /\ thread[t].n = count /\ count \in Slots /\ thread[t].pair \in Pairs
      /\ slots[count][1] = thread[t].pair[1]
  BY <1>1, <1>2 DEF InStep, Slots
<1> DEFINE l == [thread[t] EXCEPT !.at = "putCount"]
<1>4. /\ thread' = [thread EXCEPT ![t] = l]
      /\ slots' = [slots EXCEPT ![count] = <<@[1], thread[t].pair[2]>>]
      /\ UNCHANGED <<mode, count, hook, mutex, fault, settled>>
  BY <1>3 DEF PutInfo, Goto
<1>5. l \in Local /\ l.at = "putCount" /\ l.n = count /\ l.home = thread[t].home /\ l.pair = thread[t].pair
  BY <1>2, <1>3 DEF Local, Appending
<1> HIDE DEF l
<1>6. Goes(t) /\ thread'[t] = l
  BY <1>4, <1>5, GoesSuffices
<1>7. MemoryOK /\ slots \in [Slots -> Callbacks \X Infos]
  BY TypeParts DEF MemoryOK
<1>8. /\ slots' \in [Slots -> Callbacks \X Infos]
      /\ slots'[count] = <<thread[t].pair[1], thread[t].pair[2]>>
      /\ \A j \in Slots : j # count => slots'[j] = slots[j]
  BY <1>3, <1>4, <1>7, PairType
<1>9. InStep(thread[t])'
  BY <1>1, <1>2, <1>3, <1>4, <1>5, <1>6, <1>8, PairType DEF InStep
<1>10. \A j \in Slots : j < count => slots'[j] \in Pairs
  BY <1>1, <1>2, <1>8, WholeForBusy
<1>11. IsBusy(thread'[t])
  BY <1>5, <1>6 DEF IsBusy, Appending
<1>12. QED
  BY <1>1, <1>4, <1>5, <1>6, <1>7, <1>8, <1>9, <1>10, <1>11, BusyStep DEF MemoryOK

LEMMA PutCountKeeps == ASSUME CInv, NEW t \in Threads, PutCount(t) PROVE CInv'
<1>1. IsBusy(thread[t]) /\ thread[t].at = "putCount"
  BY DEF PutCount, At, IsBusy, Appending
<1>2. InStep(thread[t]) /\ thread[t] \in Local /\ count \in Nat /\ Max \in Nat
  BY <1>1, Knows
<1>3. thread[t].n = count /\ count < Max /\ slots[count] \in Pairs
  BY <1>1, <1>2 DEF InStep
<1> DEFINE l == [thread[t] EXCEPT !.at = "testOne", !.n = count + 1]
<1>4. thread' = [thread EXCEPT ![t] = l] /\ count' = count + 1
  BY <1>2, <1>3, TypeParts DEF PutCount, Local
<1>5. UNCHANGED <<mode, slots, hook, mutex, fault, settled>>
  BY DEF PutCount
<1>6. /\ l \in Local /\ l.at = "testOne" /\ l.n = count + 1 /\ l.home = thread[t].home
      /\ l.pair = thread[t].pair
  <2>1. /\ count + 1 \in Int
        /\ "testOne" \in {"idle", "calling"} \cup Appending \cup Removing \cup Dispatching
    BY <1>2 DEF Appending
  <2>2. QED
    BY <1>2, <2>1 DEF Local
<1> HIDE DEF l
<1>7. Goes(t) /\ thread'[t] = l
  BY <1>4, <1>6, GoesSuffices
<1>8. MemoryOK /\ count' \in 0 .. Max
  BY <1>2, <1>3, <1>4, TypeParts
<1>9. InStep(thread[t])'
  BY <1>1, <1>2, <1>4, <1>5, <1>6, <1>7 DEF InStep
<1>10. ASSUME NEW j \in Slots, j < count' PROVE slots'[j] \in Pairs
  <2>1. j = count \/ j < count
    BY <1>2, <1>4, <1>10 DEF Slots
  <2>2. QED
    BY <1>1, <1>3, <1>5, <2>1, WholeForBusy
<1>11. IsBusy(thread'[t])
  BY <1>6, <1>7 DEF IsBusy, Appending
<1>12. QED
  BY <1>1, <1>5, <1>6, <1>7, <1>8, <1>9, <1>10, <1>11, BusyStep DEF MemoryOK

LEMMA TestOneKeeps == ASSUME CInv, NEW t \in Threads, TestOne(t) PROVE CInv'
<1>1. IsBusy(thread[t]) /\ thread[t].at = "testOne"
  BY DEF TestOne, At, IsBusy, Appending
<1>2. InStep(thread[t]) /\ thread[t] \in Local /\ count \in Nat /\ MemoryOK
  BY <1>1, Knows, TypeParts
<1>3. thread[t].n = count /\ count >= 1 /\ (count > 1 => hook = "default")
  BY <1>1, <1>2 DEF InStep
<1>4. CASE count = 1
  <2> DEFINE l == [thread[t] EXCEPT !.at = "setHook"]
  <2>1. /\ thread' = [thread EXCEPT ![t] = l]
        /\ UNCHANGED <<mode, slots, count, hook, mutex, fault, settled>>
    BY <1>3, <1>4 DEF TestOne, Goto, memory
  <2>2. l \in Local /\ l.at = "setHook" /\ l.n = count /\ l.home = thread[t].home /\ l.pair = thread[t].pair
    BY <1>2, <1>3 DEF Local, Appending
  <2> HIDE DEF l
  <2>3. Goes(t) /\ thread'[t] = l
    BY <2>1, <2>2, GoesSuffices
  <2>4. InStep(thread[t])'
    BY <1>1, <1>2, <1>4, <2>1, <2>2, <2>3 DEF InStep
  <2>5. \A j \in Slots : j < count => slots[j] \in Pairs
    BY <1>1, WholeForBusy
  <2>6. IsBusy(thread'[t])
    BY <2>2, <2>3 DEF IsBusy, Appending
  <2>7. QED
    BY <1>1, <1>2, <2>1, <2>2, <2>3, <2>4, <2>5, <2>6, BusyStep DEF MemoryOK
<1>5. CASE count # 1
  <2>1. Leave(t) /\ UNCHANGED <<mode, slots, count, hook, fault>>
    BY <1>3, <1>5 DEF TestOne, memory
  <2>2. hook' \in {"default", "null"} /\ (hook' = "default" <=> count > 0)
    BY <1>2, <1>3, <1>5, <2>1 DEF MemoryOK
  <2>3. QED
    BY <1>1, <2>1, <2>2, LeaveKeeps
<1>6. QED
  BY <1>4, <1>5

LEMMA SetHookKeeps == ASSUME CInv, NEW t \in Threads, SetHook(t) PROVE CInv'
<1>1. IsBusy(thread[t]) /\ thread[t].at = "setHook"
  BY DEF SetHook, At, IsBusy, Appending
<1>2. count = 1
  BY <1>1, Knows DEF InStep
<1>3. Leave(t) /\ UNCHANGED <<mode, slots, count, fault>> /\ hook' = "default"
  BY DEF SetHook
<1>4. QED
  BY <1>1, <1>2, <1>3, LeaveKeeps

-----------------------------------------------------------------------------
(* Remove.                                                                   *)

LEMMA LookCallbackKeeps == ASSUME CInv, NEW t \in Threads, LookCallback(t) PROVE CInv'
<1>1. IsBusy(thread[t]) /\ thread[t].at = "lookCallback"
  BY DEF LookCallback, At, IsBusy, Removing
<1>2. /\ InStep(thread[t]) /\ thread[t] \in Local /\ thread[t].k \in Nat
      /\ count \in Nat /\ count <= Max /\ Max \in Nat /\ MemoryOK
  BY <1>1, Knows, TypeParts
<1>3. thread[t].n = count /\ (hook = "default" <=> count > 0)
  BY <1>1, <1>2 DEF InStep
<1>4. thread[t].k < count => thread[t].k \in Slots
  BY <1>2 DEF Slots
<1>5. PICK l \in Local :
        /\ thread' = [thread EXCEPT ![t] = l]
        /\ l.home = thread[t].home /\ l.n = count /\ l.pair = thread[t].pair
        /\ \/ l.at = "testZero"
           \/ l.at = "lookInfo" /\ l.k < count
           \/ l.at = "lookCallback"
  <2>1. CASE thread[t].k >= count
    <3> DEFINE l == [thread[t] EXCEPT !.at = "testZero"]
    <3>1. thread' = [thread EXCEPT ![t] = l]
      BY <1>2, <1>3, <1>4, <2>1 DEF LookCallback, Goto
    <3>2. l \in Local /\ l.at = "testZero" /\ l.home = thread[t].home /\ l.n = count /\ l.pair = thread[t].pair
      BY <1>2, <1>3 DEF Local, Removing
    <3>3. QED
      BY <3>1, <3>2
  <2>2. CASE thread[t].k < count /\ slots[thread[t].k][1] = thread[t].pair[1]
    <3> DEFINE l == [thread[t] EXCEPT !.at = "lookInfo"]
    <3>1. thread' = [thread EXCEPT ![t] = l]
      BY <1>2, <1>3, <1>4, <2>2 DEF LookCallback, Goto
    <3>2. /\ l \in Local /\ l.at = "lookInfo" /\ l.home = thread[t].home /\ l.n = count
          /\ l.pair = thread[t].pair /\ l.k < count
      BY <1>2, <1>3, <2>2 DEF Local, Removing
    <3>3. QED
      BY <3>1, <3>2
  <2>3. CASE thread[t].k < count /\ slots[thread[t].k][1] # thread[t].pair[1]
    <3> DEFINE l == [thread[t] EXCEPT !.k = thread[t].k + 1]
    <3>1. thread' = [thread EXCEPT ![t] = l]
      BY <1>2, <1>3, <1>4, <2>3 DEF LookCallback
    <3>2. /\ l \in Local /\ l.at = "lookCallback" /\ l.home = thread[t].home /\ l.n = count
          /\ l.pair = thread[t].pair
      BY <1>1, <1>2, <1>3 DEF Local
    <3>3. QED
      BY <3>1, <3>2
  <2>4. QED
    BY <1>2, <2>1, <2>2, <2>3
<1>6. UNCHANGED <<mode, slots, count, hook, mutex, fault, settled>>
  BY <1>3, <1>4 DEF LookCallback, memory
<1>7. Goes(t) /\ thread'[t] = l
  BY <1>5, GoesSuffices
<1>8. InStep(thread[t])'
  BY <1>2, <1>3, <1>5, <1>6, <1>7 DEF InStep
<1>9. \A j \in Slots : j < count => slots[j] \in Pairs
  BY <1>1, WholeForBusy
<1>10. IsBusy(thread'[t])
  BY <1>5, <1>7 DEF IsBusy, Removing
<1>11. QED
  BY <1>1, <1>2, <1>5, <1>6, <1>7, <1>8, <1>9, <1>10, BusyStep DEF MemoryOK

LEMMA LookInfoKeeps == ASSUME CInv, NEW t \in Threads, LookInfo(t) PROVE CInv'
<1>1. IsBusy(thread[t]) /\ thread[t].at = "lookInfo"
  BY DEF LookInfo, At, IsBusy, Removing
<1>2. /\ InStep(thread[t]) /\ thread[t] \in Local /\ thread[t].k \in Nat
      /\ count \in Nat /\ MemoryOK
  BY <1>1, Knows, TypeParts
<1>3. thread[t].n = count /\ (hook = "default" <=> count > 0) /\ thread[t].k < count
  BY <1>1, <1>2 DEF InStep
<1>4. PICK l \in Local :
        /\ thread' = [thread EXCEPT ![t] = l]
        /\ l.home = thread[t].home /\ l.n = count /\ l.pair = thread[t].pair
        /\ \/ l.at = "takeCount" /\ l.k < count
           \/ l.at = "lookCallback"
  <2>1. CASE slots[thread[t].k][2] = thread[t].pair[2]
    <3> DEFINE l == [thread[t] EXCEPT !.at = "takeCount"]
    <3>1. thread' = [thread EXCEPT ![t] = l]
      BY <2>1 DEF LookInfo, Goto
    <3>2. /\ l \in Local /\ l.at = "takeCount" /\ l.home = thread[t].home /\ l.n = count
          /\ l.pair = thread[t].pair /\ l.k < count
      BY <1>2, <1>3 DEF Local, Removing
    <3>3. QED
      BY <3>1, <3>2
  <2>2. CASE slots[thread[t].k][2] # thread[t].pair[2]
    <3> DEFINE l == [thread[t] EXCEPT !.at = "lookCallback", !.k = thread[t].k + 1]
    <3>1. thread' = [thread EXCEPT ![t] = l]
      BY <1>2, <2>2, TypeParts DEF LookInfo, Local
    <3>2. /\ l \in Local /\ l.at = "lookCallback" /\ l.home = thread[t].home /\ l.n = count
          /\ l.pair = thread[t].pair
      <4>1. /\ thread[t].k + 1 \in Nat
            /\ "lookCallback" \in {"idle", "calling"} \cup Appending \cup Removing \cup Dispatching
        BY <1>2 DEF Removing
      <4>2. QED
        BY <1>2, <1>3, <4>1 DEF Local
    <3>3. QED
      BY <3>1, <3>2
  <2>3. QED
    BY <2>1, <2>2
<1>5. UNCHANGED <<mode, slots, count, hook, mutex, fault, settled>>
  BY DEF LookInfo, memory
<1>6. Goes(t) /\ thread'[t] = l
  BY <1>4, GoesSuffices
<1>7. InStep(thread[t])'
  BY <1>2, <1>3, <1>4, <1>5, <1>6 DEF InStep
<1>8. \A j \in Slots : j < count => slots[j] \in Pairs
  BY <1>1, WholeForBusy
<1>9. IsBusy(thread'[t])
  BY <1>4, <1>6 DEF IsBusy, Removing
<1>10. QED
  BY <1>1, <1>2, <1>4, <1>5, <1>6, <1>7, <1>8, <1>9, BusyStep DEF MemoryOK

LEMMA TakeCountKeeps == ASSUME CInv, NEW t \in Threads, TakeCount(t) PROVE CInv'
<1>1. IsBusy(thread[t]) /\ thread[t].at = "takeCount"
  BY DEF TakeCount, At, IsBusy, Removing
<1>2. /\ InStep(thread[t]) /\ thread[t] \in Local /\ thread[t].k \in Nat
      /\ count \in Nat /\ count <= Max /\ Max \in Nat /\ MemoryOK
  BY <1>1, Knows, TypeParts
<1>3. thread[t].n = count /\ hook = "default" /\ thread[t].k < count
  BY <1>1, <1>2 DEF InStep
<1> DEFINE l == [thread[t] EXCEPT !.at = "moveCallback", !.n = count - 1]
<1>4. thread' = [thread EXCEPT ![t] = l] /\ count' = count - 1
  BY <1>2, <1>3, TypeParts DEF TakeCount, Local
<1>5. UNCHANGED <<mode, slots, hook, mutex, fault, settled>>
  BY DEF TakeCount
<1>6. /\ l \in Local /\ l.at = "moveCallback" /\ l.n = count - 1 /\ l.home = thread[t].home
      /\ l.pair = thread[t].pair /\ l.k = thread[t].k
  <2>1. /\ count - 1 \in Int
        /\ "moveCallback" \in {"idle", "calling"} \cup Appending \cup Removing \cup Dispatching
    BY <1>2 DEF Removing
  <2>2. QED
    BY <1>2, <2>1 DEF Local
<1> HIDE DEF l
<1>7. Goes(t) /\ thread'[t] = l
  BY <1>4, <1>6, GoesSuffices
<1>8. count' \in Nat /\ count' < Max /\ count' < count /\ count' \in Slots /\ thread[t].k <= count'
  BY <1>2, <1>3, <1>4 DEF Slots
<1>9. \A j \in Slots : j < count => slots[j] \in Pairs
  BY <1>1, WholeForBusy
<1>10. slots[count'] \in Pairs
  BY <1>8, <1>9
<1>11. InStep(thread[t])'
  BY <1>1, <1>2, <1>3, <1>4, <1>5, <1>6, <1>7, <1>8, <1>10 DEF InStep
<1>12. \A j \in Slots : j < count' => slots'[j] \in Pairs
  BY <1>2, <1>5, <1>8, <1>9 DEF Slots
<1>13. IsBusy(thread'[t])
  BY <1>6, <1>7 DEF IsBusy, Removing
<1>14. count' \in 0 .. Max
  BY <1>2, <1>8
<1>15. QED
  BY <1>1, <1>2, <1>5, <1>6, <1>7, <1>11, <1>12, <1>13, <1>14, BusyStep DEF MemoryOK

LEMMA MoveCallbackKeeps == ASSUME CInv, NEW t \in Threads, MoveCallback(t) PROVE CInv'
<1>1. IsBusy(thread[t]) /\ thread[t].at = "moveCallback"
  BY DEF MoveCallback, At, IsBusy, Removing
<1>2. /\ InStep(thread[t]) /\ thread[t] \in Local /\ thread[t].k \in Nat
      /\ count \in Nat /\ Max \in Nat /\ MemoryOK
  BY <1>1, Knows, TypeParts
<1> DEFINE k == thread[t].k
<1>3. /\ thread[t].n = count /\ hook = "default" /\ k <= count /\ count < Max
      /\ slots[count] \in Pairs /\ thread[t].pair \in Pairs
  BY <1>1, <1>2 DEF InStep
<1>4. count \in Slots /\ k \in Slots
  BY <1>2, <1>3 DEF Slots
<1> DEFINE l == [thread[t] EXCEPT !.at = "moveInfo"]
<1>5. /\ thread' = [thread EXCEPT ![t] = l]
      /\ slots' = [slots EXCEPT ![k] = <<slots[count][1], @[2]>>]
      /\ UNCHANGED <<mode, count, hook, mutex, fault, settled>>
  BY <1>3, <1>4 DEF MoveCallback, Goto
<1>6. /\ l \in Local /\ l.at = "moveInfo" /\ l.n = count /\ l.home = thread[t].home
      /\ l.pair = thread[t].pair /\ l.k = k
  BY <1>2, <1>3 DEF Local, Removing
<1> HIDE DEF l, k
<1>7. Goes(t) /\ thread'[t] = l
  BY <1>5, <1>6, GoesSuffices
<1>8. slots \in [Slots -> Callbacks \X Infos]
  BY <1>2 DEF MemoryOK
<1>9. /\ slots' \in [Slots -> Callbacks \X Infos] /\ slots'[k][1] = slots[count][1]
      /\ slots'[k] = <<slots[count][1], slots[k][2]>>
      /\ \A j \in Slots : j # k => slots'[j] = slots[j]
  BY <1>3, <1>4, <1>5, <1>8, PairType
<1>10. slots'[count] = slots[count]
  BY <1>3, <1>4, <1>9, PairType
<1>11. InStep(thread[t])'
  BY <1>3, <1>5, <1>6, <1>7, <1>9, <1>10 DEF InStep
<1>12. \A j \in Slots : j < count => slots[j] \in Pairs
  BY <1>1, WholeForBusy
<1>13. \A j \in Slots : j < count => slots'[j] \in Pairs \/ (thread'[t].at = "moveInfo" /\ thread'[t].k = j)
  BY <1>6, <1>7, <1>9, <1>12
<1>14. IsBusy(thread'[t])
  BY <1>6, <1>7 DEF IsBusy, Removing
<1>15. QED
  BY <1>1, <1>2, <1>5, <1>6, <1>7, <1>9, <1>11, <1>13, <1>14, BusyStep DEF MemoryOK

LEMMA MoveInfoKeeps == ASSUME CInv, NEW t \in Threads, MoveInfo(t) PROVE CInv'
<1>1. IsBusy(thread[t]) /\ thread[t].at = "moveInfo"
  BY DEF MoveInfo, At, IsBusy, Removing
<1>2. /\ InStep(thread[t]) /\ thread[t] \in Local /\ thread[t].k \in Nat
      /\ count \in Nat /\ Max \in Nat /\ MemoryOK
  BY <1>1, Knows, TypeParts
<1> DEFINE k == thread[t].k
<1>3. /\ thread[t].n = count /\ hook = "default" /\ k <= count /\ count < Max
      /\ slots[count] \in Pairs /\ thread[t].pair \in Pairs /\ slots[k][1] = slots[count][1]
  BY <1>1, <1>2 DEF InStep
<1>4. count \in Slots /\ k \in Slots
  BY <1>2, <1>3 DEF Slots
<1> DEFINE l == [thread[t] EXCEPT !.at = "testZero"]
<1>5. /\ thread' = [thread EXCEPT ![t] = l]
      /\ slots' = [slots EXCEPT ![k] = <<@[1], slots[count][2]>>]
      /\ UNCHANGED <<mode, count, hook, mutex, fault, settled>>
  BY <1>3, <1>4 DEF MoveInfo, Goto
<1>6. /\ l \in Local /\ l.at = "testZero" /\ l.n = count /\ l.home = thread[t].home
      /\ l.pair = thread[t].pair
  BY <1>2, <1>3 DEF Local, Removing
<1>7. \A j \in Slots : j < count => slots[j] \in Pairs \/ j = k
  BY <1>1, WholeForBusy
<1> HIDE DEF l, k
<1>8. Goes(t) /\ thread'[t] = l
  BY <1>5, <1>6, GoesSuffices
<1>9. slots \in [Slots -> Callbacks \X Infos]
  BY <1>2 DEF MemoryOK
<1>10. /\ slots' \in [Slots -> Callbacks \X Infos]
       /\ slots'[k] = <<slots[count][1], slots[count][2]>>
       /\ \A j \in Slots : j # k => slots'[j] = slots[j]
  BY <1>3, <1>4, <1>5, <1>9, PairType
<1>11. slots'[k] \in Pairs
  BY <1>3, <1>10, PairType
<1>12. InStep(thread[t])'
  BY <1>3, <1>5, <1>6, <1>8 DEF InStep
<1>13. \A j \in Slots : j < count => slots'[j] \in Pairs
  BY <1>7, <1>10, <1>11
<1>14. IsBusy(thread'[t])
  BY <1>6, <1>8 DEF IsBusy, Removing
<1>15. QED
  BY <1>1, <1>2, <1>5, <1>6, <1>8, <1>10, <1>12, <1>13, <1>14, BusyStep DEF MemoryOK

LEMMA TestZeroKeeps == ASSUME CInv, NEW t \in Threads, TestZero(t) PROVE CInv'
<1>1. IsBusy(thread[t]) /\ thread[t].at = "testZero"
  BY DEF TestZero, At, IsBusy, Removing
<1>2. InStep(thread[t]) /\ thread[t] \in Local /\ count \in Nat /\ MemoryOK
  BY <1>1, Knows, TypeParts
<1>3. thread[t].n = count /\ (count > 0 => hook = "default")
  BY <1>1, <1>2 DEF InStep
<1>4. CASE count = 0
  <2> DEFINE l == [thread[t] EXCEPT !.at = "clearHook"]
  <2>1. /\ thread' = [thread EXCEPT ![t] = l]
        /\ UNCHANGED <<mode, slots, count, hook, mutex, fault, settled>>
    BY <1>3, <1>4 DEF TestZero, Goto, memory
  <2>2. l \in Local /\ l.at = "clearHook" /\ l.n = count /\ l.home = thread[t].home /\ l.pair = thread[t].pair
    BY <1>2, <1>3 DEF Local, Removing
  <2> HIDE DEF l
  <2>3. Goes(t) /\ thread'[t] = l
    BY <2>1, <2>2, GoesSuffices
  <2>4. InStep(thread[t])'
    BY <1>1, <1>2, <1>4, <2>1, <2>2, <2>3 DEF InStep
  <2>5. \A j \in Slots : j < count => slots[j] \in Pairs
    BY <1>1, WholeForBusy
  <2>6. IsBusy(thread'[t])
    BY <2>2, <2>3 DEF IsBusy, Removing
  <2>7. QED
    BY <1>1, <1>2, <2>1, <2>2, <2>3, <2>4, <2>5, <2>6, BusyStep DEF MemoryOK
<1>5. CASE count # 0
  <2>1. Leave(t) /\ UNCHANGED <<mode, slots, count, hook, fault>>
    BY <1>3, <1>5 DEF TestZero, memory
  <2>2. hook' \in {"default", "null"} /\ (hook' = "default" <=> count > 0)
    BY <1>2, <1>3, <1>5, <2>1 DEF MemoryOK
  <2>3. QED
    BY <1>1, <2>1, <2>2, LeaveKeeps
<1>6. QED
  BY <1>4, <1>5

LEMMA ClearHookKeeps == ASSUME CInv, NEW t \in Threads, ClearHook(t) PROVE CInv'
<1>1. IsBusy(thread[t]) /\ thread[t].at = "clearHook"
  BY DEF ClearHook, At, IsBusy, Removing
<1>2. count = 0
  BY <1>1, Knows DEF InStep
<1>3. Leave(t) /\ UNCHANGED <<mode, slots, count, fault>> /\ hook' = "null"
  BY DEF ClearHook
<1>4. QED
  BY <1>1, <1>2, <1>3, LeaveKeeps

-----------------------------------------------------------------------------
(* The hook.                                                                 *)

LEMMA RowChangedKeeps == ASSUME CInv, NEW t \in Threads, RowChanged(t) PROVE CInv'
<1>1. thread[t] \in Local /\ thread[t].at = "idle" /\ mutex = Nobody
  BY Knows DEF RowChanged, At
<1> DEFINE l == [thread[t] EXCEPT !.at = "compare", !.i = 0]
<1>2. thread' = [thread EXCEPT ![t] = l] /\ mutex' = t
  BY <1>1, TypeParts DEF RowChanged, Local
<1>3. UNCHANGED <<mode, slots, count, hook, fault, settled>>
  BY DEF RowChanged, memory
<1>4. l \in Local /\ l.at = "compare"
  <2>1. 0 \in Nat /\ "compare" \in {"idle", "calling"} \cup Appending \cup Removing \cup Dispatching
    BY DEF Dispatching
  <2>2. QED
    BY <1>1, <2>1 DEF Local
<1> HIDE DEF l
<1>5. Goes(t) /\ thread'[t] = l
  BY <1>2, <1>4, GoesSuffices
<1>6. ~IsBusy(thread[t]) /\ ~IsBusy(l) /\ InLoop(l)
  BY <1>1, <1>4 DEF IsBusy, Appending, Removing, InLoop
<1>7. QED
  BY <1>1, <1>2, <1>3, <1>5, <1>6, CalmStep

\* Inside of the hook, the thread has the mutex.
LEMMA InHook ==
  ASSUME CInv, NEW t \in Threads, thread[t].at \in Dispatching \cup {"calling"}
  PROVE  mutex = t /\ ~IsBusy(thread[t])
  BY DEF CInv, MutexIsKept, IsInHook, IsBusy, Dispatching, Appending, Removing

LEMMA CompareIndexKeeps == ASSUME CInv, NEW t \in Threads, CompareIndex(t) PROVE CInv'
<1>1. thread[t].at = "compare" /\ mutex = t /\ ~IsBusy(thread[t])
  BY InHook DEF CompareIndex, At, Dispatching
<1>2. thread[t] \in Local /\ thread[t].i \in Nat /\ count \in Nat /\ count <= Max /\ Max \in Nat
  BY Knows
<1>3. UNCHANGED <<mode, slots, count, hook, fault, settled>>
  BY DEF CompareIndex, memory
<1>4. CASE thread[t].i < count
  <2> DEFINE l == [thread[t] EXCEPT !.at = "getCallback"]
  <2>1. thread' = [thread EXCEPT ![t] = l] /\ mutex' = t
    BY <1>1, <1>4 DEF CompareIndex, Goto
  <2>2. l \in Local /\ l.at = "getCallback" /\ l.i = thread[t].i
    BY <1>2 DEF Local, Dispatching
  <2> HIDE DEF l
  <2>3. Goes(t) /\ thread'[t] = l
    BY <2>1, <2>2, GoesSuffices
  <2>4. ~IsBusy(l) /\ InLoop(l)
    BY <1>2, <1>4, <2>2 DEF IsBusy, Appending, Removing, InLoop, Slots
  <2>5. QED
    BY <1>1, <1>3, <2>1, <2>3, <2>4, CalmStep
<1>5. CASE ~(thread[t].i < count)
  <2> DEFINE l == [thread[t] EXCEPT !.at = "idle", !.i = 0]
  <2>1. thread' = [thread EXCEPT ![t] = l] /\ mutex' = Nobody
    BY <1>2, <1>5, TypeParts DEF CompareIndex, Local
  <2>2. l \in Local /\ l.at = "idle"
    <3>1. 0 \in Nat /\ "idle" \in {"idle", "calling"} \cup Appending \cup Removing \cup Dispatching
      OBVIOUS
    <3>2. QED
      BY <1>2, <3>1 DEF Local
  <2> HIDE DEF l
  <2>3. Goes(t) /\ thread'[t] = l
    BY <2>1, <2>2, GoesSuffices
  <2>4. ~IsBusy(l) /\ InLoop(l) /\ ~IsInHook(l)
    BY <2>2 DEF IsBusy, Appending, Removing, InLoop, IsInHook, Dispatching
  <2>5. QED
    BY <1>1, <1>3, <2>1, <2>3, <2>4, CalmStep
<1>6. QED
  BY <1>4, <1>5

LEMMA GetCallbackKeeps == ASSUME CInv, NEW t \in Threads, GetCallback(t) PROVE CInv'
<1>1. thread[t].at = "getCallback" /\ mutex = t /\ ~IsBusy(thread[t])
  BY InHook DEF GetCallback, At, Dispatching
<1>2. thread[t] \in Local /\ thread[t].i \in Slots /\ (mode = "guarded" => thread[t].i < count)
  BY <1>1, Knows DEF CInv, InLoop
<1> DEFINE q == <<slots[thread[t].i][1], thread[t].pair[2]>>
           l == [thread[t] EXCEPT !.at = "getInfo", !.pair = q]
<1>3. q \in Callbacks \X Infos /\ q[1] = slots[thread[t].i][1]
  BY <1>2, TypeParts DEF MemoryOK, Local
<1>4. /\ thread' = [thread EXCEPT ![t] = l]
      /\ UNCHANGED <<mode, slots, count, hook, mutex, fault, settled>>
  BY <1>2, TypeParts DEF GetCallback, memory, Local
<1> HIDE DEF q
<1>5. l \in Local /\ l.at = "getInfo" /\ l.i = thread[t].i /\ l.pair = q
  <2>1. "getInfo" \in {"idle", "calling"} \cup Appending \cup Removing \cup Dispatching
    BY DEF Dispatching
  <2>2. QED
    BY <1>2, <1>3, <2>1 DEF Local
<1> HIDE DEF l
<1>6. Goes(t) /\ thread'[t] = l
  BY <1>4, <1>5, GoesSuffices
<1>7. ~IsBusy(l) /\ InLoop(l)
  BY <1>2, <1>3, <1>5 DEF IsBusy, Appending, Removing, InLoop
<1>8. QED
  BY <1>1, <1>4, <1>6, <1>7, CalmStep

LEMMA InvokeCallbackKeeps == ASSUME CInv, NEW t \in Threads, InvokeCallback(t) PROVE CInv'
<1>1. thread[t].at = "getInfo" /\ mutex = t /\ ~IsBusy(thread[t])
  BY InHook DEF InvokeCallback, At, Dispatching
<1>2. thread[t] \in Local /\ thread[t].i \in Slots
  BY <1>1, Knows DEF CInv, InLoop
<1> DEFINE l == [thread[t] EXCEPT !.at = "calling", !.pair = ReadPair(t)]
<1>3. ReadPair(t) \in Callbacks \X Infos
  BY <1>2, TypeParts DEF MemoryOK, Local, ReadPair
<1>4. /\ thread' = [thread EXCEPT ![t] = l]
      /\ UNCHANGED <<mode, slots, count, hook, mutex, fault, settled>>
  BY <1>2, TypeParts DEF InvokeCallback, memory, Local
<1>5. l \in Local /\ l.at = "calling"
  <2>1. "calling" \in {"idle", "calling"} \cup Appending \cup Removing \cup Dispatching
    OBVIOUS
  <2>2. QED
    BY <1>2, <1>3, <2>1 DEF Local
<1> HIDE DEF l
<1>6. Goes(t) /\ thread'[t] = l
  BY <1>4, <1>5, GoesSuffices
<1>7. ~IsBusy(l) /\ InLoop(l)
  BY <1>5 DEF IsBusy, Appending, Removing, InLoop
<1>8. QED
  BY <1>1, <1>4, <1>6, <1>7, CalmStep

LEMMA CallbackReturnsKeeps == ASSUME CInv, NEW t \in Threads, CallbackReturns(t) PROVE CInv'
<1>1. thread[t].at = "calling" /\ mutex = t /\ ~IsBusy(thread[t])
  BY InHook DEF CallbackReturns, At
<1>2. thread[t] \in Local /\ thread[t].i \in Nat
  BY Knows
<1> DEFINE l == [thread[t] EXCEPT !.at = "compare", !.i = thread[t].i + 1]
<1>3. /\ thread' = [thread EXCEPT ![t] = l]
      /\ UNCHANGED <<mode, slots, count, hook, mutex, fault, settled>>
  BY <1>2, TypeParts DEF CallbackReturns, memory, Local
<1>4. l \in Local /\ l.at = "compare"
  <2>1. /\ thread[t].i + 1 \in Nat
        /\ "compare" \in {"idle", "calling"} \cup Appending \cup Removing \cup Dispatching
    BY <1>2 DEF Dispatching
  <2>2. QED
    BY <1>2, <2>1 DEF Local
<1> HIDE DEF l
<1>5. Goes(t) /\ thread'[t] = l
  BY <1>3, <1>4, GoesSuffices
<1>6. ~IsBusy(l) /\ InLoop(l)
  BY <1>4 DEF IsBusy, Appending, Removing, InLoop
<1>7. QED
  BY <1>1, <1>3, <1>5, <1>6, CalmStep

-----------------------------------------------------------------------------
(* The theorems.                                                             *)

\* In a careful application the register a thread keeps is the count.
LEMMA NothingToReload == ASSUME CInv, NEW t \in Threads PROVE ~Reload(t)
<1>1. thread[t].at \in Cached => thread[t].n = count
  BY DEF CInv, Cached, IsBusy, Appending, Removing, InStep
<1>2. QED
  BY <1>1 DEF Reload

LEMMA NextKeeps == CInv /\ [Next]_vars => CInv'
<1> SUFFICES ASSUME CInv, [Next]_vars PROVE CInv'
  OBVIOUS
<1>1. CASE UNCHANGED vars
  BY <1>1, StutterKeeps
<1>2. CASE Over
  BY <1>2, StutterKeeps DEF Over
<1>3. ASSUME NEW t \in Threads, Application(t) PROVE CInv'
  <2>1. PICK p \in Pairs : AppendUpdateCallback(t, p) \/ RemoveUpdateCallback(t, p)
    BY <1>3 DEF Application
  <2>2. QED
    BY <2>1, EnterStep DEF AppendUpdateCallback, RemoveUpdateCallback
<1>4. ASSUME NEW t \in Threads, Append(t) PROVE CInv'
  BY <1>4, CheckCountKeeps, PutCallbackKeeps, PutInfoKeeps, PutCountKeeps, TestOneKeeps,
     SetHookKeeps DEF Append
<1>5. ASSUME NEW t \in Threads, Remove(t) PROVE CInv'
  BY <1>5, LookCallbackKeeps, LookInfoKeeps, TakeCountKeeps, MoveCallbackKeeps, MoveInfoKeeps,
     TestZeroKeeps, ClearHookKeeps DEF Remove
<1>6. ASSUME NEW t \in Threads, Dispatch(t) PROVE CInv'
  BY <1>6, RowChangedKeeps, CompareIndexKeeps, GetCallbackKeeps, InvokeCallbackKeeps,
     CallbackReturnsKeeps DEF Dispatch
<1>7. QED
  BY <1>1, <1>2, <1>3, <1>4, <1>5, <1>6, NothingToReload DEF Next

\* The mode is the application's, and it stays with it.
LEMMA ModeStays == [Next]_vars => mode' = mode
<1>1. ASSUME Next PROVE mode' = mode
  BY <1>1 DEF Next, Over, vars, Application, AppendUpdateCallback, RemoveUpdateCallback, Enter,
     Reload, Append, CheckCount, PutCallback, PutInfo, PutCount, TestOne, SetHook, Remove,
     LookCallback, LookInfo, TakeCount, MoveCallback, MoveInfo, TestZero, ClearHook, Dispatch,
     RowChanged, CompareIndex, GetCallback, InvokeCallback, CallbackReturns, OutOfBounds
<1>2. QED
  BY <1>1 DEF vars

LEMMA Invariance == Spec => [](Careful => CInv)
<1>1. Init => (Careful => CInv)
  BY InitKeeps
<1>2. (Careful => CInv) /\ [Next]_vars => (Careful => CInv)'
  BY ModeStays, NextKeeps DEF Careful
<1>3. QED
  BY <1>1, <1>2, PTL DEF Spec

-----------------------------------------------------------------------------
(* Threads that only append, and take no lock.                               *)

\* A thread that found room and has not counted its registration yet.
Past(l) == l.at \in {"putCallback", "putInfo", "putCount"}

\* Of two such threads each has found a slot of its own free; one alone may have seen
\* what the other counted.
Crowded ==
  /\ count <= Max + 1
  /\ \A t \in Threads :
       Past(thread[t]) => count <= Max /\ (thread[t].n < Max \/ thread[t].n = count)
  /\ \A t, u \in Threads :
       t # u /\ Past(thread[t]) /\ Past(thread[u]) =>
         count < Max /\ thread[t].n < Max /\ thread[u].n < Max

\* What the threads do not change, or change within its type.
Rest ==
  /\ mode = "appendOnly" /\ mode \in Modes
  /\ slots \in [Slots -> Callbacks \X Infos]
  /\ hook \in {"default", "null"} /\ mutex \in Threads \cup {Nobody}
  /\ fault \in {"none", "outOfBounds"}
  /\ settled \in [bag: [Pairs -> Nat], size: Int, hook: {"default", "null"}]

\* The thread never takes its register below zero, and reads what it has looked up.
Plain(l) == l.n \in Nat /\ l.at \notin Removing /\ (l.at = "getInfo" => l.i \in Slots)

LooseInv ==
  /\ Rest /\ count \in Nat /\ thread \in [Threads -> Local]
  /\ \A t \in Threads : Plain(thread[t])
  /\ Cardinality(Threads) = 2 => Crowded

LEMMA TwoThreads ==
  ASSUME Cardinality(Threads) = 2, NEW t \in Threads, NEW u \in Threads, NEW v \in Threads
  PROVE  t = u \/ t = v \/ u = v
<1>1. IsFiniteSet(Threads \ {t}) /\ Cardinality(Threads \ {t}) = 1
  BY ConstantsAssumption, FS_RemoveElement
<1>2. PICK w : Threads \ {t} = {w}
  BY <1>1, FS_Singleton
<1>3. QED
  BY <1>2

\* A thread moves and leaves the count: it has found room, or is as far as it was.
LEMMA LooseStep ==
  ASSUME LooseInv, NEW t \in Threads, NEW l \in Local, thread' = [thread EXCEPT ![t] = l],
         Plain(l), count' = count, Rest',
         Past(l) => \/ Past(thread[t]) /\ (l.n = thread[t].n \/ l.n = count)
                    \/ count < Max /\ l.n = count
  PROVE  LooseInv'
<1>1. thread' \in [Threads -> Local] /\ thread'[t] = l
      /\ \A u \in Threads : u # t => thread'[u] = thread[u]
  BY DEF LooseInv
<1>2. \A u \in Threads : Plain(thread'[u])
  BY <1>1 DEF LooseInv
<1>3. ASSUME Crowded PROVE Crowded'
  <2>1. count \in Nat /\ Max \in Nat /\ thread[t].n \in Nat
    BY ConstantsAssumption DEF LooseInv, Plain
  <2>2. ASSUME NEW u \in Threads, Past(thread'[u])
        PROVE  count <= Max /\ (thread'[u].n < Max \/ thread'[u].n = count)
    <3>1. CASE u = t
      BY <1>1, <1>3, <2>1, <2>2, <3>1 DEF Crowded
    <3>2. CASE u # t
      BY <1>1, <1>3, <2>2, <3>2 DEF Crowded
    <3>3. QED
      BY <3>1, <3>2
  <2>3. ASSUME NEW u \in Threads, u # t, Past(thread'[u]), Past(l)
        PROVE  count < Max /\ thread'[u].n < Max /\ l.n < Max
    <3>1. CASE Past(thread[t]) /\ (l.n = thread[t].n \/ l.n = count)
      BY <1>1, <1>3, <2>3, <3>1 DEF Crowded
    <3>2. CASE count < Max /\ l.n = count
      BY <1>1, <1>3, <2>3, <3>2 DEF Crowded
    <3>3. QED
      BY <2>3, <3>1, <3>2
  <2>4. ASSUME NEW u \in Threads, NEW v \in Threads, u # v, Past(thread'[u]), Past(thread'[v])
        PROVE  count < Max /\ thread'[u].n < Max /\ thread'[v].n < Max
    <3>1. CASE u = t \/ v = t
      BY <1>1, <2>3, <2>4, <3>1
    <3>2. CASE u # t /\ v # t
      BY <1>1, <1>3, <2>4, <3>2 DEF Crowded
    <3>3. QED
      BY <3>1, <3>2
  <2>5. count <= Max + 1
    BY <1>3 DEF Crowded
  <2>6. QED
    BY <2>2, <2>4, <2>5 DEF Crowded
<1>4. QED
  BY <1>1, <1>2, <1>3 DEF LooseInv, Plain

\* What there is to know of a thread, and of the fields it may change.
LEMMA LooseThread ==
  ASSUME LooseInv, NEW t \in Threads
  PROVE  /\ thread[t] \in Local /\ thread[t].n \in Nat /\ thread[t].i \in Nat
         /\ thread[t].pair \in Callbacks \X Infos /\ thread[t].home \in {"idle", "calling"}
         /\ count \in Nat /\ mode = "appendOnly" /\ Plain(thread[t])
  BY DEF LooseInv, Rest, Local, Plain

LEMMA LooseAt ==
  ASSUME LooseInv, NEW t \in Threads,
         NEW access \in {"idle", "calling"} \cup Appending
  PROVE  LET l == [thread[t] EXCEPT !.at = access]
         IN  l \in Local /\ l.at = access /\ l.n = thread[t].n /\ Plain(l)
  BY LooseThread DEF Local, Appending, Removing, Plain

LEMMA LooseGoto ==
  ASSUME LooseInv, NEW t \in Threads, Rest', count' = count,
         NEW access \in {"idle", "calling"} \cup Appending,
         Goto(t, access),
         access \in {"putCallback", "putInfo", "putCount"} => Past(thread[t])
  PROVE  LooseInv'
<1> DEFINE l == [thread[t] EXCEPT !.at = access]
<1>1. l \in Local /\ l.at = access /\ l.n = thread[t].n /\ Plain(l)
  BY LooseAt
<1>2. thread' = [thread EXCEPT ![t] = l] /\ thread[t].n \in Nat
  BY LooseThread DEF Goto
<1> HIDE DEF l
<1>3. QED
  BY <1>1, <1>2, LooseStep DEF Past

LEMMA LooseLeave ==
  ASSUME LooseInv, NEW t \in Threads, Leave(t), UNCHANGED <<mode, slots, count, fault>>,
         hook' \in {"default", "null"}
  PROVE  LooseInv'
<1>1. mode = "appendOnly" /\ thread[t].home \in {"idle", "calling"}
  BY LooseThread
<1>2. Goto(t, thread[t].home) /\ mutex' = mutex /\ settled' = settled
  BY <1>1 DEF Leave
<1>3. Rest'
  BY <1>2 DEF LooseInv, Rest
<1>4. QED
  BY <1>1, <1>2, <1>3, LooseGoto

LEMMA LooseApplication ==
  ASSUME LooseInv, NEW t \in Threads, Application(t) \/ Reload(t)
  PROVE  LooseInv'
<1>1. CASE Application(t)
  <2>1. PICK p \in Pairs : Enter(t, "check", p)
    BY <1>1, LooseThread DEF Application, AppendUpdateCallback
  <2> DEFINE l == [thread[t] EXCEPT !.at = "check", !.home = thread[t].at, !.n = count, !.k = 0,
                                    !.pair = p]
  <2>2. p \in Callbacks \X Infos /\ thread[t].at \in {"idle", "calling"} /\ count \in Int
        /\ "check" \in {"idle", "calling"} \cup Appending \cup Removing \cup Dispatching
    BY <2>1, PairType, LooseThread DEF Enter, Appending
  <2>3. l \in Local /\ l.at = "check" /\ l.n = count
    BY <2>2, LooseThread DEF Local
  <2>4. thread' = [thread EXCEPT ![t] = l] /\ Rest' /\ count' = count
    BY <2>1, LooseThread DEF Enter, LooseInv, Rest, memory
  <2> HIDE DEF l
  <2>5. Plain(l) /\ ~Past(l)
    BY <2>3, LooseThread DEF Removing, Past, Plain
  <2>6. QED
    BY <2>3, <2>4, <2>5, LooseStep
<1>2. CASE Reload(t)
  <2> DEFINE l == [thread[t] EXCEPT !.n = count]
  <2>1. l \in Local /\ l.at = thread[t].at /\ l.n = count /\ count \in Nat
    BY LooseThread DEF Local
  <2>2. thread' = [thread EXCEPT ![t] = l] /\ Rest' /\ count' = count
    BY <1>2 DEF Reload, LooseInv, Rest, memory
  <2> HIDE DEF l
  <2>3. Plain(l)
    BY <1>2, <2>1, LooseThread DEF Plain, Reload, Cached
  <2>4. QED
    BY <2>1, <2>2, <2>3, LooseStep DEF Past
<1>3. QED
  BY <1>1, <1>2

\* The count that two threads arrive at.
LEMMA LoosePutCount ==
  ASSUME LooseInv, NEW t \in Threads, PutCount(t)
  PROVE  LooseInv'
<1> DEFINE n == thread[t].n
           l == [thread[t] EXCEPT !.at = "testOne", !.n = n + 1]
<1>1. Past(thread[t]) /\ n \in Nat /\ thread[t] \in Local /\ Max \in Nat
  BY LooseThread, ConstantsAssumption DEF PutCount, At, Past
<1>2. l \in Local /\ l.at = "testOne" /\ l.n = n + 1
  <2>1. n + 1 \in Int /\ "testOne" \in {"idle", "calling"} \cup Appending \cup Removing \cup Dispatching
    BY <1>1 DEF Appending
  <2>2. QED
    BY <1>1, <2>1 DEF Local
<1>3. thread' = [thread EXCEPT ![t] = l] /\ count' = n + 1 /\ Rest'
  BY DEF PutCount, LooseInv, Rest
<1> HIDE DEF l
<1>4. /\ thread' \in [Threads -> Local] /\ thread'[t] = l
      /\ \A u \in Threads : u # t => thread'[u] = thread[u]
  BY <1>2, <1>3 DEF LooseInv
<1>5. n + 1 \in Nat /\ ~Past(l) /\ Plain(l)
  BY <1>1, <1>2 DEF Past, Removing, Plain
<1>6. \A u \in Threads : Plain(thread'[u])
  BY <1>4, <1>5 DEF LooseInv
<1>7. ASSUME Cardinality(Threads) = 2, Crowded PROVE Crowded'
  <2>1. n + 1 <= Max + 1
    BY <1>1, <1>7, LooseThread DEF Crowded
  <2>2. ASSUME NEW u \in Threads, Past(thread'[u]) PROVE n + 1 <= Max /\ thread'[u].n < Max
    <3>1. u # t /\ thread'[u] = thread[u]
      BY <1>4, <1>5, <2>2
    <3>2. QED
      BY <1>1, <1>7, <2>2, <3>1 DEF Crowded
  <2>3. ASSUME NEW u \in Threads, NEW v \in Threads, u # v, Past(thread'[u]), Past(thread'[v])
        PROVE  FALSE
    BY <1>4, <1>5, <1>7, <2>3, TwoThreads
  <2>4. QED
    BY <1>3, <2>1, <2>2, <2>3 DEF Crowded
<1> HIDE DEF n
<1>8. QED
  BY <1>3, <1>4, <1>5, <1>6, <1>7 DEF LooseInv, Plain

LEMMA LooseAppend ==
  ASSUME LooseInv, NEW t \in Threads, Append(t)
  PROVE  LooseInv'
<1>0. \A s \in {"putCallback", "putInfo", "putCount", "testOne", "setHook"} :
        s \in {"idle", "calling"} \cup Appending
  BY DEF Appending
<1>1. CASE CheckCount(t)
  <2> DEFINE next == IF count < Max THEN "putCallback" ELSE "testOne"
             l == [thread[t] EXCEPT !.at = next, !.n = count]
  <2>1. next \in Appending /\ (next = "putCallback" => count < Max)
        /\ next \notin {"putInfo", "putCount"}
    BY DEF Appending
  <2>2. thread' = [thread EXCEPT ![t] = l] /\ Rest' /\ count' = count
    BY <1>1 DEF CheckCount, LooseInv, Rest, memory
  <2> HIDE DEF next
  <2>3. l \in Local /\ l.at = next /\ l.n = count
    <3>1. count \in Int /\ next \in {"idle", "calling"} \cup Appending \cup Removing \cup Dispatching
      BY <2>1, LooseThread
    <3>2. QED
      BY <3>1, LooseThread DEF Local
  <2> HIDE DEF l
  <2>4. Plain(l)
    BY <2>1, <2>3, LooseThread DEF Appending, Removing, Plain
  <2>5. Past(l) => count < Max /\ l.n = count
    BY <2>1, <2>3 DEF Past
  <2>6. QED
    BY <2>2, <2>3, <2>4, <2>5, LooseStep
<1>2. CASE PutCallback(t) \/ PutInfo(t)
  <2>1. Past(thread[t]) /\ thread[t].pair \in Callbacks \X Infos
    BY <1>2, LooseThread DEF PutCallback, PutInfo, At, Past
  <2>2. CASE OutOfBounds
    BY <2>2 DEF OutOfBounds, LooseInv, Rest, Crowded, memory
  <2>3. CASE ~OutOfBounds
    <3>1. /\ thread[t].n \in Slots /\ UNCHANGED <<mode, count, hook, mutex, fault, settled>>
          /\ Goto(t, "putInfo") \/ Goto(t, "putCount")
      BY <1>2, <2>3 DEF PutCallback, PutInfo
    <3>2. slots' \in [Slots -> Callbacks \X Infos]
      <4>1. \/ slots' = [slots EXCEPT ![thread[t].n] = <<thread[t].pair[1], slots[thread[t].n][2]>>]
            \/ slots' = [slots EXCEPT ![thread[t].n] = <<slots[thread[t].n][1], thread[t].pair[2]>>]
        BY <1>2, <2>3 DEF PutCallback, PutInfo
      <4>2. slots \in [Slots -> Callbacks \X Infos]
        BY DEF LooseInv, Rest
      <4>3. QED
        BY <2>1, <3>1, <4>1, <4>2
    <3>3. Rest'
      BY <3>1, <3>2 DEF LooseInv, Rest
    <3>4. QED
      BY <1>0, <2>1, <3>1, <3>3, LooseGoto
  <2>4. QED
    BY <2>2, <2>3
<1>3. CASE PutCount(t)
  BY <1>3, LoosePutCount
<1>4. CASE TestOne(t)
  <2>1. CASE Goto(t, "setHook") /\ UNCHANGED <<mutex, settled>>
    <3>1. Rest' /\ count' = count
      BY <1>4, <2>1 DEF TestOne, LooseInv, Rest, memory
    <3>2. QED
      BY <1>0, <2>1, <3>1, LooseGoto
  <2>2. CASE UNCHANGED hook /\ Leave(t)
    BY <1>4, <2>2, LooseLeave DEF TestOne, memory, LooseInv, Rest
  <2>3. QED
    BY <1>4, <2>1, <2>2 DEF TestOne
<1>5. CASE SetHook(t)
  BY <1>5, LooseLeave DEF SetHook
<1>6. QED
  BY <1>1, <1>2, <1>3, <1>4, <1>5 DEF Append

LEMMA LooseDispatch ==
  ASSUME LooseInv, NEW t \in Threads, Dispatch(t)
  PROVE  LooseInv'
<1>1. CASE GetCallback(t) /\ OutOfBounds
  BY <1>1 DEF OutOfBounds, LooseInv, Rest, Crowded, memory
<1>2. CASE ~(GetCallback(t) /\ OutOfBounds)
  <2>1. Rest' /\ count' = count
    BY <1>2 DEF Dispatch, RowChanged, CompareIndex, GetCallback, InvokeCallback, CallbackReturns,
       LooseInv, Rest, memory
  <2>2. PICK access \in {"idle", "calling"} \cup Dispatching, i \in Nat, q \in Callbacks \X Infos :
          /\ thread' = [thread EXCEPT ![t] = [thread[t] EXCEPT !.at = access, !.i = i, !.pair = q]]
          /\ access = "getInfo" => i \in Slots
    <3>1. /\ thread[t].i \in Nat /\ thread[t].pair \in Callbacks \X Infos
          /\ thread[t] \in Local /\ slots \in [Slots -> Callbacks \X Infos]
      BY LooseThread DEF LooseInv, Rest
    <3>2. CASE RowChanged(t)
      <4>1. 0 \in Nat /\ "compare" \in {"idle", "calling"} \cup Dispatching
        BY DEF Dispatching
      <4>2. thread' = [thread EXCEPT ![t] = [thread[t] EXCEPT !.at = "compare", !.i = 0,
                                                              !.pair = thread[t].pair]]
        BY <3>1, <3>2 DEF RowChanged, Local, LooseInv
      <4>3. QED
        BY <3>1, <4>1, <4>2
    <3>3. CASE CompareIndex(t)
      <4>1. /\ "getCallback" \in {"idle", "calling"} \cup Dispatching
            /\ "idle" \in {"idle", "calling"} \cup Dispatching
            /\ 0 \in Nat
        BY DEF Dispatching
      <4>2. CASE thread[t].i < count
        <5>1. thread' = [thread EXCEPT ![t] = [thread[t] EXCEPT !.at = "getCallback",
                                                  !.i = thread[t].i, !.pair = thread[t].pair]]
          BY <3>1, <3>3, <4>2 DEF CompareIndex, Goto, Local, LooseInv
        <5>2. QED
          BY <3>1, <4>1, <5>1
      <4>3. CASE ~(thread[t].i < count)
        <5>1. thread' = [thread EXCEPT ![t] = [thread[t] EXCEPT !.at = "idle", !.i = 0,
                                                              !.pair = thread[t].pair]]
          BY <3>1, <3>3, <4>3 DEF CompareIndex, Local, LooseInv
        <5>2. QED
          BY <3>1, <4>1, <5>1
      <4>4. QED
        BY <4>2, <4>3
    <3>4. CASE GetCallback(t)
      <4> DEFINE q == <<slots[thread[t].i][1], thread[t].pair[2]>>
      <4>1. "getInfo" \in {"idle", "calling"} \cup Dispatching
        BY DEF Dispatching
      <4>2. thread[t].i \in Slots
        BY <1>2, <3>4 DEF GetCallback
      <4>3. q \in Callbacks \X Infos
        BY <3>1, <4>2
      <4>4. thread' = [thread EXCEPT ![t] = [thread[t] EXCEPT !.at = "getInfo",
                                                  !.i = thread[t].i, !.pair = q]]
        BY <3>1, <3>4, <4>2 DEF GetCallback, Local, LooseInv
      <4> HIDE DEF q
      <4>5. QED
        BY <3>1, <4>1, <4>2, <4>3, <4>4
    <3>5. CASE InvokeCallback(t)
      <4>1. "calling" \in {"idle", "calling"} \cup Dispatching /\ thread[t].i \in Slots
        BY <3>5, LooseThread DEF InvokeCallback, At, Plain
      <4>2. ReadPair(t) \in Callbacks \X Infos
        BY <3>1, <4>1 DEF ReadPair
      <4>3. thread' = [thread EXCEPT ![t] = [thread[t] EXCEPT !.at = "calling",
                                                  !.i = thread[t].i, !.pair = ReadPair(t)]]
        BY <3>1, <3>5 DEF InvokeCallback, Local, LooseInv
      <4>4. QED
        BY <3>1, <4>1, <4>2, <4>3
    <3>6. CASE CallbackReturns(t)
      <4>1. thread[t].i + 1 \in Nat /\ "compare" \in {"idle", "calling"} \cup Dispatching
        BY <3>1 DEF Dispatching
      <4>2. thread' = [thread EXCEPT ![t] = [thread[t] EXCEPT !.at = "compare",
                                                  !.i = thread[t].i + 1, !.pair = thread[t].pair]]
        BY <3>1, <3>6 DEF CallbackReturns, Local, LooseInv
      <4>3. QED
        BY <3>1, <4>1, <4>2
    <3>7. QED
      BY <3>2, <3>3, <3>4, <3>5, <3>6 DEF Dispatch
  <2> DEFINE l == [thread[t] EXCEPT !.at = access, !.i = i, !.pair = q]
  <2>3. l \in Local /\ l.at = access /\ l.n = thread[t].n /\ thread[t].n \in Nat /\ l.i = i
    <3>1. access \in {"idle", "calling"} \cup Appending \cup Removing \cup Dispatching
      OBVIOUS
    <3>2. QED
      BY <3>1, LooseThread DEF Local
  <2>4. access \notin Removing /\ access \notin {"putCallback", "putInfo", "putCount"}
    BY DEF Removing, Dispatching
  <2>5. thread' = [thread EXCEPT ![t] = l]
    BY <2>2
  <2> HIDE DEF l
  <2>6. Plain(l)
    BY <2>2, <2>3, <2>4 DEF Plain
  <2>7. QED
    BY <2>1, <2>3, <2>4, <2>5, <2>6, LooseStep DEF Past
<1>3. QED
  BY <1>1, <1>2

LEMMA LooseNext == LooseInv /\ [Next]_vars => LooseInv'
<1> SUFFICES ASSUME LooseInv, [Next]_vars PROVE LooseInv'
  OBVIOUS
<1>1. ASSUME UNCHANGED vars PROVE LooseInv'
  BY <1>1 DEF vars, memory, LooseInv, Rest, Crowded
<1>2. ASSUME NEW t \in Threads PROVE ~Remove(t)
  BY LooseThread DEF Plain, Removing, Remove, LookCallback, LookInfo, TakeCount, MoveCallback,
     MoveInfo, TestZero, ClearHook, At
<1>3. QED
  BY <1>1, <1>2, LooseApplication, LooseAppend, LooseDispatch DEF Next, Over

LEMMA LooseInit == Init /\ mode = "appendOnly" => LooseInv
<1> SUFFICES ASSUME Init, mode = "appendOnly" PROVE LooseInv
  OBVIOUS
<1>1. PICK p \in Pairs :
        /\ slots = [k \in Slots |-> p]
        /\ thread = [t \in Threads |-> [at |-> "idle", home |-> "idle", n |-> 0, k |-> 0,
                                        i |-> 0, pair |-> p]]
  BY DEF Init
<1>2. p \in Callbacks \X Infos /\ 0 \in 0 .. Max /\ Max \in Nat
  BY PairType, ConstantsAssumption
<1>3. thread \in [Threads -> Local]
  BY <1>1, <1>2 DEF Local
<1>4. settled \in [bag: [Pairs -> Nat], size: Int, hook: {"default", "null"}]
  BY <1>2, ContentsType DEF Init
<1>5. Rest /\ count = 0
  BY <1>1, <1>2, <1>4 DEF Init, Rest
<1>6. \A t \in Threads : Plain(thread[t]) /\ ~Past(thread[t])
  BY <1>1 DEF Plain, Past, Removing
<1>7. Crowded
  BY <1>2, <1>5, <1>6 DEF Crowded
<1>8. QED
  BY <1>3, <1>5, <1>6, <1>7 DEF LooseInv

-----------------------------------------------------------------------------
(* What holds of every careful application.                                  *)

\* Threads that lock, or leave append and remove to one of them, never access the
\* array out of its bounds, be there any number of threads and slots; and two threads
\* that only append count one registration more than there are slots, at most.
THEOREM TypeCorrect == Spec => []TypeOK
<1>1. (Careful => CInv) /\ (mode = "appendOnly" => LooseInv) /\ mode \in Modes => TypeOK
  <2>1. ASSUME CInv PROVE TypeOK
    BY <2>1 DEF CInv
  <2>2. ASSUME LooseInv PROVE TypeOK
    BY <2>2 DEF LooseInv, Rest, TypeOK, Careful, Crowded
  <2>3. QED
    BY <2>1, <2>2, ConstantsAssumption DEF Careful
<1>2. Spec => [](mode \in Modes)
  <2>1. Init => mode \in Modes
    BY DEF Init
  <2>2. mode \in Modes /\ [Next]_vars => (mode \in Modes)'
    BY ModeStays
  <2>3. QED
    BY <2>1, <2>2, PTL DEF Spec
<1>3. Spec => [](mode = "appendOnly" => LooseInv)
  <2>1. Init => (mode = "appendOnly" => LooseInv)
    BY LooseInit
  <2>2. (mode = "appendOnly" => LooseInv) /\ [Next]_vars => (mode = "appendOnly" => LooseInv)'
    BY ModeStays, LooseNext
  <2>3. QED
    BY <2>1, <2>2, PTL DEF Spec
<1>4. QED
  BY <1>1, <1>2, <1>3, Invariance, PTL

\* And whenever none of them is in an append or remove, the hook is there exactly
\* if there is a callback to call.
THEOREM HookIsSettled == Spec => []HookSettles
<1>1. (Careful => CInv) => HookSettles
  BY DEF CInv, Quiet, NobodyIsBusy, HookSettles, Busy, IsBusy
<1>2. QED
  BY <1>1, Invariance, PTL

\* And the array never mixes the callback of one registration with the userInfo of
\* another, but for the slot that is being refilled.
THEOREM ArrayIsWhole == Spec => []SlotsAreWhole
<1>1. (Careful => CInv) => SlotsAreWhole
  BY DEF CInv, SlotsAreWhole
<1>2. QED
  BY <1>1, Invariance, PTL

LEMMA CallIsRegistered ==
  ASSUME CInv, NEW t \in Threads, mode = "guarded", InvokeCallback(t)
  PROVE  ReadPair(t) \in Pairs /\ settled.bag[ReadPair(t)] > 0
<1>1. thread[t].at = "getInfo" /\ mutex = t /\ ~IsBusy(thread[t])
  BY InHook DEF InvokeCallback, At, Dispatching
<1> DEFINE i == thread[t].i
<1>2. i \in Slots /\ i < count /\ thread[t].pair[1] = slots[i][1]
  BY <1>1 DEF CInv, InLoop
<1>3. NobodyIsBusy
  BY <1>1 DEF CInv, MutexIsKept, NobodyIsBusy
<1>4. slots[i] \in Pairs
  BY <1>2, <1>3 DEF CInv, SlotsAreWhole, NobodyIsBusy, IsBusy, Removing
<1>5. ReadPair(t) = slots[i]
  BY <1>2, <1>4, PairType DEF ReadPair
<1>6. settled = Contents(slots, count, hook)
  BY <1>3 DEF CInv, Quiet
<1>7. count \in 0 .. Max /\ hook \in {"default", "null"}
  BY TypeParts DEF MemoryOK
<1>8. QED
  BY <1>2, <1>4, <1>5, <1>6, <1>7, ContentsType

\* Under the lock, a callback the hook calls is one that is registered when it does.
THEOREM CallsWhatIsRegistered == Spec => CalledIsRegistered
<1>1. (Careful => CInv) => [\A t \in Threads : mode = "guarded" /\ InvokeCallback(t)
                 => ReadPair(t) \in Pairs /\ settled.bag[ReadPair(t)] > 0]_vars
  BY CallIsRegistered DEF Careful
<1>2. QED
  BY <1>1, Invariance, PTL DEF CalledIsRegistered

-----------------------------------------------------------------------------
(* Under the lock, the threads together are one user of the registry.        *)

\* What is registered, as an append or remove that has come this far left it,
\* against what was registered when the one before it returned: the same, ...
Same == settled = Contents(slots, count, hook) /\ (hook = "default" <=> count > 0)

\* ... one more, ...
Grown(p) ==
  /\ settled.size = count - 1
  /\ settled.hook = IF count > 1 THEN "default" ELSE "null"
  /\ Contents(slots, count, hook).bag = [settled.bag EXCEPT ![p] = @ + 1]

\* ... or one less.
Shrunk(p) ==
  /\ settled.size = count + 1 /\ settled.hook = "default" /\ settled.bag[p] > 0
  /\ Contents(slots, count, hook).bag = [settled.bag EXCEPT ![p] = @ - 1]

Pending(l) ==
  /\ l.at \in {"check", "putCallback", "putInfo", "putCount",
               "lookCallback", "lookInfo", "takeCount"} => Same
  /\ l.at = "lookInfo" => slots[l.k][1] = l.pair[1]
  /\ l.at = "takeCount" => slots[l.k] = l.pair
  /\ l.at \in {"moveCallback", "moveInfo"} =>
       settled = Contents([slots EXCEPT ![l.k] = l.pair], count + 1, hook)
  /\ l.at \in {"testOne", "setHook"} => Same \/ Grown(l.pair)
  /\ l.at \in {"testZero", "clearHook"} => Same \/ Shrunk(l.pair)

\* The inductive invariant of the refinement.
UnderLock ==
  /\ CInv /\ mode = "guarded"
  /\ \A t \in Threads : IsBusy(thread[t]) => Pending(thread[t])

\* The slots below n with the pair p.
Holds(s, n, p) == {j \in Slots : j < n /\ s[j] = p}

LEMMA HoldsAreCounted ==
  ASSUME NEW s, NEW n, NEW p
  PROVE  /\ IsFiniteSet(Holds(s, n, p)) /\ Cardinality(Holds(s, n, p)) \in Nat
         /\ Holds(s, n, p) # {} => Cardinality(Holds(s, n, p)) > 0
<1>1. IsFiniteSet(Slots)
  <2>1. 0 \in Int /\ Max - 1 \in Int
    BY ConstantsAssumption
  <2>2. QED
    BY <2>1, FS_Interval DEF Slots
<1>2. IsFiniteSet(Holds(s, n, p))
  BY <1>1, FS_Subset DEF Holds
<1>3. QED
  BY <1>2, FS_CardinalityType, FS_EmptySet

LEMMA BagOfContents ==
  ASSUME NEW s, NEW n, NEW h
  PROVE  /\ Contents(s, n, h).bag = [p \in Pairs |-> Cardinality(Holds(s, n, p))]
         /\ Contents(s, n, h).size = n /\ Contents(s, n, h).hook = h
  BY DEF Contents, Holds

\* Only what is below the count matters.
LEMMA OnlyBelowCounts ==
  ASSUME NEW s, NEW u, NEW n, NEW h, \A j \in Slots : j < n => s[j] = u[j]
  PROVE  Contents(s, n, h) = Contents(u, n, h)
<1>1. \A p \in Pairs : Holds(s, n, p) = Holds(u, n, p)
  BY DEF Holds
<1>2. [p \in Pairs |-> Cardinality(Holds(s, n, p))] = [p \in Pairs |-> Cardinality(Holds(u, n, p))]
  BY <1>1
<1>3. /\ Contents(s, n, h) = [bag |-> [p \in Pairs |-> Cardinality(Holds(s, n, p))],
                             size |-> n, hook |-> h]
      /\ Contents(u, n, h) = [bag |-> [p \in Pairs |-> Cardinality(Holds(u, n, p))],
                             size |-> n, hook |-> h]
  BY DEF Contents, Holds
<1>4. QED
  BY <1>2, <1>3

\* Counting the slot at the count adds what is in it.
LEMMA OneMoreCounts ==
  ASSUME NEW s, NEW n \in Slots, NEW p \in Pairs, NEW h, NEW g, s[n] = p
  PROVE  Contents(s, n + 1, h).bag = [Contents(s, n, g).bag EXCEPT ![p] = @ + 1]
<1>1. n \in Int /\ \A j \in Slots : j \in Int /\ (j < n + 1 <=> j < n \/ j = n)
  BY DEF Slots
<1>2. ASSUME NEW q \in Pairs
      PROVE  Holds(s, n + 1, q) = IF q = p THEN Holds(s, n, q) \cup {n} ELSE Holds(s, n, q)
  BY <1>1 DEF Holds
<1>3. ASSUME NEW q \in Pairs
      PROVE  Cardinality(Holds(s, n + 1, q)) =
               IF q = p THEN Cardinality(Holds(s, n, q)) + 1 ELSE Cardinality(Holds(s, n, q))
  <2>1. IsFiniteSet(Holds(s, n, q))
    BY HoldsAreCounted
  <2>0. n \notin Holds(s, n, q)
    BY <1>1 DEF Holds
  <2>2. Cardinality(Holds(s, n, q) \cup {n}) = Cardinality(Holds(s, n, q)) + 1
    BY <2>0, <2>1, FS_AddElement
  <2>3. QED
    BY <1>2, <2>2
<1>4. /\ Contents(s, n + 1, h).bag = [q \in Pairs |-> Cardinality(Holds(s, n + 1, q))]
      /\ Contents(s, n, g).bag = [q \in Pairs |-> Cardinality(Holds(s, n, q))]
  BY BagOfContents
<1>5. QED
  BY <1>3, <1>4

\* Filling the slot k of p with the last one takes one p out.
LEMMA OneLessCounts ==
  ASSUME NEW s, NEW u, NEW n \in Slots, NEW k \in Slots, k <= n, NEW p \in Pairs, NEW h, NEW g,
         s[k] = p,
         \A j \in Slots : j < n => u[j] = IF j = k THEN s[n] ELSE s[j]
  PROVE  /\ Contents(u, n, h).bag = [Contents(s, n + 1, g).bag EXCEPT ![p] = @ - 1]
         /\ Contents(s, n + 1, g).bag[p] > 0
<1>1. n \in Int /\ k \in Int /\ \A j \in Slots : j \in Int /\ (j < n + 1 <=> j < n \/ j = n)
  BY DEF Slots
<1>2. k \in Holds(s, n + 1, p)
  BY <1>1 DEF Holds
<1>3. ASSUME NEW q \in Pairs
      PROVE  Cardinality(Holds(u, n, q)) =
               IF q = p THEN Cardinality(Holds(s, n + 1, q)) - 1 ELSE Cardinality(Holds(s, n + 1, q))
  <2> DEFINE H == Holds(s, n + 1, q)
  <2>1. IsFiniteSet(H) /\ Cardinality(H) \in Nat
    BY HoldsAreCounted
  <2>0. \A j : /\ j \in H <=> j \in Slots /\ (j < n \/ j = n) /\ s[j] = q
               /\ j \in Holds(u, n, q) <=> j \in Slots /\ j < n /\ u[j] = q
    BY <1>1 DEF Holds
  <2>7. n \in Slots /\ k \in Slots /\ (k < n \/ k = n) /\ ~(n < n)
    BY <1>1
  <2> HIDE DEF H
  <2>2. CASE q = p /\ s[n] = p
    <3>1. Holds(u, n, q) = H \ {n} /\ n \in H
      BY <2>0, <2>2, <2>7
    <3>2. Cardinality(Holds(u, n, q)) = Cardinality(H) - 1
      BY <2>1, <3>1, FS_RemoveElement
    <3>3. QED
      BY <2>2, <3>2 DEF H
  <2>3. CASE q = p /\ s[n] # p
    <3>1. Holds(u, n, q) = H \ {k} /\ k \in H
      BY <2>0, <2>3, <2>7
    <3>2. Cardinality(Holds(u, n, q)) = Cardinality(H) - 1
      BY <2>1, <3>1, FS_RemoveElement
    <3>3. QED
      BY <2>3, <3>2 DEF H
  <2>4. CASE q # p /\ s[n] = q
    <3> DEFINE rest == H \ {n}
    <3>1. Holds(u, n, q) = rest \cup {k} /\ n \in H /\ k \notin rest
      BY <2>0, <2>4, <2>7
    <3>2. IsFiniteSet(rest) /\ Cardinality(rest) = Cardinality(H) - 1
      BY <2>1, <3>1, FS_RemoveElement
    <3> HIDE DEF rest
    <3>3. Cardinality(rest \cup {k}) = Cardinality(rest) + 1
      BY <3>1, <3>2, FS_AddElement
    <3>4. Cardinality(Holds(u, n, q)) = Cardinality(H)
      BY <2>1, <3>1, <3>2, <3>3
    <3>5. QED
      BY <2>4, <3>4 DEF H
  <2>5. CASE q # p /\ s[n] # q
    <3>1. Holds(u, n, q) = H
      BY <2>0, <2>5, <2>7
    <3>2. QED
      BY <2>5, <3>1 DEF H
  <2>6. QED
    BY <2>2, <2>3, <2>4, <2>5
<1>4. Cardinality(Holds(s, n + 1, p)) > 0
  BY <1>2, HoldsAreCounted
<1>5. /\ Contents(u, n, h).bag = [q \in Pairs |-> Cardinality(Holds(u, n, q))]
      /\ Contents(s, n + 1, g).bag = [q \in Pairs |-> Cardinality(Holds(s, n + 1, q))]
  BY BagOfContents
<1>6. QED
  BY <1>3, <1>4, <1>5

-----------------------------------------------------------------------------
(* What is pending, access by access.                                        *)

Steps(t) == Application(t) \/ Append(t) \/ Remove(t) \/ Dispatch(t)

LEMMA OthersStay ==
  ASSUME CInv, NEW t \in Threads, Steps(t), NEW u \in Threads, u # t
  PROVE  thread'[u] = thread[u]
<1>1. thread \in [Threads -> Local]
  BY TypeParts
<1>2. CASE Application(t)
  BY <1>1, <1>2 DEF Application, AppendUpdateCallback, RemoveUpdateCallback, Enter
<1>3. CASE Append(t)
  BY <1>1, <1>3 DEF Append, CheckCount, PutCallback, PutInfo, PutCount, TestOne, SetHook, Leave,
     Goto, OutOfBounds
<1>4. CASE Remove(t)
  BY <1>1, <1>4 DEF Remove, LookCallback, LookInfo, TakeCount, MoveCallback, MoveInfo, TestZero,
     ClearHook, Leave, Goto, OutOfBounds
<1>5. CASE Dispatch(t)
  BY <1>1, <1>5 DEF Dispatch, RowChanged, CompareIndex, GetCallback, InvokeCallback,
     CallbackReturns, Goto, OutOfBounds
<1>6. QED
  BY <1>2, <1>3, <1>4, <1>5 DEF Steps

\* A thread moves only while nobody else is in an append, a remove or the hook.
LEMMA Turn ==
  ASSUME UnderLock, NEW t \in Threads, Steps(t), NEW u \in Threads, u # t
  PROVE  ~IsBusy(thread[u]) /\ ~IsInHook(thread[u])
<1>1. mutex \in {t, Nobody}
  <2>1. CASE Application(t)
    BY <2>1 DEF UnderLock, Application, AppendUpdateCallback, RemoveUpdateCallback, Enter,
       MayRegister, MutexAvailable
  <2>2. CASE Append(t)
    <3>1. IsBusy(thread[t])
      BY <2>2 DEF Append, CheckCount, PutCallback, PutInfo, PutCount, TestOne, SetHook, At, IsBusy,
         Appending
    <3>2. QED
      BY <3>1 DEF UnderLock, CInv, MutexIsKept
  <2>3. CASE Remove(t)
    <3>1. IsBusy(thread[t])
      BY <2>3 DEF Remove, LookCallback, LookInfo, TakeCount, MoveCallback, MoveInfo, TestZero,
         ClearHook, At, IsBusy, Removing
    <3>2. QED
      BY <3>1 DEF UnderLock, CInv, MutexIsKept
  <2>4. CASE Dispatch(t)
    <3>1. mutex = Nobody \/ thread[t].at \in Dispatching \cup {"calling"}
      BY <2>4 DEF Dispatch, RowChanged, CompareIndex, GetCallback, InvokeCallback,
         CallbackReturns, At, Dispatching
    <3>2. QED
      BY <3>1, InHook DEF UnderLock
  <2>5. QED
    BY <2>1, <2>2, <2>3, <2>4 DEF Steps
<1>2. QED
  BY <1>1, ConstantsAssumption DEF UnderLock, CInv, MutexIsKept

LEMMA UnderLockStays ==
  ASSUME UnderLock, CInv', mode' = mode, NEW t \in Threads, Steps(t),
         (IsBusy(thread[t]) => Pending(thread[t]))'
  PROVE  UnderLock'
<1>1. ASSUME NEW u \in Threads PROVE (IsBusy(thread[u]) => Pending(thread[u]))'
  <2>1. CASE u = t
    BY <2>1
  <2>2. CASE u # t
    <3>1. thread'[u] = thread[u] /\ ~IsBusy(thread[u])
      BY <2>2, OthersStay, Turn DEF UnderLock
    <3>2. QED
      BY <3>1
  <2>3. QED
    BY <2>1, <2>2
<1>2. QED
  BY <1>1 DEF UnderLock

\* What is known of a thread under the lock, and what its accesses leave alone.
LEMMA KnowsUnderLock ==
  ASSUME UnderLock, NEW t \in Threads
  PROVE  /\ thread \in [Threads -> Local] /\ thread[t] \in Local /\ thread[t].k \in Nat
         /\ thread[t].pair \in Callbacks \X Infos
         /\ slots \in [Slots -> Callbacks \X Infos]
         /\ count \in Nat /\ count <= Max /\ Max \in Nat
         /\ IsBusy(thread[t]) => InStep(thread[t]) /\ Pending(thread[t])
  BY Knows, TypeParts DEF UnderLock, MemoryOK, Local

LEMMA SameStays ==
  ASSUME Same, UNCHANGED <<slots, count, hook, settled>>
  PROVE  Same'
  BY DEF Same, Contents

LEMMA CheckCountPending ==
  ASSUME UnderLock, NEW t \in Threads, CheckCount(t)
  PROVE  Pending(thread[t])'
<1>1. IsBusy(thread[t]) /\ thread[t].at = "check"
  BY DEF CheckCount, At, IsBusy, Appending
<1>2. Same
  BY <1>1, KnowsUnderLock DEF Pending
<1>3. Same'
  BY <1>2, SameStays DEF CheckCount, memory
<1>4. thread'[t].at \in {"putCallback", "testOne"}
  BY KnowsUnderLock DEF CheckCount, Local
<1>5. QED
  BY <1>3, <1>4 DEF Pending

LEMMA PutPending ==
  ASSUME UnderLock, NEW t \in Threads, PutCallback(t) \/ PutInfo(t), CInv'
  PROVE  Pending(thread[t])'
<1>1. IsBusy(thread[t]) /\ thread[t].at \in {"putCallback", "putInfo"}
  BY DEF PutCallback, PutInfo, At, IsBusy, Appending
<1>0. Same /\ thread[t].n = count /\ count < Max
  BY <1>1, KnowsUnderLock DEF Pending, InStep
<1>2. Same /\ thread[t].n = count /\ count \in Slots
  BY <1>0, KnowsUnderLock DEF Slots
<1>3. /\ \A j \in Slots : j < count => slots'[j] = slots[j]
      /\ UNCHANGED <<count, hook, settled>> /\ thread'[t].at \in {"putInfo", "putCount"}
  BY <1>2, KnowsUnderLock DEF PutCallback, PutInfo, Goto, Local, Slots
<1>4. Contents(slots', count, hook) = Contents(slots, count, hook)
  BY <1>3, OnlyBelowCounts
<1>5. Same'
  BY <1>2, <1>3, <1>4 DEF Same
<1>6. QED
  BY <1>3, <1>5 DEF Pending

LEMMA PutCountPending ==
  ASSUME UnderLock, NEW t \in Threads, PutCount(t)
  PROVE  Pending(thread[t])'
<1>1. IsBusy(thread[t]) /\ thread[t].at = "putCount"
  BY DEF PutCount, At, IsBusy, Appending
<1>0. /\ Same /\ thread[t].n = count /\ count < Max
      /\ slots[count] = thread[t].pair /\ thread[t].pair \in Pairs
  BY <1>1, KnowsUnderLock DEF Pending, InStep
<1>2. /\ Same /\ thread[t].n = count /\ count \in Slots /\ count \in Nat
      /\ slots[count] = thread[t].pair /\ thread[t].pair \in Pairs
  BY <1>0, KnowsUnderLock DEF Slots
<1>3. /\ count' = count + 1 /\ UNCHANGED <<slots, hook, settled>>
      /\ thread'[t].at = "testOne" /\ thread'[t].pair = thread[t].pair
  BY <1>2, KnowsUnderLock DEF PutCount, Local
<1>4. Contents(slots, count + 1, hook).bag = [Contents(slots, count, hook).bag EXCEPT ![thread[t].pair] = @ + 1]
  BY <1>2, OneMoreCounts
<1>5. settled.size = count /\ settled.hook = hook
  <2>1. Contents(slots, count, hook).size = count /\ Contents(slots, count, hook).hook = hook
    BY DEF Contents
  <2>2. QED
    BY <1>2, <2>1 DEF Same
<1>6. settled.hook = IF count > 0 THEN "default" ELSE "null"
  BY <1>2, <1>5 DEF Same, UnderLock, CInv, TypeOK
<1>7. Grown(thread[t].pair)'
  BY <1>2, <1>3, <1>4, <1>5, <1>6 DEF Grown, Same
<1>8. QED
  BY <1>3, <1>7 DEF Pending

LEMMA TestOnePending ==
  ASSUME UnderLock, NEW t \in Threads, TestOne(t), thread[t].n = 1
  PROVE  Pending(thread[t])'
<1>1. IsBusy(thread[t]) /\ thread[t].at = "testOne"
  BY DEF TestOne, At, IsBusy, Appending
<1>2. Same \/ Grown(thread[t].pair)
  BY <1>1, KnowsUnderLock DEF Pending
<1>3. /\ UNCHANGED <<slots, count, hook, settled>>
      /\ thread'[t].at = "setHook" /\ thread'[t].pair = thread[t].pair
  BY KnowsUnderLock DEF TestOne, Goto, memory, Local
<1>4. (Same \/ Grown(thread[t].pair))'
  BY <1>2, <1>3 DEF Same, Grown, Contents
<1>5. QED
  BY <1>3, <1>4 DEF Pending

LEMMA LookPending ==
  ASSUME UnderLock, NEW t \in Threads, LookCallback(t) \/ LookInfo(t), CInv'
  PROVE  Pending(thread[t])'
<1> DEFINE k == thread[t].k
<1>1. IsBusy(thread[t]) /\ thread[t].at \in {"lookCallback", "lookInfo"}
  BY DEF LookCallback, LookInfo, At, IsBusy, Removing
<1>0. /\ Same /\ (thread[t].at = "lookInfo" => k < count /\ slots[k][1] = thread[t].pair[1])
      /\ thread[t].n = count
  BY <1>1, KnowsUnderLock DEF Pending, InStep
<1>2. thread[t].at = "lookInfo" => k \in Slots
  BY <1>0, KnowsUnderLock DEF Slots
<1>3. fault' = "none"
  BY DEF UnderLock, CInv, TypeOK
<1>4. UNCHANGED <<slots, count, hook, settled>>
  BY DEF LookCallback, LookInfo, OutOfBounds, memory
<1>5. CASE LookCallback(t)
  <2>1. \/ Goto(t, "testZero")
        \/ slots[k][1] = thread[t].pair[1] /\ Goto(t, "lookInfo")
        \/ thread' = [thread EXCEPT ![t].k = k + 1]
    BY <1>3, <1>5 DEF LookCallback, OutOfBounds
  <2>2. thread[t].at = "lookCallback"
    BY <1>5 DEF LookCallback, At
  <2>3. \/ thread'[t].at \in {"testZero", "lookCallback"}
        \/ /\ thread'[t].at = "lookInfo" /\ thread'[t].k = k /\ thread'[t].pair = thread[t].pair
           /\ slots[k][1] = thread[t].pair[1]
    BY <2>1, <2>2, KnowsUnderLock DEF Goto, Local
  <2>4. QED
    BY <1>0, <1>4, <2>3, SameStays DEF Pending
<1>6. CASE LookInfo(t)
  <2>1. thread[t].at = "lookInfo"
    BY <1>6 DEF LookInfo, At
  <2>2. CASE slots[k][2] = thread[t].pair[2]
    <3>1. thread'[t].at = "takeCount" /\ thread'[t].k = k /\ thread'[t].pair = thread[t].pair
      BY <1>6, <2>2, KnowsUnderLock DEF LookInfo, Goto, Local
    <3>2. slots[k] \in Callbacks \X Infos /\ thread[t].pair \in Callbacks \X Infos
      BY <1>2, <2>1, KnowsUnderLock
    <3>3. slots[k] = thread[t].pair
      BY <1>0, <2>1, <2>2, <3>2
    <3>4. QED
      BY <1>0, <1>4, <3>1, <3>3, SameStays DEF Pending
  <2>3. CASE slots[k][2] # thread[t].pair[2]
    <3>1. thread'[t].at = "lookCallback"
      BY <1>6, <2>3, KnowsUnderLock DEF LookInfo, Local
    <3>2. QED
      BY <1>0, <1>4, <3>1, SameStays DEF Pending
  <2>4. QED
    BY <2>2, <2>3
<1>7. QED
  BY <1>5, <1>6

LEMMA TakeCountPending ==
  ASSUME UnderLock, NEW t \in Threads, TakeCount(t)
  PROVE  Pending(thread[t])'
<1> DEFINE k == thread[t].k
           p == thread[t].pair
<1>1. IsBusy(thread[t]) /\ thread[t].at = "takeCount"
  BY DEF TakeCount, At, IsBusy, Removing
<1>0. Same /\ slots[k] = p /\ thread[t].n = count /\ k < count
  BY <1>1, KnowsUnderLock DEF Pending, InStep
<1>2. Same /\ thread[t].n = count /\ k \in Slots /\ slots[k] = p /\ count \in Nat
  BY <1>0, KnowsUnderLock DEF Slots
<1>3. /\ count' = count - 1 /\ UNCHANGED <<slots, hook, settled>>
      /\ thread'[t].at = "moveCallback" /\ thread'[t].pair = p /\ thread'[t].k = k
  BY <1>2, KnowsUnderLock DEF TakeCount, Local
<1> HIDE DEF k, p
<1>4. [slots EXCEPT ![k] = p] = slots /\ count' + 1 = count
  <2>1. slots \in [Slots -> Callbacks \X Infos]
    BY KnowsUnderLock
  <2>2. [slots EXCEPT ![k] = p] = slots
    BY <1>2, <2>1
  <2>3. count' + 1 = count
    BY <1>2, <1>3
  <2>4. QED
    BY <2>2, <2>3
<1>5. settled' = Contents([slots' EXCEPT ![k] = p], count' + 1, hook')
  BY <1>2, <1>3, <1>4 DEF Same
<1>6. QED
  BY <1>3, <1>5 DEF Pending

LEMMA MoveCallbackPending ==
  ASSUME UnderLock, NEW t \in Threads, MoveCallback(t), CInv'
  PROVE  Pending(thread[t])'
<1> DEFINE k == thread[t].k
           p == thread[t].pair
<1>1. IsBusy(thread[t]) /\ thread[t].at = "moveCallback"
  BY DEF MoveCallback, At, IsBusy, Removing
<1>2. k \in Slots /\ settled = Contents([slots EXCEPT ![k] = p], count + 1, hook)
  BY <1>1, KnowsUnderLock DEF Pending, InStep, Slots
<1>3. fault' = "none"
  BY DEF UnderLock, CInv, TypeOK
<1>4. /\ slots' = [slots EXCEPT ![k] = <<slots[thread[t].n][1], @[2]>>]
      /\ UNCHANGED <<count, hook, settled>>
      /\ thread'[t].at = "moveInfo" /\ thread'[t].pair = p /\ thread'[t].k = k
  BY <1>3, KnowsUnderLock DEF MoveCallback, OutOfBounds, Goto, Local
<1>5. [slots' EXCEPT ![k] = p] = [slots EXCEPT ![k] = p]
  <2>1. slots \in [Slots -> Callbacks \X Infos]
    BY KnowsUnderLock
  <2> HIDE DEF k, p
  <2>2. QED
    BY <1>2, <1>4, <2>1
<1> HIDE DEF k, p
<1>6. settled' = Contents([slots' EXCEPT ![k] = p], count' + 1, hook')
  BY <1>2, <1>4, <1>5
<1>7. QED
  BY <1>4, <1>6 DEF Pending

LEMMA MoveInfoPending ==
  ASSUME UnderLock, NEW t \in Threads, MoveInfo(t)
  PROVE  Pending(thread[t])'
<1> DEFINE k == thread[t].k
           p == thread[t].pair
           old == [slots EXCEPT ![k] = p]
<1>1. IsBusy(thread[t]) /\ thread[t].at = "moveInfo"
  BY DEF MoveInfo, At, IsBusy, Removing
<1>2. settled = Contents(old, count + 1, hook)
  BY <1>1, KnowsUnderLock DEF Pending
<1>3. /\ thread[t].n = count /\ hook = "default" /\ k <= count /\ count < Max /\ k \in Slots
      /\ slots[count] \in Pairs /\ p \in Pairs /\ slots[k][1] = slots[count][1] /\ count \in Slots
  BY <1>1, KnowsUnderLock DEF InStep, Slots
<1>4. /\ slots' = [slots EXCEPT ![k] = <<@[1], slots[count][2]>>]
      /\ UNCHANGED <<count, hook, settled>>
      /\ thread'[t].at = "testZero" /\ thread'[t].pair = p
  BY <1>3, KnowsUnderLock DEF MoveInfo, Goto, Local
<1>5. slots[count] = <<slots[count][1], slots[count][2]>>
  BY <1>3, PairType
<1>6. \A j \in Slots : j < count => slots'[j] = IF j = k THEN old[count] ELSE old[j]
  <2>1. ASSUME NEW j \in Slots, j < count PROVE slots'[j] = IF j = k THEN old[count] ELSE old[j]
    <3>1. CASE j = k
      <4>1. old[count] = slots[count] /\ slots'[k] = <<slots[k][1], slots[count][2]>>
        BY <1>3, <1>4, <2>1, <3>1, KnowsUnderLock DEF Slots
      <4>2. QED
        BY <1>3, <1>5, <3>1, <4>1
    <3>2. CASE j # k
      BY <1>3, <1>4, <3>2, KnowsUnderLock
    <3>3. QED
      BY <3>1, <3>2
  <2>2. QED
    BY <2>1
<1>7. old[k] = p
  BY <1>3, KnowsUnderLock
<1> HIDE DEF old, k, p
<1>8. /\ Contents(slots', count, hook).bag = [Contents(old, count + 1, hook).bag EXCEPT ![p] = @ - 1]
      /\ Contents(old, count + 1, hook).bag[p] > 0
  BY <1>3, <1>6, <1>7, OneLessCounts
<1>9. settled.size = count + 1 /\ settled.hook = hook
  <2>1. Contents(old, count + 1, hook).size = count + 1 /\ Contents(old, count + 1, hook).hook = hook
    BY DEF Contents
  <2>2. QED
    BY <1>2, <2>1
<1>10. (thread[t].pair)' = p
  BY <1>4
<1>11. Shrunk(thread[t].pair)'
  BY <1>2, <1>3, <1>4, <1>8, <1>9, <1>10 DEF Shrunk
<1>12. QED
  BY <1>4, <1>11 DEF Pending

LEMMA TestZeroPending ==
  ASSUME UnderLock, NEW t \in Threads, TestZero(t), thread[t].n = 0
  PROVE  Pending(thread[t])'
<1>1. IsBusy(thread[t]) /\ thread[t].at = "testZero"
  BY DEF TestZero, At, IsBusy, Removing
<1>2. Same \/ Shrunk(thread[t].pair)
  BY <1>1, KnowsUnderLock DEF Pending
<1>3. /\ UNCHANGED <<slots, count, hook, settled>>
      /\ thread'[t].at = "clearHook" /\ thread'[t].pair = thread[t].pair
  BY KnowsUnderLock DEF TestZero, Goto, memory, Local
<1>4. (Same \/ Shrunk(thread[t].pair))'
  BY <1>2, <1>3 DEF Same, Shrunk, Contents
<1>5. QED
  BY <1>3, <1>4 DEF Pending

\* Once it has left, nothing is.
LEMMA LeaverIsDone ==
  ASSUME UnderLock, NEW t \in Threads, Leave(t)
  PROVE  ~IsBusy(thread[t])'
<1>1. thread'[t].at \in {"idle", "calling"}
  BY KnowsUnderLock DEF Leave, Goto, Local
<1>2. QED
  BY <1>1 DEF IsBusy, Appending, Removing

LEMMA UnderLockNext == UnderLock /\ [Next]_vars => UnderLock'
<1> SUFFICES ASSUME UnderLock, [Next]_vars PROVE UnderLock'
  OBVIOUS
<1>1. CInv' /\ mode' = mode
  BY NextKeeps, ModeStays DEF UnderLock
<1>2. CASE UNCHANGED vars
  <2>1. UNCHANGED <<mode, slots, count, hook, mutex, thread, fault, settled>>
    BY <1>2 DEF vars, memory
  <2>2. QED
    BY <1>1, <2>1 DEF UnderLock, Pending, Same, Grown, Shrunk, Contents
<1>3. ASSUME NEW t \in Threads, NEW p \in Pairs, NEW access \in {"check", "lookCallback"},
             Enter(t, access, p), Application(t)
      PROVE  UnderLock'
  <2>1. ~IsBusy(thread[t]) /\ \A u \in Threads : u # t => ~IsBusy(thread[u])
    BY <1>3, Turn DEF Steps, Enter, IsBusy, Appending, Removing
  <2>2. Same
    BY <2>1 DEF UnderLock, CInv, Quiet, NobodyIsBusy, Same
  <2>3. Same'
    BY <1>3, <2>2, SameStays DEF Enter, memory
  <2>4. thread'[t].at = access
    BY <1>3, KnowsUnderLock DEF Enter, Local
  <2>5. Pending(thread[t])'
    BY <2>3, <2>4 DEF Pending
  <2>6. QED
    BY <1>1, <1>3, <2>5, UnderLockStays DEF Steps
<1>4. ASSUME NEW t \in Threads, Append(t) PROVE UnderLock'
  <2>1. CASE TestOne(t)
    BY <1>1, <1>4, <2>1, TestOnePending, LeaverIsDone, UnderLockStays DEF TestOne, Steps
  <2>2. CASE SetHook(t)
    BY <1>1, <1>4, <2>2, LeaverIsDone, UnderLockStays DEF SetHook, Steps
  <2>3. QED
    BY <1>1, <1>4, <2>1, <2>2, CheckCountPending, PutPending, PutCountPending, UnderLockStays
       DEF Append, Steps
<1>5. ASSUME NEW t \in Threads, Remove(t) PROVE UnderLock'
  <2>1. CASE TestZero(t)
    BY <1>1, <1>5, <2>1, TestZeroPending, LeaverIsDone, UnderLockStays DEF TestZero, Steps
  <2>2. CASE ClearHook(t)
    BY <1>1, <1>5, <2>2, LeaverIsDone, UnderLockStays DEF ClearHook, Steps
  <2>3. QED
    BY <1>1, <1>5, <2>1, <2>2, LookPending, TakeCountPending, MoveCallbackPending,
       MoveInfoPending, UnderLockStays DEF Remove, Steps
<1>6. ASSUME NEW t \in Threads, Dispatch(t) PROVE UnderLock'
  <2>1. ~IsBusy(thread[t])'
    <3>1. thread'[t].at \in {"idle", "calling"} \cup Dispatching
      BY <1>1, <1>6, KnowsUnderLock DEF Dispatch, RowChanged, CompareIndex, GetCallback,
         InvokeCallback, CallbackReturns, Goto, Local, Dispatching, OutOfBounds, CInv, TypeOK
    <3>2. QED
      BY <3>1 DEF IsBusy, Appending, Removing, Dispatching
  <2>2. QED
    BY <1>1, <1>6, <2>1, UnderLockStays DEF Steps
<1>7. QED
  BY <1>2, <1>3, <1>4, <1>5, <1>6, NothingToReload
     DEF Next, Over, Application, AppendUpdateCallback, RemoveUpdateCallback, UnderLock

-----------------------------------------------------------------------------
(* Step by step.                                                             *)

\* The delivery that the registry sees, by what a thread is doing.
DeliveryIn(th) ==
  LET inHook == {t \in Threads : IsInHook(th[t])} IN
    IF inHook = {} THEN "none"
    ELSE IF \E t \in inHook : th[t].at \in Dispatching THEN "between" ELSE "in"

DeliveryBy(l) ==
  IF ~IsInHook(l) THEN "none" ELSE IF l.at \in Dispatching THEN "between" ELSE "in"

delivery == DeliveryIn(thread)

LEMMA OneDelivers ==
  ASSUME NEW th, NEW t \in Threads, \A u \in Threads : u # t => ~IsInHook(th[u])
  PROVE  DeliveryIn(th) = DeliveryBy(th[t])
<1> DEFINE inHook == {u \in Threads : IsInHook(th[u])}
<1>1. CASE IsInHook(th[t])
  <2>1. inHook = {t}
    BY <1>1
  <2>2. QED
    BY <1>1, <2>1 DEF DeliveryIn, DeliveryBy
<1>2. CASE ~IsInHook(th[t])
  <2>1. inHook = {}
    BY <1>2
  <2>2. QED
    BY <1>2, <2>1 DEF DeliveryIn, DeliveryBy
<1>3. QED
  BY <1>1, <1>2

LEMMA Sees ==
  ASSUME UnderLock, NEW t \in Threads, Steps(t)
  PROVE  delivery = DeliveryBy(thread[t]) /\ delivery' = DeliveryBy(thread'[t])
<1>1. \A u \in Threads : u # t => ~IsInHook(thread[u]) /\ ~IsInHook(thread'[u])
  BY Turn, OthersStay DEF UnderLock
<1>2. delivery = DeliveryBy(thread[t])
  BY <1>1, OneDelivers DEF delivery
<1>3. DeliveryIn(thread') = DeliveryBy(thread'[t])
  BY <1>1, OneDelivers
<1>4. QED
  BY <1>2, <1>3 DEF delivery

\* A step of the registry, without the substitution.
RegistryStep ==
  \/ /\ settled' = settled
     /\ \/ settled.hook = "default" /\ delivery = "none" /\ delivery' = "between"
        \/ delivery = "between" /\ (\E p \in Pairs : settled.bag[p] > 0) /\ delivery' = "in"
        \/ delivery = "in" /\ delivery' = "between"
        \/ delivery = "between" /\ delivery' = "none"
        \/ delivery' = delivery
  \/ \E p \in Pairs :
       /\ delivery # "between" /\ delivery' = delivery
       /\ \/ /\ settled.size < Max
             /\ settled'.bag = [settled.bag EXCEPT ![p] = @ + 1]
             /\ settled'.size = settled.size + 1
             /\ settled'.hook = "default"
          \/ /\ settled.bag[p] > 0
             /\ settled'.bag = [settled.bag EXCEPT ![p] = @ - 1]
             /\ settled'.size = settled.size - 1
             /\ settled'.hook = "default" <=> settled.size > 1

LEMMA RegistryStepIsOne == RegistryStep => Registry!Next \/ UNCHANGED Registry!registryVars
<1> DEFINE d == IF Dispatcher = {} THEN "none"
                ELSE IF \E t \in Dispatcher : thread[t].at \in Dispatching THEN "between" ELSE "in"
<1>1. delivery = d /\ delivery' = d'
  BY DEF delivery, DeliveryIn, IsInHook, IsBusy, Dispatcher, Busy
<1> HIDE DEF d
<1>2. QED
  BY <1>1 DEF RegistryStep, Registry!Next, Registry!RowChange, Registry!Call, Registry!Return,
     Registry!Done, Registry!Add, Registry!Take, Registry!registryVars, d

\* Within an append or remove, and when it returns, the thread is where it was.
LEMMA BusyDelivery ==
  ASSUME UnderLock, NEW t \in Threads, Steps(t), IsBusy(thread[t]),
         \/ IsBusy(thread'[t]) /\ thread'[t].home = thread[t].home
         \/ thread'[t].at = thread[t].home
  PROVE  delivery' = delivery /\ delivery # "between"
<1>1. thread[t].home \in {"idle", "calling"}
  BY KnowsUnderLock DEF Local
<1>2. QED
  BY <1>1, Sees DEF DeliveryBy, IsInHook, IsBusy, Appending, Removing, Dispatching

\* What an append or remove did shows when it returns.
LEMMA LeaveIsAStep ==
  ASSUME UnderLock, NEW t \in Threads, Steps(t), IsBusy(thread[t]), Leave(t),
         UNCHANGED <<slots, count>>,
         hook' \in {"default", "null"}, hook' = "default" <=> count > 0,
         Same \/ (Grown(thread[t].pair) /\ count > 0) \/ Shrunk(thread[t].pair)
  PROVE  RegistryStep
<1>1. thread'[t].at = thread[t].home
  BY KnowsUnderLock DEF Leave, Goto, Local
<1>2. delivery' = delivery /\ delivery # "between"
  BY <1>1, BusyDelivery
<1>3. settled' = Contents(slots, count, hook')
  BY DEF Leave, UnderLock
<1>4. /\ settled'.bag = Contents(slots, count, hook).bag /\ settled'.size = count
      /\ settled'.hook = hook'
  BY <1>3 DEF Contents
<1>5. count \in Nat /\ count <= Max /\ thread[t].pair \in Pairs /\ hook \in {"default", "null"}
  BY KnowsUnderLock DEF InStep, UnderLock, CInv, TypeOK
<1>6. CASE Same
  <2>1. hook' = hook
    BY <1>5, <1>6 DEF Same
  <2>2. settled' = settled
    BY <1>3, <1>6, <2>1 DEF Same
  <2>3. QED
    BY <1>2, <2>2 DEF RegistryStep
<1>7. CASE Grown(thread[t].pair) /\ count > 0
  <2>1. settled.size = count - 1 /\ settled.size < Max
    BY <1>5, <1>7, KnowsUnderLock DEF Grown
  <2>2. QED
    BY <1>2, <1>4, <1>5, <1>7, <2>1 DEF RegistryStep, Grown
<1>8. CASE Shrunk(thread[t].pair)
  <2>1. settled.size = count + 1 /\ settled.bag[thread[t].pair] > 0
    BY <1>8 DEF Shrunk
  <2>2. settled'.hook = "default" <=> settled.size > 1
    BY <1>4, <1>5, <2>1
  <2>3. settled'.size = settled.size - 1
    BY <1>4, <1>5, <2>1
  <2>4. QED
    BY <1>2, <1>4, <1>5, <1>8, <2>1, <2>2, <2>3 DEF RegistryStep, Shrunk
<1>9. QED
  BY <1>6, <1>7, <1>8

LEMMA ApplicationStep ==
  ASSUME UnderLock, NEW t \in Threads, Application(t)
  PROVE  RegistryStep
<1>1. PICK p \in Pairs, access \in {"check", "lookCallback"} : Enter(t, access, p)
  BY DEF Application, AppendUpdateCallback, RemoveUpdateCallback
<1>2. /\ thread'[t].at = access /\ thread'[t].home = thread[t].at
      /\ thread[t].at \in {"idle", "calling"}
  BY <1>1, KnowsUnderLock DEF Enter, Local
<1>3. delivery' = delivery
  BY <1>2, Sees DEF Steps, DeliveryBy, IsInHook, IsBusy, Appending, Removing, Dispatching
<1>4. settled' = settled
  BY <1>1 DEF Enter
<1>5. QED
  BY <1>3, <1>4 DEF RegistryStep

LEMMA AppendStep ==
  ASSUME UnderLock, NEW t \in Threads, Append(t), CInv'
  PROVE  RegistryStep
<1>1. IsBusy(thread[t]) /\ Steps(t)
  BY DEF Append, CheckCount, PutCallback, PutInfo, PutCount, TestOne, SetHook, At, IsBusy,
     Appending, Steps
<1>2. InStep(thread[t]) /\ Pending(thread[t]) /\ hook \in {"default", "null"} /\ count \in Nat
  BY <1>1, KnowsUnderLock DEF UnderLock, CInv, TypeOK
<1>3. CASE Leave(t)
  <2>1. CASE TestOne(t) /\ thread[t].n # 1
    <3>1. thread[t].at = "testOne" /\ UNCHANGED <<slots, count, hook>>
      BY <2>1 DEF TestOne, At, memory
    <3>2. count > 1 /\ hook = "default" /\ (Same \/ Grown(thread[t].pair))
      BY <1>2, <2>1, <3>1 DEF InStep, Pending
    <3>3. /\ hook' \in {"default", "null"} /\ (hook' = "default" <=> count > 0)
          /\ Same \/ (Grown(thread[t].pair) /\ count > 0) \/ Shrunk(thread[t].pair)
      BY <1>2, <3>1, <3>2
    <3>4. QED
      BY <1>1, <1>3, <3>1, <3>3, LeaveIsAStep
  <2>2. CASE SetHook(t)
    <3>1. thread[t].at = "setHook" /\ UNCHANGED <<slots, count>> /\ hook' = "default"
      BY <2>2 DEF SetHook, At
    <3>2. count = 1 /\ (Same \/ Grown(thread[t].pair))
      BY <1>2, <3>1 DEF InStep, Pending
    <3>3. QED
      BY <1>1, <1>3, <3>1, <3>2, LeaveIsAStep
  <2>3. CASE ~(TestOne(t) /\ thread[t].n # 1) /\ ~SetHook(t)
    <3>1. IsBusy(thread'[t]) /\ thread'[t].home = thread[t].home /\ settled' = settled
      BY <2>3, KnowsUnderLock DEF Append, CheckCount, PutCallback, PutInfo, PutCount, TestOne,
         OutOfBounds, Goto, Local, IsBusy, Appending, UnderLock, CInv, TypeOK
    <3>2. QED
      BY <1>1, <3>1, BusyDelivery DEF RegistryStep
  <2>4. QED
    BY <2>1, <2>2, <2>3
<1>4. CASE ~Leave(t)
  <2>1. IsBusy(thread'[t]) /\ thread'[t].home = thread[t].home /\ settled' = settled
    BY <1>4, KnowsUnderLock DEF Append, CheckCount, PutCallback, PutInfo, PutCount, TestOne,
       SetHook, OutOfBounds, Goto, Local, IsBusy, Appending, UnderLock, CInv, TypeOK
  <2>2. QED
    BY <1>1, <2>1, BusyDelivery DEF RegistryStep
<1>5. QED
  BY <1>3, <1>4

LEMMA RemoveStep ==
  ASSUME UnderLock, NEW t \in Threads, Remove(t), CInv'
  PROVE  RegistryStep
<1>1. IsBusy(thread[t]) /\ Steps(t)
  BY DEF Remove, LookCallback, LookInfo, TakeCount, MoveCallback, MoveInfo, TestZero, ClearHook,
     At, IsBusy, Removing, Steps
<1>2. InStep(thread[t]) /\ Pending(thread[t]) /\ hook \in {"default", "null"} /\ count \in Nat
  BY <1>1, KnowsUnderLock DEF UnderLock, CInv, TypeOK
<1>3. CASE TestZero(t) /\ thread[t].n # 0
  <2>1. thread[t].at = "testZero" /\ UNCHANGED <<slots, count, hook>> /\ Leave(t)
    BY <1>3 DEF TestZero, At, memory
  <2>2. count > 0 /\ hook = "default" /\ (Same \/ Shrunk(thread[t].pair))
    BY <1>2, <1>3, <2>1 DEF InStep, Pending
  <2>3. QED
    BY <1>1, <2>1, <2>2, LeaveIsAStep
<1>4. CASE ClearHook(t)
  <2>1. thread[t].at = "clearHook" /\ UNCHANGED <<slots, count>> /\ hook' = "null" /\ Leave(t)
    BY <1>4 DEF ClearHook, At
  <2>2. count = 0 /\ (Same \/ Shrunk(thread[t].pair))
    BY <1>2, <2>1 DEF InStep, Pending
  <2>3. QED
    BY <1>1, <2>1, <2>2, LeaveIsAStep
<1>5. CASE TestZero(t) /\ thread[t].n = 0
  <2>1. IsBusy(thread'[t]) /\ thread'[t].home = thread[t].home /\ settled' = settled
    BY <1>5, KnowsUnderLock DEF TestZero, Goto, Local, IsBusy, Removing
  <2>2. QED
    BY <1>1, <2>1, BusyDelivery DEF RegistryStep
<1>6. CASE LookCallback(t) \/ LookInfo(t)
  <2>1. thread[t].at \in {"lookCallback", "lookInfo"} /\ settled' = settled
    BY <1>6 DEF LookCallback, LookInfo, At, OutOfBounds
  <2>2. /\ thread'[t].at \in {"testZero", "lookCallback", "lookInfo", "takeCount"}
        /\ thread'[t].home = thread[t].home
    <3>1. \/ Goto(t, "testZero") \/ Goto(t, "lookInfo") \/ Goto(t, "takeCount")
          \/ thread' = thread
          \/ thread' = [thread EXCEPT ![t].k = thread[t].k + 1]
          \/ thread' = [thread EXCEPT ![t].at = "lookCallback", ![t].k = @ + 1]
      BY <1>6 DEF LookCallback, LookInfo, OutOfBounds
    <3>2. QED
      BY <2>1, <3>1, KnowsUnderLock DEF Goto, Local
  <2>3. QED
    BY <1>1, <2>1, <2>2, BusyDelivery DEF RegistryStep, IsBusy, Removing
<1>7. CASE TakeCount(t) \/ MoveCallback(t) \/ MoveInfo(t)
  <2>1. settled' = settled
    BY <1>7 DEF TakeCount, MoveCallback, MoveInfo, OutOfBounds
  <2>2. /\ thread'[t].at \in {"moveCallback", "moveInfo", "testZero"}
        /\ thread'[t].home = thread[t].home
    BY <1>7, KnowsUnderLock DEF TakeCount, MoveCallback, MoveInfo, OutOfBounds, Goto, Local, At
  <2>3. QED
    BY <1>1, <2>1, <2>2, BusyDelivery DEF RegistryStep, IsBusy, Removing
<1>8. QED
  BY <1>3, <1>4, <1>5, <1>6, <1>7 DEF Remove

LEMMA DispatchStep ==
  ASSUME UnderLock, NEW t \in Threads, Dispatch(t)
  PROVE  RegistryStep
<1>1. settled' = settled /\ Steps(t)
  BY DEF Dispatch, RowChanged, CompareIndex, GetCallback, InvokeCallback, CallbackReturns,
     OutOfBounds, Steps
<1>2. delivery = DeliveryBy(thread[t]) /\ delivery' = DeliveryBy(thread'[t])
  BY <1>1, Sees
<1>3. CASE RowChanged(t)
  <2>1. NobodyIsBusy
    BY <1>3, ConstantsAssumption
       DEF RowChanged, UnderLock, CInv, MutexIsKept, NobodyIsBusy
  <2>2. settled.hook = "default"
    BY <1>3, <2>1 DEF RowChanged, UnderLock, CInv, Quiet, Contents
  <2>3. thread[t].at = "idle" /\ thread'[t].at = "compare"
    BY <1>3, KnowsUnderLock DEF RowChanged, At, Local
  <2>4. delivery = "none" /\ delivery' = "between"
    BY <1>2, <2>3 DEF DeliveryBy, IsInHook, IsBusy, Appending, Removing, Dispatching
  <2>5. QED
    BY <1>1, <2>2, <2>4 DEF RegistryStep
<1>4. CASE CompareIndex(t) \/ GetCallback(t)
  <2>1. /\ thread[t].at \in {"compare", "getCallback"}
        /\ thread'[t].at \in {"compare", "getCallback", "getInfo", "idle"}
    BY <1>4, KnowsUnderLock DEF CompareIndex, GetCallback, At, Goto, Local, OutOfBounds
  <2>2. delivery = "between" /\ delivery' \in {"between", "none"}
    BY <1>2, <2>1 DEF DeliveryBy, IsInHook, IsBusy, Appending, Removing, Dispatching
  <2>3. QED
    BY <1>1, <2>2 DEF RegistryStep
<1>5. CASE InvokeCallback(t)
  <2>1. ReadPair(t) \in Pairs /\ settled.bag[ReadPair(t)] > 0
    BY <1>5, CallIsRegistered DEF UnderLock
  <2>2. thread[t].at = "getInfo" /\ thread'[t].at = "calling"
    BY <1>5, KnowsUnderLock DEF InvokeCallback, At, Local
  <2>3. delivery = "between" /\ delivery' = "in"
    BY <1>2, <2>2 DEF DeliveryBy, IsInHook, IsBusy, Appending, Removing, Dispatching
  <2>4. QED
    BY <1>1, <2>1, <2>3 DEF RegistryStep
<1>6. CASE CallbackReturns(t)
  <2>1. thread[t].at = "calling" /\ thread'[t].at = "compare"
    BY <1>6, KnowsUnderLock DEF CallbackReturns, At, Local
  <2>2. delivery = "in" /\ delivery' = "between"
    BY <1>2, <2>1 DEF DeliveryBy, IsInHook, IsBusy, Appending, Removing, Dispatching
  <2>3. QED
    BY <1>1, <2>2 DEF RegistryStep
<1>7. QED
  BY <1>3, <1>4, <1>5, <1>6 DEF Dispatch

LEMMA NextIsAStep == UnderLock /\ [Next]_vars => RegistryStep
<1> SUFFICES ASSUME UnderLock, [Next]_vars PROVE RegistryStep
  OBVIOUS
<1>1. CInv'
  BY NextKeeps DEF UnderLock
<1>2. CASE UNCHANGED vars
  BY <1>2 DEF vars, RegistryStep, delivery
<1>3. QED
  BY <1>1, <1>2, ApplicationStep, AppendStep, RemoveStep, DispatchStep, NothingToReload
     DEF Next, Over, UnderLock

LEMMA InitIsEmpty == Init /\ mode = "guarded" => UnderLock /\ Registry!Init
<1> SUFFICES ASSUME Init, mode = "guarded" PROVE UnderLock /\ Registry!Init
  OBVIOUS
<1>1. CInv
  BY InitKeeps DEF Careful
<1>2. \A t \in Threads : thread[t].at = "idle"
  BY DEF Init
<1>3. UnderLock
  BY <1>1, <1>2 DEF UnderLock, IsBusy, Appending, Removing
<1>4. Dispatcher = {}
  BY <1>2 DEF Dispatcher, Busy, Appending, Removing, Dispatching
<1>5. settled = Contents(slots, 0, "null")
  BY DEF Init
<1>6. ASSUME NEW p \in Pairs PROVE Cardinality(Holds(slots, 0, p)) = 0
  <2>1. Holds(slots, 0, p) = {}
    BY DEF Holds, Slots
  <2>2. QED
    BY <2>1, FS_EmptySet
<1>7. settled.bag = [p \in Pairs |-> 0] /\ settled.size = 0 /\ settled.hook = "null"
  BY <1>5, <1>6 DEF Contents, Holds
<1>8. QED
  BY <1>3, <1>4, <1>7 DEF Registry!Init

\* Under the lock, append and remove are atomic to whoever knows only the registry: the
\* accesses of the threads, however they interleave, add up to its steps.
THEOREM LockedThreadsAreOneUser == Spec => ImplementsRegistry
<1>1. Init => (mode = "guarded" => UnderLock)
  BY InitIsEmpty
<1>2. (mode = "guarded" => UnderLock) /\ [Next]_vars => (mode = "guarded" => UnderLock)'
  BY UnderLockNext, ModeStays
<1>3. (mode = "guarded" => UnderLock) /\ [Next]_vars
        => [mode = "guarded" => Registry!Next \/ UNCHANGED Registry!registryVars]_vars
  BY NextIsAStep, RegistryStepIsOne
<1>4. QED
  BY <1>1, <1>2, <1>3, PTL DEF Spec, ImplementsRegistry

\* So what they do is all that the registry allows, from the empty one on.
THEOREM LockedThreadsImplementRegistry == mode = "guarded" /\ Spec => Registry!Spec
<1>1. mode = "guarded" /\ Init => UnderLock /\ Registry!Init
  BY InitIsEmpty
<1>2. UnderLock /\ [Next]_vars => UnderLock'
  BY UnderLockNext
<1>3. UnderLock /\ [Next]_vars => [Registry!Next]_(Registry!registryVars)
  BY NextIsAStep, RegistryStepIsOne
<1>4. QED
  BY <1>1, <1>2, <1>3, PTL DEF Spec, Registry!Spec
=============================================================================
