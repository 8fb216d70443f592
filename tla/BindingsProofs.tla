----------------------------- MODULE BindingsProofs -----------------------------
(***************************************************************************)
(* What binding an array or a dictionary does, whatever its length, to the    *)
(* parameters of a statement, and what the one-shot helpers and the insert    *)
(* make of it.  The loops over the values are recursive functions, so the     *)
(* proofs are inductions over the values: the first section has the principle *)
(* they rest on, in terms of sets.                                            *)
(***************************************************************************)
EXTENDS Bindings, WellFoundedInduction, FiniteSetTheorems, TLAPS

LEMMA LeastElement ==
  ASSUME NEW S \in SUBSET Nat, S # {}
  PROVE  \E x \in S : \A y \in S : x <= y
<1> DEFINE R == OpToRel(<, Nat)
<1>1. IsWellFoundedOn(R, Nat)
  BY NatLessThanWellFounded
<1>2. \A i, j \in Nat : i < j => <<i, j>> \in R
  BY DEF OpToRel
<1> HIDE DEF R
<1>3. PICK x \in S : \A y \in S : ~ (<<y, x>> \in R)
  BY <1>1, WFMin
<1>4. ASSUME NEW y \in S PROVE x <= y
  <2>1. ~(y < x)
    BY <1>2, <1>3
  <2>2. QED
    BY <2>1
<1>5. QED
  BY <1>4

\* A set that has 0, and with a number below N the next one, has all up to N.
LEMMA InductionTo ==
  ASSUME NEW N \in Nat, NEW S, 0 \in S, \A n \in 0 .. N - 1 : n \in S => n + 1 \in S
  PROVE  \A n \in 0 .. N : n \in S
<1> DEFINE T == {n \in 0 .. N : n \notin S}
<1>1. SUFFICES ASSUME T # {} PROVE FALSE
  OBVIOUS
<1>2. PICK x \in T : \A y \in T : x <= y
  <2>1. T \in SUBSET Nat
    OBVIOUS
  <2>2. QED
    BY <1>1, <2>1, LeastElement
<1>3. x \in 1 .. N
  BY <1>2
<1>4. x - 1 \in S
  <2>1. x - 1 \in 0 .. N /\ ~(x <= x - 1)
    BY <1>3
  <2>2. QED
    BY <1>2, <2>1
<1>5. x \in S
  <2>1. x - 1 \in 0 .. N - 1 /\ (x - 1) + 1 = x
    BY <1>3
  <2>2. QED
    BY <1>4, <2>1
<1>6. QED
  BY <1>2, <1>5

\* A loop of N rounds: what each makes of a state in S, and the states it goes through.
Rounds(N, S) == [1 .. N -> [S -> S]]
IsLoop(N, S, base, F, f) ==
  f \in [0 .. N -> S] /\ f[0] = base /\ \A n \in 1 .. N : f[n] = F[n][f[n - 1]]

LEMMA LoopExists ==
  ASSUME NEW N \in Nat, NEW S, NEW base \in S, NEW F \in Rounds(N, S)
  PROVE  \E f : IsLoop(N, S, base, F, f)
<1> USE DEF Rounds
<1> DEFINE Runs(m, f) == f[0] = base /\ \A n \in 1 .. m : f[n] = F[n][f[n - 1]]
           G == {m \in 0 .. N : \E f \in [0 .. m -> S] : Runs(m, f)}
<1>0. \A m : m \in G <=> m \in 0 .. N /\ \E f \in [0 .. m -> S] : Runs(m, f)
  BY Zenon
<1> HIDE DEF G
<1>1. 0 \in G
  <2>1. [n \in 0 .. 0 |-> base] \in [0 .. 0 -> S] /\ Runs(0, [n \in 0 .. 0 |-> base])
    OBVIOUS
  <2> HIDE DEF Runs
  <2>2. 0 \in 0 .. N /\ \E f \in [0 .. 0 -> S] : Runs(0, f)
    BY <2>1
  <2>3. QED
    BY <1>0, <2>2
<1>2. ASSUME NEW m \in 0 .. N - 1, m \in G PROVE m + 1 \in G
  <2>1. PICK f \in [0 .. m -> S] : Runs(m, f)
    BY <1>0, <1>2
  <2> DEFINE g == [n \in 0 .. m + 1 |-> IF n = m + 1 THEN F[m + 1][f[m]] ELSE f[n]]
  <2>2. g \in [0 .. m + 1 -> S]
    <3>1. F[m + 1][f[m]] \in S
      OBVIOUS
    <3>2. ASSUME NEW n \in 0 .. m + 1, n # m + 1 PROVE f[n] \in S
      BY <3>2
    <3>3. QED
      BY <3>1, <3>2
  <2>3. g[0] = base
    BY <2>1
  <2>4. ASSUME NEW n \in 1 .. m + 1 PROVE g[n] = F[n][g[n - 1]]
    <3>1. CASE n = m + 1
      BY <3>1
    <3>2. CASE n # m + 1
      <4>1. g[n] = f[n] /\ g[n - 1] = f[n - 1] /\ n \in 1 .. m
        BY <3>2
      <4>2. QED
        BY <2>1, <4>1
    <3>3. QED
      BY <3>1, <3>2
  <2> HIDE DEF g
  <2>5. Runs(m + 1, g) /\ m + 1 \in 0 .. N
    BY <2>3, <2>4
  <2> HIDE DEF Runs
  <2>6. QED
    BY <1>0, <2>2, <2>5
<1> HIDE DEF Runs
<1>3. \A n \in 0 .. N : n \in G
  BY <1>1, <1>2, InductionTo
<1>4. N \in 0 .. N
  OBVIOUS
<1>5. QED
  BY <1>0, <1>3, <1>4 DEF Runs, IsLoop

-----------------------------------------------------------------------------
(* One parameter.                                                            *)

\* The statements with the parameters P.
Statements(P) ==
  [prepared: BOOLEAN, params: [P -> Bound], busy: BOOLEAN,
   status: Statuses, errcode: Statuses]

\* Every bind to s is refused.
Refuses(s) == s.busy \/ ~s.prepared

\* What becomes of the parameter that v is bound to, if there is one.
Kept(s, i, v) == IF Refuses(s) \/ v \in Unsupported THEN s.params[i] ELSE OrNull(v)

\* t is s after v was bound to parameter i, or refused.
Binds(P, s, t, i, v) ==
  /\ t.busy = s.busy /\ t.prepared = s.prepared
  /\ \A j \in P : t.params[j] = IF j = i THEN Kept(s, j, v) ELSE s.params[j]
  /\ t.status \in {"ok", "error", "misuse", "range", "toobig"}
  /\ t.status = "ok" <=> ~Refuses(s) /\ i \in P /\ v \in Bound
  /\ t.errcode = IF t.status = "error" \/ ~s.prepared THEN s.errcode ELSE t.status
  /\ ~s.prepared => t.status \in {"error", "misuse"}

LEMMA OneBind ==
  ASSUME NEW P, NEW s \in Statements(P), NEW i, NEW v \in Values
  PROVE  BindCFType(s, i, v) \in Statements(P) /\ Binds(P, s, BindCFType(s, i, v), i, v)
<1> DEFINE t == BindCFType(s, i, v)
           refusal == Refusal(s, i, v)
           next == CASE refusal = "ok"     -> [s.params EXCEPT ![i] = v]
                     [] refusal = "toobig" -> [s.params EXCEPT ![i] = Null]
                     [] OTHER              -> s.params
           code == IF refusal = "error" \/ ~s.prepared THEN s.errcode ELSE refusal
<1>1. /\ s.params \in [P -> Bound] /\ s.busy \in BOOLEAN /\ s.errcode \in Statuses
      /\ s.prepared \in BOOLEAN
      /\ s = [prepared |-> s.prepared, params |-> s.params, busy |-> s.busy,
              status |-> s.status, errcode |-> s.errcode]
      /\ DOMAIN s.params = P
  BY DEF Statements
<1>2. t = [prepared |-> s.prepared, params |-> next, busy |-> s.busy,
           status |-> refusal, errcode |-> code]
  <2>1. t = [s EXCEPT !.status = refusal, !.errcode = code, !.params = next]
    BY Zenon DEF BindCFType
  <2> HIDE DEF t, refusal, code, next
  <2>2. QED
    BY <1>1, <2>1
<1>3. /\ refusal \in {"ok", "error", "misuse", "range", "toobig"}
      /\ refusal = "error" <=> v \in Unsupported
      /\ refusal = "ok" <=> ~Refuses(s) /\ i \in P /\ v \in Bound
      /\ refusal = "toobig" <=> ~Refuses(s) /\ i \in P /\ v \in TooBig
      /\ ~s.prepared => refusal \in {"error", "misuse"}
  <2>1. CASE v \in Unsupported
    BY <2>1, ConstantsAssumption DEF Refusal, Refuses, Values, Bound
  <2>2. CASE v \notin Unsupported /\ Refuses(s)
    BY <1>1, <2>2, ConstantsAssumption DEF Refusal, Refuses, Values, Bound
  <2>3. CASE v \notin Unsupported /\ ~Refuses(s) /\ i \notin P
    BY <1>1, <2>3, ConstantsAssumption DEF Refusal, Refuses, Values, Bound
  <2>4. CASE v \notin Unsupported /\ ~Refuses(s) /\ i \in P
    BY <1>1, <2>4, ConstantsAssumption DEF Refusal, Refuses, Values, Bound
  <2>5. QED
    BY <1>1, <2>1, <2>2, <2>3, <2>4
<1> HIDE DEF refusal
<1>4. next \in [P -> Bound]
  BY <1>1, <1>3 DEF Bound
<1>5. \A j \in P : next[j] = IF j = i THEN Kept(s, j, v) ELSE s.params[j]
  <2>1. CASE refusal = "ok"
    BY <1>1, <1>3, <2>1, ConstantsAssumption DEF Kept, OrNull, Bound
  <2>2. CASE refusal = "toobig"
    BY <1>1, <1>3, <2>2, ConstantsAssumption DEF Kept, OrNull, Bound
  <2>3. CASE refusal \notin {"ok", "toobig"}
    <3>1. next = s.params
      BY <2>3
    <3>2. i \in P => Refuses(s) \/ v \in Unsupported
      BY <1>3, <2>3 DEF Values, Bound
    <3>3. QED
      BY <3>1, <3>2 DEF Kept
  <2>4. QED
    BY <2>1, <2>2, <2>3
<1> HIDE DEF next
<1>6. code \in Statuses /\ refusal \in Statuses
  BY <1>1, <1>3 DEF Statuses
<1>7. /\ t.params = next /\ t.busy = s.busy /\ t.status = refusal /\ t.errcode = code
      /\ t.prepared = s.prepared
      /\ t \in Statements(P)
  BY <1>1, <1>2, <1>4, <1>6 DEF Statements
<1> HIDE DEF t
<1>8. QED
  BY <1>3, <1>5, <1>7 DEF Binds, t

LEMMA FreshStatement ==
  ASSUME NEW P
  PROVE  /\ NewStatement(P) \in Statements(P) /\ NewStatement(P).status = "ok"
         /\ ~Refuses(NewStatement(P)) /\ NewStatement(P).errcode = "ok"
         /\ \A i \in P : NewStatement(P).params[i] = Null
  BY DEF NewStatement, Statements, Refuses, Bound, Statuses

LEMMA CurrentStatement ==
  ASSUME TypeOK
  PROVE  /\ Current \in Statements(DOMAIN query) /\ Current.status = "ok"
         /\ (Refuses(Current) <=> busy \/ ~prepared) /\ Current.prepared = prepared
         /\ Current.errcode = errcode /\ Current.params = params
  BY DEF Current, TypeOK, Statements, Refuses, Statuses

-----------------------------------------------------------------------------
(* The loop over an array.                                                   *)

\* One round of the loop.
ArrayRound(s, values, n) == IF s.status # "ok" THEN s ELSE BindCFType(s, n, values[n])

\* t is s after the loop went through the first m values and bound n of them.
BoundOf(P, s, t, values, m, n) ==
  /\ \A i \in 1 .. n : i \in P /\ ~Refuses(s) /\ values[i] \in Bound /\ t.params[i] = values[i]
  /\ t.status = "ok" <=> n = m
  /\ n # m => n + 1 \in 1 .. m /\ ~(~Refuses(s) /\ n + 1 \in P /\ values[n + 1] \in Bound)
  /\ \A i \in P : i > n => t.params[i] = IF i = n + 1 /\ n # m THEN Kept(s, i, values[i])
                                         ELSE s.params[i]
  /\ t.busy = s.busy /\ t.prepared = s.prepared
  /\ t.status \in {"ok", "error", "misuse", "range", "toobig"}
  /\ t.status = "ok" => t.errcode = "ok" \/ t.errcode = s.errcode
  /\ t.status \notin {"ok", "error"} => \/ t.errcode = t.status
                                        \/ ~s.prepared /\ t.status = "misuse"

\* The recursive function of ArrayBound has a value for every array.
LEMMA ArrayLoop ==
  ASSUME NEW P, NEW s \in Statements(P), NEW N \in Nat, NEW values \in [1 .. N -> Values],
         Len(values) = N
  PROVE  \E f \in [0 .. N -> Statements(P)] :
           /\ ArrayBound(s, values) = f[N] /\ f[0] = s
           /\ \A n \in 1 .. N : f[n] = ArrayRound(f[n - 1], values, n)
<1> DEFINE S == Statements(P)
           Body(f) == [n \in 0 .. Len(values) |->
                         IF n = 0 THEN s
                         ELSE IF f[n - 1].status # "ok" THEN f[n - 1]
                         ELSE BindCFType(f[n - 1], n, values[n])]
           F == [n \in 1 .. N |-> [t \in S |-> ArrayRound(t, values, n)]]
<1>1. \A n \in 1 .. N : \A t \in S : ArrayRound(t, values, n) \in S
  BY OneBind DEF ArrayRound
<1>2. F \in Rounds(N, S)
  BY <1>1 DEF Rounds
<1>3. PICK f : IsLoop(N, S, s, F, f)
  <2> HIDE DEF F, S
  <2>1. s \in S
    BY DEF S
  <2>2. QED
    BY <1>2, <2>1, LoopExists
<1>4. \A n \in 1 .. N : f[n] = ArrayRound(f[n - 1], values, n)
  <2>1. \A n \in 1 .. N : \A t \in S : F[n][t] = ArrayRound(t, values, n)
    OBVIOUS
  <2>2. \A n \in 1 .. N : f[n - 1] \in S
    <3> HIDE DEF S
    <3>1. \A n \in 1 .. N : n - 1 \in 0 .. N
      OBVIOUS
    <3>2. QED
      BY <1>3, <3>1 DEF IsLoop
  <2> HIDE DEF F, S
  <2>3. QED
    BY <1>3, <2>1, <2>2 DEF IsLoop
<1>5. f = Body(f)
  BY <1>3, <1>4 DEF ArrayRound, IsLoop
<1> DEFINE after == CHOOSE g : g = Body(g)
<1>6. after = Body(after)
  BY <1>5, Zenon
<1>7. ArrayBound(s, values) = after[Len(values)]
  BY Zenon DEF ArrayBound
<1>8. /\ after[0] = s /\ DOMAIN after = 0 .. N
      /\ \A n \in 1 .. N : after[n] = ArrayRound(after[n - 1], values, n)
  <2> HIDE DEF after
  <2>1. QED
    BY <1>6 DEF ArrayRound
<1> HIDE DEF after, Body, F
<1>9. \A n \in 0 .. N : n \in {k \in 0 .. N : after[k] = f[k]}
  <2> DEFINE T == {k \in 0 .. N : after[k] = f[k]}
  <2>1. 0 \in T
    BY <1>3, <1>8 DEF IsLoop
  <2>2. ASSUME NEW n \in 0 .. N - 1, n \in T PROVE n + 1 \in T
    <3>1. n + 1 \in 1 .. N /\ (n + 1) - 1 = n /\ n + 1 \in 0 .. N
      OBVIOUS
    <3>2. after[n + 1] = f[n + 1]
      BY <1>4, <1>8, <2>2, <3>1
    <3>3. QED
      BY <3>1, <3>2
  <2> HIDE DEF T
  <2>3. \A n \in 0 .. N : n \in T
    BY <2>1, <2>2, InductionTo
  <2>4. QED
    BY <2>3 DEF T
<1>10. ArrayBound(s, values) = f[N]
  BY <1>7, <1>9
<1>11. QED
  BY <1>3, <1>4, <1>10 DEF IsLoop

LEMMA ArrayOutcome ==
  ASSUME NEW P \in SUBSET Nat, NEW s \in Statements(P), s.status = "ok",
         NEW N \in Nat, NEW values \in [1 .. N -> Values], Len(values) = N
  PROVE  /\ ArrayBound(s, values) \in Statements(P)
         /\ \E n \in 0 .. N : BoundOf(P, s, ArrayBound(s, values), values, N, n)
<1>1. PICK f \in [0 .. N -> Statements(P)] :
        /\ ArrayBound(s, values) = f[N] /\ f[0] = s
        /\ \A n \in 1 .. N : f[n] = ArrayRound(f[n - 1], values, n)
  BY ArrayLoop
<1> DEFINE T == {m \in 0 .. N : \E n \in 0 .. m : BoundOf(P, s, f[m], values, m, n)}
<1>2. \A m : m \in T <=> m \in 0 .. N /\ \E n \in 0 .. m : BoundOf(P, s, f[m], values, m, n)
  BY Zenon
<1> HIDE DEF T
<1>3. 0 \in T
  <2>1. BoundOf(P, s, f[0], values, 0, 0)
    BY <1>1 DEF BoundOf
  <2>2. QED
    BY <1>2, <2>1
<1>4. ASSUME NEW m \in 0 .. N - 1, m \in T PROVE m + 1 \in T
  <2>1. PICK n \in 0 .. m : BoundOf(P, s, f[m], values, m, n)
    BY <1>2, <1>4
  <2> DEFINE t == f[m]
             u == f[m + 1]
             v == values[m + 1]
  <2>2. u = ArrayRound(t, values, m + 1) /\ t \in Statements(P) /\ v \in Values
    BY <1>1
  <2>3. CASE t.status # "ok"
    <3>1. u = t /\ n # m
      BY <2>1, <2>2, <2>3 DEF ArrayRound, BoundOf
    <3>2. BoundOf(P, s, u, values, m + 1, n)
      BY <2>1, <2>3, <3>1 DEF BoundOf
    <3>3. QED
      BY <1>2, <3>2
  <2>4. CASE t.status = "ok"
    <3>1. /\ n = m /\ Binds(P, t, u, m + 1, v)
          /\ t.busy = s.busy /\ t.prepared = s.prepared
          /\ t.errcode = "ok" \/ t.errcode = s.errcode
          /\ \A i \in 1 .. m : i \in P /\ ~Refuses(s) /\ values[i] \in Bound /\ t.params[i] = values[i]
          /\ \A i \in P : i > m => t.params[i] = s.params[i]
      BY <2>1, <2>2, <2>4, OneBind DEF ArrayRound, BoundOf
    <3> HIDE DEF t, u
    <3>2. \A i \in 1 .. m : u.params[i] = values[i]
      BY <3>1 DEF Binds
    <3>3. \A i \in P : i > m + 1 => u.params[i] = s.params[i]
      BY <3>1 DEF Binds
    <3>4. m + 1 \in P => u.params[m + 1] = Kept(s, m + 1, v)
      BY <3>1 DEF Binds, Kept, Refuses
    <3>5. /\ u.status = "ok" <=> ~Refuses(s) /\ m + 1 \in P /\ v \in Bound
          /\ u.busy = s.busy /\ u.prepared = s.prepared
          /\ u.status \in {"ok", "error", "misuse", "range", "toobig"}
          /\ u.errcode = IF u.status = "error" \/ ~s.prepared THEN t.errcode ELSE u.status
          /\ ~s.prepared => u.status \in {"error", "misuse"}
      BY <3>1 DEF Binds, Refuses
    <3>6. CASE u.status = "ok"
      <4>1. m + 1 \in P /\ u.params[m + 1] = v
        BY <3>4, <3>5, <3>6, ConstantsAssumption DEF Kept, OrNull, Bound
      <4>2. BoundOf(P, s, u, values, m + 1, m + 1)
        BY <3>1, <3>2, <3>3, <3>5, <3>6, <4>1 DEF BoundOf
      <4>3. QED
        BY <1>2, <4>2 DEF u
    <3>7. CASE u.status # "ok"
      <4>1. ~(~Refuses(s) /\ m + 1 \in P /\ values[m + 1] \in Bound)
        BY <3>5, <3>7
      <4>2. \A i \in P : i > m => u.params[i] = IF i = m + 1 THEN Kept(s, i, values[i])
                                                ELSE s.params[i]
        <5>1. ASSUME NEW i \in P, i > m, i # m + 1 PROVE i > m + 1
          BY <5>1
        <5>2. QED
          BY <3>3, <3>4, <5>1 DEF v
      <4>3. BoundOf(P, s, u, values, m + 1, m)
        BY <3>1, <3>2, <3>5, <3>7, <4>1, <4>2 DEF BoundOf
      <4>4. QED
        BY <1>2, <4>3 DEF u
    <3>8. QED
      BY <3>6, <3>7
  <2>5. QED
    BY <2>3, <2>4
<1>5. \A m \in 0 .. N : m \in T
  BY <1>3, <1>4, InductionTo
<1>6. N \in T /\ f[N] \in Statements(P)
  BY <1>5
<1>7. QED
  BY <1>1, <1>2, <1>6

-----------------------------------------------------------------------------
(* The loop over a dictionary.                                               *)

DictionaryRound(s, d, n) == BindCFType(s, n, LookedUp(d, n))

\* t is s after the loop went through the first m parameters.
MentionedIn(P, s, t, d, m) ==
  /\ \A i \in P : t.params[i] = IF i <= m THEN Kept(s, i, LookedUp(d, i)) ELSE s.params[i]
  /\ t.busy = s.busy /\ t.prepared = s.prepared
  /\ t.status \in {"ok", "error", "misuse", "range", "toobig"}
  /\ t.status = "ok" => t.errcode = "ok" \/ t.errcode = s.errcode
  /\ t.status \notin {"ok", "error"} => \/ t.errcode = t.status
                                        \/ ~s.prepared /\ t.status = "misuse"

Named == query \in Seq({NoName} \cup Keys)

LEMMA ParametersOfQuery ==
  ASSUME TypeOK
  PROVE  Named
  BY ConstantsAssumption DEF TypeOK, Named

LEMMA LookedUpIsMeant ==
  ASSUME Named, NEW d \in Dictionaries, NEW i \in DOMAIN query
  PROVE  LookedUp(d, i) = Meant(d, i) /\ LookedUp(d, i) \in Values
<1>1. PICK K \in SUBSET Keys : d \in [K -> Values]
  BY DEF Dictionaries
<1> DEFINE bare == <<"", query[i][2]>>
<1>2. WithoutPrefix(query[i]) = bare /\ bare[1] = "" /\ bare[2] = query[i][2]
  BY DEF WithoutPrefix
<1>3. (\E k \in DOMAIN d : k[1] = "" /\ k[2] = query[i][2]) <=> bare \in DOMAIN d
  <2>1. ASSUME NEW k \in DOMAIN d, k[1] = "", k[2] = query[i][2] PROVE bare \in DOMAIN d
    <3>1. k = <<k[1], k[2]>>
      BY <1>1, ConstantsAssumption
    <3>2. QED
      BY <2>1, <3>1
  <2>2. QED
    BY <1>2, <2>1
<1> HIDE DEF bare
<1>4. LookedUp(d, i) = IF query[i] = NoName \/ bare \notin DOMAIN d THEN Null ELSE d[bare]
  BY <1>2 DEF LookedUp
<1>5. Meant(d, i) = IF bare \in DOMAIN d /\ query[i] # NoName THEN d[bare] ELSE Null
  BY <1>3 DEF Meant, bare
<1>6. LookedUp(d, i) \in Values
  BY <1>1, <1>4 DEF Values
<1>7. QED
  BY <1>4, <1>5, <1>6

LEMMA DictionaryLoop ==
  ASSUME Named, NEW s \in Statements(DOMAIN query), NEW d \in Dictionaries
  PROVE  \E f \in [0 .. Len(query) -> Statements(DOMAIN query)] :
           /\ DictionaryBound(s, d) = f[Len(query)] /\ f[0] = s
           /\ \A n \in 1 .. Len(query) : f[n] = DictionaryRound(f[n - 1], d, n)
<1> DEFINE N == Len(query)
           S == Statements(DOMAIN query)
           Body(f) == [n \in 0 .. Len(query) |->
                         IF n = 0 THEN s
                         ELSE BindCFType(f[n - 1], n, LookedUp(d, n))]
           F == [n \in 1 .. N |-> [t \in S |-> DictionaryRound(t, d, n)]]
<1>1. N \in Nat /\ DOMAIN query = 1 .. N
  BY DEF Named
<1> HIDE DEF N
<1>2. \A n \in 1 .. N : \A t \in S : DictionaryRound(t, d, n) \in S
  <2>1. \A n \in 1 .. N : LookedUp(d, n) \in Values
    BY <1>1, LookedUpIsMeant
  <2>2. QED
    BY <2>1, OneBind DEF DictionaryRound
<1>3. F \in Rounds(N, S)
  BY <1>2 DEF Rounds
<1>4. PICK f : IsLoop(N, S, s, F, f)
  <2> HIDE DEF F, S
  <2>1. s \in S
    BY DEF S
  <2>2. QED
    BY <1>1, <1>3, <2>1, LoopExists
<1>5. \A n \in 1 .. N : f[n] = DictionaryRound(f[n - 1], d, n)
  <2>1. \A n \in 1 .. N : \A t \in S : F[n][t] = DictionaryRound(t, d, n)
    OBVIOUS
  <2>2. \A n \in 1 .. N : f[n - 1] \in S
    <3> HIDE DEF S
    <3>1. \A n \in 1 .. N : n - 1 \in 0 .. N
      BY <1>1
    <3>2. QED
      BY <1>4, <3>1 DEF IsLoop
  <2> HIDE DEF F, S
  <2>3. QED
    BY <1>4, <2>1, <2>2 DEF IsLoop
<1>6. f = Body(f)
  <2>1. Body(f) = [n \in 0 .. N |-> IF n = 0 THEN s
                                    ELSE BindCFType(f[n - 1], n, LookedUp(d, n))]
    BY DEF N
  <2> HIDE DEF Body
  <2>2. QED
    BY <1>1, <1>4, <1>5, <2>1 DEF DictionaryRound, IsLoop
<1> DEFINE after == CHOOSE g : g = Body(g)
<1>7. after = Body(after)
  BY <1>6, Zenon
<1>8. DictionaryBound(s, d) = after[N]
  BY Zenon DEF DictionaryBound, N
<1>9. /\ after[0] = s
      /\ \A n \in 1 .. N : after[n] = DictionaryRound(after[n - 1], d, n)
  <2> HIDE DEF after
  <2>1. after = [n \in 0 .. N |-> IF n = 0 THEN s
                                  ELSE BindCFType(after[n - 1], n, LookedUp(d, n))]
    BY <1>7 DEF N
  <2>2. QED
    BY <1>1, <2>1 DEF DictionaryRound
<1> HIDE DEF after, Body, F, S
<1>10. \A n \in 0 .. N : n \in {k \in 0 .. N : after[k] = f[k]}
  <2> DEFINE T == {k \in 0 .. N : after[k] = f[k]}
  <2>1. 0 \in T
    BY <1>1, <1>4, <1>9 DEF IsLoop
  <2>2. ASSUME NEW n \in 0 .. N - 1, n \in T PROVE n + 1 \in T
    <3>1. n + 1 \in 1 .. N /\ (n + 1) - 1 = n /\ n + 1 \in 0 .. N
      BY <1>1
    <3>2. after[n + 1] = f[n + 1]
      BY <1>5, <1>9, <2>2, <3>1
    <3>3. QED
      BY <3>1, <3>2
  <2> HIDE DEF T
  <2>3. \A n \in 0 .. N : n \in T
    BY <1>1, <2>1, <2>2, InductionTo
  <2>4. QED
    BY <2>3 DEF T
<1>11. DictionaryBound(s, d) = f[N]
  BY <1>1, <1>8, <1>10
<1>12. QED
  BY <1>4, <1>5, <1>11 DEF IsLoop, N, S

LEMMA DictionaryOutcome ==
  ASSUME Named, NEW s \in Statements(DOMAIN query), s.status = "ok", NEW d \in Dictionaries
  PROVE  /\ DictionaryBound(s, d) \in Statements(DOMAIN query)
         /\ MentionedIn(DOMAIN query, s, DictionaryBound(s, d), d, Len(query))
<1> DEFINE N == Len(query)
           P == DOMAIN query
<1>1. N \in Nat /\ P = 1 .. N
  BY DEF Named
<1>2. PICK f \in [0 .. N -> Statements(P)] :
        /\ DictionaryBound(s, d) = f[N] /\ f[0] = s
        /\ \A n \in 1 .. N : f[n] = DictionaryRound(f[n - 1], d, n)
  BY DictionaryLoop
<1> DEFINE T == {m \in 0 .. N : MentionedIn(P, s, f[m], d, m)}
<1>3. \A i \in P : LookedUp(d, i) \in Values
  BY LookedUpIsMeant
<1>4. \A m : m \in T <=> m \in 0 .. N /\ MentionedIn(P, s, f[m], d, m)
  BY Zenon
<1> HIDE DEF T, N, P
<1>5. 0 \in T
  <2>1. MentionedIn(P, s, f[0], d, 0)
    BY <1>1, <1>2 DEF MentionedIn
  <2>2. QED
    BY <1>1, <1>4, <2>1
<1>6. ASSUME NEW m \in 0 .. N - 1, m \in T PROVE m + 1 \in T
  <2> DEFINE t == f[m]
             u == f[m + 1]
             v == LookedUp(d, m + 1)
  <2>1. m + 1 \in P /\ m + 1 \in 1 .. N /\ m \in 0 .. N /\ m + 1 \in 0 .. N
    BY <1>1
  <2>2. MentionedIn(P, s, t, d, m)
    BY <1>4, <1>6
  <2>3. Binds(P, t, u, m + 1, v)
    <3>1. u = BindCFType(t, m + 1, v) /\ t \in Statements(P) /\ v \in Values
      BY <1>2, <1>3, <2>1 DEF DictionaryRound
    <3> HIDE DEF t, u, v
    <3>2. QED
      BY <3>1, OneBind
  <2> HIDE DEF t, u
  <2>4. ASSUME NEW i \in P
        PROVE  u.params[i] = IF i <= m + 1 THEN Kept(s, i, LookedUp(d, i)) ELSE s.params[i]
    <3>1. CASE i = m + 1
      <4>1. u.params[i] = Kept(t, i, v) /\ t.params[i] = s.params[i]
            /\ (Refuses(t) <=> Refuses(s))
        BY <2>2, <2>3, <3>1 DEF Binds, MentionedIn, Refuses
      <4>2. QED
        BY <3>1, <4>1 DEF Kept
    <3>2. CASE i # m + 1
      <4>1. u.params[i] = t.params[i] /\ (i <= m + 1 <=> i <= m)
        BY <1>1, <2>1, <2>3, <3>2 DEF Binds
      <4>2. QED
        BY <2>2, <4>1 DEF MentionedIn
    <3>3. QED
      BY <3>1, <3>2
  <2>5. MentionedIn(P, s, u, d, m + 1)
    BY <2>2, <2>3, <2>4 DEF Binds, MentionedIn
  <2>6. QED
    BY <1>4, <2>1, <2>5 DEF u
<1>7. \A m \in 0 .. N : m \in T
  BY <1>1, <1>5, <1>6, InductionTo
<1>8. N \in T /\ f[N] \in Statements(P)
  BY <1>1, <1>7
<1>9. QED
  BY <1>2, <1>4, <1>8 DEF N, P

-----------------------------------------------------------------------------
(* The insert.                                                               *)

\* However CoreFoundation orders the keys, each is there once.
LEMMA EveryKeyOnce ==
  ASSUME NEW d \in Rows, NEW e \in Enumerations(d)
  PROVE  LET N == Cardinality(DOMAIN d)
         IN  /\ N \in Nat /\ e \in [1 .. N -> DOMAIN d]
             /\ \A i, j \in 1 .. N : e[i] = e[j] => i = j
             /\ \A c \in DOMAIN d : \E i \in 1 .. N : e[i] = c
<1> DEFINE D == DOMAIN d
           N == Cardinality(D)
<1>1. IsFiniteSet(D) /\ N \in Nat
  <2>1. IsFiniteSet(Columns) /\ D \in SUBSET Columns
    BY ConstantsAssumption DEF Rows
  <2>2. IsFiniteSet(D)
    BY <2>1, FS_Subset
  <2>3. QED
    BY <2>2, FS_CardinalityType
<1>2. e \in [1 .. N -> D] /\ \A i, j \in 1 .. N : e[i] = e[j] => i = j
  BY DEF Enumerations
<1>3. Cardinality(1 .. N) = N
  BY <1>1, FS_Interval
<1> HIDE DEF D, N
<1>4. e \in Injection(1 .. N, D)
  BY <1>2 DEF Injection, IsInjective
<1>5. e \in Surjection(1 .. N, D)
  <2>1. Cardinality(1 .. N) = Cardinality(D)
    BY <1>3 DEF N
  <2>2. QED
    BY <1>1, <1>4, <2>1, FS_Injection
<1>6. \A c \in D : \E i \in 1 .. N : e[i] = c
  BY <1>5 DEF Surjection
<1>7. QED
  BY <1>1, <1>2, <1>6 DEF D, N

\* What an insert stores: up to some place in the order of the keys their values,
\* and NULL from there on.
LEMMA InsertOutcome ==
  ASSUME NEW d \in Rows, NEW e \in Enumerations(d)
  PROVE  \E n \in 0 .. Cardinality(DOMAIN d) : \E at \in [DOMAIN d -> 1 .. Cardinality(DOMAIN d)] :
           /\ \A c \in DOMAIN d : e[at[c]] = c
           /\ \A i \in 1 .. Cardinality(DOMAIN d) : e[i] \in DOMAIN d /\ at[e[i]] = i
           /\ Cardinality(DOMAIN d) \in Nat
           /\ Inserted(d, e) \in [DOMAIN d -> Bound]
           /\ \A c \in DOMAIN d : Inserted(d, e)[c] = IF at[c] <= n THEN d[c] ELSE Null
           /\ \A c \in DOMAIN d : at[c] <= n => d[c] \in Bound
           /\ \A c \in DOMAIN d : at[c] = n + 1 => d[c] \notin Bound
<1> DEFINE N == Cardinality(DOMAIN d)
           P == 1 .. N
           D == DOMAIN d
           values == [i \in DOMAIN e |-> d[e[i]]]
           s == NewStatement(P)
           t == ArrayBound(s, values)
           at == [c \in D |-> CHOOSE i \in P : e[i] = c]
<1>1. /\ N \in Nat /\ e \in [P -> D]
      /\ \A i, j \in P : e[i] = e[j] => i = j
      /\ \A c \in D : \E i \in P : e[i] = c
  BY EveryKeyOnce
<1>2. at \in [D -> P] /\ \A c \in D : e[at[c]] = c
  <2>1. ASSUME NEW c \in D PROVE at[c] \in P /\ e[at[c]] = c
    BY <1>1
  <2>2. QED
    BY <2>1
<1>3. \A i \in P : e[i] \in D /\ at[e[i]] = i
  BY <1>1, <1>2
<1>4. d \in [D -> Values]
  BY DEF Rows
<1>5. /\ values \in [P -> Values] /\ Len(values) = N /\ DOMAIN e = P
      /\ \A i \in P : values[i] = d[e[i]]
  <2>1. DOMAIN e = P
    BY <1>1
  <2>2. \A i \in P : e[i] \in D /\ d[e[i]] \in Values
    BY <1>3, <1>4
  <2>3. values \in [P -> Values] /\ \A i \in P : values[i] = d[e[i]]
    BY <2>1, <2>2
  <2> HIDE DEF values
  <2>4. Len(values) = N
    BY <1>1, <2>3
  <2>5. QED
    BY <2>1, <2>3, <2>4
<1>6. Inserted(d, e) = [c \in D |-> t.params[at[c]]]
  <2> DEFINE With(Q) ==
               [c \in D |-> ArrayBound(NewStatement(Q), values).params[CHOOSE i \in Q : e[i] = c]]
  <2>1. Inserted(d, e) = With(DOMAIN e)
    BY DEF Inserted
  <2>2. With(P) = [c \in D |-> t.params[at[c]]]
    <3> HIDE DEF values
    <3>1. QED
      OBVIOUS
  <2> HIDE DEF With
  <2>3. QED
    BY <1>5, <2>1, <2>2
<1>7. /\ s \in Statements(P) /\ s.status = "ok" /\ ~Refuses(s)
      /\ \A i \in P : s.params[i] = Null
  BY FreshStatement
<1> HIDE DEF s, at, values, D
<1>8. t \in Statements(P) /\ \E n \in 0 .. N : BoundOf(P, s, t, values, N, n)
  <2>1. P \in SUBSET Nat
    OBVIOUS
  <2> HIDE DEF P
  <2>2. QED
    BY <1>1, <1>5, <1>7, <2>1, ArrayOutcome DEF P
<1>9. PICK n \in 0 .. N : BoundOf(P, s, t, values, N, n)
  BY <1>8
<1>10. /\ \A i \in 1 .. n : values[i] \in Bound /\ t.params[i] = values[i]
       /\ n # N => n + 1 \in P /\ values[n + 1] \notin Bound
       /\ \A i \in P : i > n => t.params[i] = Null
  <2>1. \A i \in P : Kept(s, i, values[i]) = IF values[i] \in Unsupported THEN Null
                                             ELSE OrNull(values[i])
    BY <1>7 DEF Kept
  <2>2. n # N => n + 1 \in P /\ values[n + 1] \notin Bound
    BY <1>1, <1>7, <1>9 DEF BoundOf
  <2>3. ASSUME NEW i \in P, i > n PROVE t.params[i] = Null
    <3>1. CASE i = n + 1 /\ n # N
      <4>1. t.params[i] = Kept(s, i, values[i])
        BY <1>9, <2>3, <3>1 DEF BoundOf
      <4>2. QED
        BY <2>1, <2>2, <3>1, <4>1 DEF OrNull
    <3>2. CASE ~(i = n + 1 /\ n # N)
      <4>1. t.params[i] = s.params[i]
        BY <1>9, <2>3, <3>2 DEF BoundOf
      <4>2. QED
        BY <1>7, <4>1
    <3>3. QED
      BY <3>1, <3>2
  <2>4. \A i \in 1 .. n : values[i] \in Bound /\ t.params[i] = values[i]
    BY <1>9 DEF BoundOf
  <2>5. QED
    BY <2>2, <2>3, <2>4
<1> HIDE DEF t
<1>11. ASSUME NEW c \in D
       PROVE  /\ Inserted(d, e)[c] = IF at[c] <= n THEN d[c] ELSE Null
              /\ at[c] <= n => d[c] \in Bound
              /\ at[c] = n + 1 => d[c] \notin Bound
  <2>1. at[c] \in P /\ values[at[c]] = d[c] /\ Inserted(d, e)[c] = t.params[at[c]]
    BY <1>2, <1>5, <1>6
  <2>2. CASE at[c] <= n
    <3>1. at[c] \in 1 .. n /\ at[c] # n + 1
      BY <1>1, <2>1, <2>2
    <3>2. QED
      BY <1>10, <2>1, <2>2, <3>1
  <2>3. CASE ~(at[c] <= n)
    <3>1. at[c] > n /\ (at[c] = n + 1 => n # N)
      BY <1>1, <2>1, <2>3
    <3>2. QED
      BY <1>10, <2>1, <2>3, <3>1
  <2>4. QED
    BY <2>2, <2>3
<1>12. Inserted(d, e) \in [D -> Bound]
  <2>1. ASSUME NEW c \in D PROVE Inserted(d, e)[c] \in Bound
    BY <1>11 DEF Bound
  <2>2. QED
    BY <1>6, <2>1
<1>13. QED
  BY <1>1, <1>2, <1>3, <1>11, <1>12 DEF D

-----------------------------------------------------------------------------
(* Types.                                                                    *)

LEMMA LengthOfArray ==
  ASSUME NEW values \in Arrays
  PROVE  Len(values) \in Nat /\ values \in [1 .. Len(values) -> Values]
<1>1. PICK n \in 0 .. MaxLen : values \in [1 .. n -> Values]
  BY DEF Arrays
<1>2. Len(values) = n /\ n \in Nat
  BY <1>1, ConstantsAssumption
<1>3. QED
  BY <1>1, <1>2

LEMMA NumbersOfParameters ==
  ASSUME TypeOK
  PROVE  DOMAIN query \in SUBSET Nat /\ DOMAIN query = 1 .. Len(query) /\ Len(query) \in Nat
  BY ParametersOfQuery DEF Named

\* The statements that the calls bind are of the type, and so is the result.
LEMMA ArrayBoundType ==
  ASSUME TypeOK, NEW s \in Statements(DOMAIN query), s.status = "ok", NEW values \in Arrays
  PROVE  /\ ArrayBound(s, values) \in Statements(DOMAIN query)
         /\ \E n \in 0 .. Len(values) :
              BoundOf(DOMAIN query, s, ArrayBound(s, values), values, Len(values), n)
<1>1. Len(values) \in Nat /\ values \in [1 .. Len(values) -> Values]
  BY LengthOfArray
<1>2. DOMAIN query \in SUBSET Nat
  BY NumbersOfParameters
<1>3. QED
  BY <1>1, <1>2, ArrayOutcome

LEMMA BecomesType ==
  ASSUME TypeOK, NEW s \in Statements(DOMAIN query), Becomes(s)
  PROVE  TypeOK'
<1>1. ran' \in [DOMAIN query -> Bound] /\ row' = Nothing
      /\ query' = query /\ busy' = busy /\ prepared' = prepared
  BY DEF Becomes, Forget, Unbound, Bound
<1>2. params' \in [DOMAIN query -> Bound] /\ status' \in Statuses /\ errcode' \in Statuses
  BY DEF Becomes, Statements
<1>3. Nothing \in [{} -> Bound] /\ {} \in SUBSET Columns
  BY DEF Nothing
<1>4. QED
  BY <1>1, <1>2, <1>3 DEF TypeOK

\* The calls that bind leave a statement in the type.
LEMMA BindingCalls ==
  ASSUME TypeOK
  PROVE  /\ \A v \in Values : \A i : BindCFType(Current, i, v) \in Statements(DOMAIN query)
         /\ \A values \in Arrays :
              /\ ArrayBound(Current, values) \in Statements(DOMAIN query)
              /\ ArrayBound(Fresh, values) \in Statements(DOMAIN query)
         /\ \A d \in Dictionaries :
              /\ DictionaryBound(Current, d) \in Statements(DOMAIN query)
              /\ DictionaryBound(Fresh, d) \in Statements(DOMAIN query)
<1>1. Current \in Statements(DOMAIN query) /\ Current.status = "ok"
  BY CurrentStatement
<1>2. Fresh \in Statements(DOMAIN query) /\ Fresh.status = "ok"
  BY FreshStatement DEF Fresh
<1>3. Named
  BY ParametersOfQuery
<1>4. \A v \in Values : \A i : BindCFType(Current, i, v) \in Statements(DOMAIN query)
  BY <1>1, OneBind
<1>5. \A values \in Arrays :
        /\ ArrayBound(Current, values) \in Statements(DOMAIN query)
        /\ ArrayBound(Fresh, values) \in Statements(DOMAIN query)
  BY <1>1, <1>2, ArrayBoundType
<1>6. \A d \in Dictionaries :
        /\ DictionaryBound(Current, d) \in Statements(DOMAIN query)
        /\ DictionaryBound(Fresh, d) \in Statements(DOMAIN query)
  BY <1>1, <1>2, <1>3, DictionaryOutcome
<1>7. QED
  BY <1>4, <1>5, <1>6

LEMMA InitType == Init => TypeOK
<1> SUFFICES ASSUME Init PROVE TypeOK
  OBVIOUS
<1>1. Unbound \in [DOMAIN query -> Bound]
  BY DEF Unbound, Bound
<1>2. Nothing \in [{} -> Bound] /\ {} \in SUBSET Columns
  BY DEF Nothing
<1>3. QED
  BY <1>1, <1>2 DEF Init, TypeOK, Statuses

LEMMA StepType == TypeOK /\ [Next]_vars => TypeOK'
<1> SUFFICES ASSUME TypeOK, [Next]_vars PROVE TypeOK'
  OBVIOUS
<1>1. Unbound \in [DOMAIN query -> Bound]
  BY DEF Unbound, Bound
<1>2. Nothing \in [{} -> Bound] /\ {} \in SUBSET Columns
  BY DEF Nothing
<1>3. ASSUME NEW v \in Values, NEW i, BindWithIndex(i, v) PROVE TypeOK'
  BY <1>3, BindingCalls, BecomesType DEF BindWithIndex
<1>4. ASSUME NEW v \in Values, NEW name \in Keys, BindWithName(name, v) PROVE TypeOK'
  BY <1>4, BindingCalls, BecomesType DEF BindWithName
<1>5. ASSUME NEW values \in Arrays, BindArray(values) PROVE TypeOK'
  BY <1>5, BindingCalls, BecomesType DEF BindArray
<1>6. ASSUME NEW d \in Dictionaries, BindDictionary(d) PROVE TypeOK'
  BY <1>6, BindingCalls, BecomesType DEF BindDictionary
<1>7. ASSUME StepAndThrowAway, ran' \in [DOMAIN query -> Bound],
             \E C \in SUBSET Columns : row' \in [C -> Bound]
      PROVE  TypeOK'
  BY <1>7 DEF StepAndThrowAway, TypeOK, Statuses
<1>8. ASSUME NEW values \in Arrays, ExecuteWithArrayBindings(values) PROVE TypeOK'
  <2>1. ArrayBound(Fresh, values) \in Statements(DOMAIN query)
    BY BindingCalls
  <2>2. QED
    BY <1>2, <1>7, <1>8, <2>1 DEF ExecuteWithArrayBindings, Statements
<1>9. ASSUME NEW d \in Dictionaries, ExecuteWithDictionaryBindings(d) PROVE TypeOK'
  <2>1. DictionaryBound(Fresh, d) \in Statements(DOMAIN query)
    BY BindingCalls
  <2>2. QED
    BY <1>2, <1>7, <1>9, <2>1 DEF ExecuteWithDictionaryBindings, Statements
<1>10. ASSUME NEW d \in Rows, InsertWithTableNameAndDictionary(d) PROVE TypeOK'
  <2>1. PICK e \in Enumerations(d) : row' = Inserted(d, e)
    BY <1>10 DEF InsertWithTableNameAndDictionary
  <2>2. row' \in [DOMAIN d -> Bound]
    BY <2>1, InsertOutcome
  <2>3. DOMAIN d \in SUBSET Columns
    BY DEF Rows
  <2>4. QED
    BY <1>1, <1>7, <1>10, <2>2, <2>3 DEF InsertWithTableNameAndDictionary
<1>11. CASE DoesNotCompile
  BY <1>1, <1>2, <1>11 DEF DoesNotCompile, Forget, TypeOK, Statuses
<1>12. CASE StatementClearBindings
  BY <1>1, <1>2, <1>12 DEF StatementClearBindings, Forget, TypeOK, Statuses
<1>13. CASE StatementStep
  <2>1. /\ busy' = prepared
        /\ status' \in IF prepared THEN {"row", "done", "error"} ELSE {"misuse"}
        /\ errcode' = IF prepared THEN status' ELSE errcode
    BY <1>13 DEF StatementStep
  <2>2. /\ ran' = Unbound /\ row' = Nothing
        /\ prepared' = prepared /\ query' = query /\ params' = params
    BY <1>13 DEF StatementStep, Forget
  <2>3. CASE prepared
    BY <1>1, <1>2, <2>1, <2>2, <2>3 DEF TypeOK, Statuses
  <2>4. CASE ~prepared
    BY <1>1, <1>2, <2>1, <2>2, <2>4 DEF TypeOK, Statuses
  <2>5. QED
    BY <2>3, <2>4 DEF TypeOK
<1>14. CASE StatementReset
  BY <1>1, <1>2, <1>14 DEF StatementReset, Forget, TypeOK, Statuses
<1>15. CASE HasNoSQL
  <2>1. /\ ran' = Unbound /\ row' = Nothing /\ status' = "error" /\ errcode' = errcode
        /\ prepared' = prepared /\ query' = query /\ params' = params /\ busy' = busy
    BY <1>15 DEF HasNoSQL, Forget
  <2>2. QED
    BY <1>1, <1>2, <2>1 DEF TypeOK, Statuses
<1>16. CASE UNCHANGED vars
  BY <1>16 DEF vars, TypeOK
<1>17. QED
  BY <1>3, <1>4, <1>5, <1>6, <1>8, <1>9, <1>10, <1>11, <1>12, <1>13, <1>14, <1>15,
     <1>16 DEF Next, Bind

\* The state has the types declared for it, for every query and all arrays and
\* dictionaries: in particular a parameter never holds a value that sqlite3 refuses.
THEOREM TypeCorrect == Spec => []TypeOK
  BY InitType, StepType, PTL DEF Spec

-----------------------------------------------------------------------------
(* What the calls do.                                                        *)

LEMMA ArrayCall ==
  ASSUME TypeOK, NEW values \in Arrays, BindArray(values)
  PROVE  \E n \in 0 .. Len(values) :
           /\ \A i \in 1 .. n : i \in DOMAIN query /\ params'[i] = values[i]
           /\ status' = "ok" <=> n = Len(values)
           /\ \A i \in DOMAIN query : i > n + 1 => params'[i] = params[i]
           /\ n + 1 \in DOMAIN query => params'[n + 1] \in {params[n + 1], Null}
<1> DEFINE P == DOMAIN query
           s == Current
           t == ArrayBound(Current, values)
           N == Len(values)
<1>1. /\ s \in Statements(P) /\ s.status = "ok" /\ s.params = params
      /\ P \in SUBSET Nat /\ N \in Nat
  BY CurrentStatement, NumbersOfParameters, LengthOfArray
<1>2. PICK n \in 0 .. N : BoundOf(P, s, t, values, N, n)
  BY <1>1, ArrayBoundType
<1>3. params' = t.params /\ status' = t.status
  BY DEF BindArray, Becomes
<1> HIDE DEF t, N, P, s
<1>4. /\ \A i \in 1 .. n : i \in P /\ params'[i] = values[i]
      /\ status' = "ok" <=> n = N
  BY <1>2, <1>3 DEF BoundOf
<1>5. ASSUME NEW i \in P, i > n + 1 PROVE params'[i] = params[i]
  <2>1. i > n /\ i # n + 1
    BY <1>1, <1>5
  <2>2. QED
    BY <1>1, <1>2, <1>3, <2>1 DEF BoundOf
<1>6. ASSUME n + 1 \in P PROVE params'[n + 1] \in {params[n + 1], Null}
  <2>1. params'[n + 1] = IF n # N THEN Kept(s, n + 1, values[n + 1]) ELSE params[n + 1]
    BY <1>1, <1>2, <1>3, <1>6 DEF BoundOf
  <2>2. n # N => Refuses(s) \/ values[n + 1] \notin Bound
    BY <1>2, <1>6 DEF BoundOf
  <2>3. QED
    BY <1>1, <2>1, <2>2 DEF Kept, OrNull
<1>7. QED
  BY <1>4, <1>5, <1>6 DEF P, N

\* A call that binds an array binds it up to its first failure and touches nothing
\* after it, for arrays of any length.
THEOREM ArrayUpToFailure == Spec => ArrayIsBoundUpToFailure
<1>1. TypeOK => [status' \notin {"row", "done"} => \A values \in Arrays : BindArray(values) =>
       \E n \in 0 .. Len(values) :
         /\ \A i \in 1 .. n : i \in DOMAIN query /\ params'[i] = values[i]
         /\ status' = "ok" <=> n = Len(values)
         /\ \A i \in DOMAIN query : i > n + 1 => params'[i] = params[i]
         /\ n + 1 \in DOMAIN query => params'[n + 1] \in {params[n + 1], Null}]_vars
  BY ArrayCall
<1>2. QED
  BY <1>1, TypeCorrect, PTL DEF ArrayIsBoundUpToFailure

LEMMA DictionaryCall ==
  ASSUME TypeOK, NEW d \in Dictionaries, BindDictionary(d), NEW i \in DOMAIN query
  PROVE  params'[i] = IF busy \/ Meant(d, i) \in Unsupported THEN params[i]
                      ELSE OrNull(Meant(d, i))
<1> DEFINE P == DOMAIN query
           t == DictionaryBound(Current, d)
<1>1. /\ Current \in Statements(P) /\ Current.status = "ok" /\ Current.params = params
      /\ (Refuses(Current) <=> busy) /\ Named /\ i <= Len(query)
  <2>1. prepared
    BY DEF TypeOK
  <2>2. QED
    BY <2>1, CurrentStatement, ParametersOfQuery, NumbersOfParameters
<1>2. MentionedIn(P, Current, t, d, Len(query))
  BY <1>1, DictionaryOutcome
<1>3. params' = t.params
  BY DEF BindDictionary, Becomes
<1>4. LookedUp(d, i) = Meant(d, i)
  BY <1>1, LookedUpIsMeant
<1> HIDE DEF t
<1>5. params'[i] = Kept(Current, i, Meant(d, i))
  BY <1>1, <1>2, <1>3, <1>4 DEF MentionedIn
<1>6. QED
  BY <1>1, <1>5 DEF Kept

\* A dictionary decides about every parameter of a statement that is not busy, and
\* about none of one that is.
THEOREM DictionaryReplacesAll == Spec => DictionaryLeavesNothingStale
<1>1. TypeOK => [status' \notin {"row", "done"} => \A d \in Dictionaries : BindDictionary(d) =>
       \A i \in DOMAIN query :
         params'[i] = IF busy \/ Meant(d, i) \in Unsupported THEN params[i]
                      ELSE OrNull(Meant(d, i))]_vars
  BY DictionaryCall
<1>2. QED
  BY <1>1, TypeCorrect, PTL DEF DictionaryLeavesNothingStale

LEMMA ArrayOneShot ==
  ASSUME TypeOK, NEW values \in Arrays, ExecuteWithArrayBindings(values), NEW i \in DOMAIN query
  PROVE  ran'[i] = IF i <= Len(values) /\ \A j \in 1 .. i : values[j] \in Bound
                   THEN values[i] ELSE Null
<1> DEFINE P == DOMAIN query
           s == Fresh
           t == ArrayBound(Fresh, values)
           N == Len(values)
<1>1. /\ s \in Statements(P) /\ s.status = "ok" /\ ~Refuses(s) /\ s.params[i] = Null
      /\ P = 1 .. Len(query) /\ Len(query) \in Nat /\ N \in Nat
  BY FreshStatement, NumbersOfParameters, LengthOfArray DEF Fresh
<1>2. PICK n \in 0 .. N : BoundOf(P, s, t, values, N, n)
  BY <1>1, ArrayBoundType
<1>3. ran' = t.params
  BY DEF ExecuteWithArrayBindings
<1> HIDE DEF t, N, s
<1>4. CASE i <= n
  <2>1. ran'[i] = values[i] /\ i <= N /\ \A j \in 1 .. i : j \in 1 .. n
    BY <1>1, <1>2, <1>3, <1>4 DEF BoundOf
  <2>2. \A j \in 1 .. i : values[j] \in Bound
    BY <1>2, <2>1 DEF BoundOf
  <2>3. QED
    BY <2>1, <2>2 DEF N
<1>5. CASE ~(i <= n)
  <2>1. i > n /\ n + 1 \in P /\ n + 1 \in 1 .. i
    BY <1>1, <1>5
  <2>2. n # N => values[n + 1] \notin Bound
    BY <1>1, <1>2, <2>1 DEF BoundOf
  <2>3. ~(i <= N /\ \A j \in 1 .. i : values[j] \in Bound)
    <3>1. n = N => ~(i <= N)
      BY <1>5
    <3>2. QED
      BY <2>1, <2>2, <3>1
  <2>4. ran'[i] = Null
    <3>1. ran'[i] = IF i = n + 1 /\ n # N THEN Kept(s, i, values[i]) ELSE s.params[i]
      BY <1>2, <1>3, <2>1 DEF BoundOf
    <3>2. i = n + 1 /\ n # N => Kept(s, i, values[i]) = Null
      BY <1>1, <2>2 DEF Kept, OrNull
    <3>3. QED
      BY <1>1, <3>1, <3>2
  <2>5. QED
    BY <2>3, <2>4 DEF N
<1>6. QED
  BY <1>4, <1>5

LEMMA DictionaryOneShot ==
  ASSUME TypeOK, NEW d \in Dictionaries, ExecuteWithDictionaryBindings(d), NEW i \in DOMAIN query
  PROVE  ran'[i] = OrNull(Meant(d, i))
<1> DEFINE P == DOMAIN query
           t == DictionaryBound(Fresh, d)
<1>1. /\ Fresh \in Statements(P) /\ Fresh.status = "ok" /\ ~Refuses(Fresh)
      /\ Fresh.params[i] = Null /\ Named /\ i <= Len(query)
  <2>1. /\ Fresh \in Statements(P) /\ Fresh.status = "ok" /\ ~Refuses(Fresh)
        /\ Fresh.params[i] = Null
    BY FreshStatement DEF Fresh
  <2>2. Named /\ i <= Len(query)
    BY ParametersOfQuery, NumbersOfParameters
  <2>3. QED
    BY <2>1, <2>2
<1>2. MentionedIn(P, Fresh, t, d, Len(query))
  BY <1>1, DictionaryOutcome
<1>3. ran' = t.params
  BY DEF ExecuteWithDictionaryBindings
<1>4. LookedUp(d, i) = Meant(d, i)
  BY <1>1, LookedUpIsMeant
<1> HIDE DEF t
<1>5. ran'[i] = Kept(Fresh, i, Meant(d, i))
  BY <1>1, <1>2, <1>3, <1>4 DEF MentionedIn
<1>6. Meant(d, i) \in Unsupported => OrNull(Meant(d, i)) = Null
  BY ConstantsAssumption DEF OrNull, Bound
<1>7. QED
  BY <1>1, <1>5, <1>6 DEF Kept

\* The SQL of a one-shot helper runs with the values it was given, and with NULL
\* where they could not be bound.
THEOREM OneShotIsFresh == Spec => OneShotRunsWithWhatItWasGiven
<1>1. TypeOK => [row' = Nothing =>
     /\ \A values \in Arrays : ExecuteWithArrayBindings(values) =>
          \A i \in DOMAIN query :
            ran'[i] = IF i <= Len(values) /\ \A j \in 1 .. i : values[j] \in Bound
                      THEN values[i] ELSE Null
     /\ \A d \in Dictionaries : ExecuteWithDictionaryBindings(d) =>
          \A i \in DOMAIN query : ran'[i] = OrNull(Meant(d, i))]_vars
  BY ArrayOneShot, DictionaryOneShot
<1>2. QED
  BY <1>1, TypeCorrect, PTL DEF OneShotRunsWithWhatItWasGiven

LEMMA InsertCall ==
  ASSUME NEW d \in Rows, InsertWithTableNameAndDictionary(d)
  PROVE  /\ DOMAIN row' = DOMAIN d
         /\ \A c \in DOMAIN d : row'[c] \in {d[c], Null}
         /\ (\A c \in DOMAIN d : d[c] \in Bound) => row' = d
         /\ \E c \in DOMAIN d : row'[c] = OrNull(d[c])
<1> DEFINE N == Cardinality(DOMAIN d)
<1>1. PICK e \in Enumerations(d) : row' = Inserted(d, e) /\ DOMAIN d # {}
  BY DEF InsertWithTableNameAndDictionary
<1>2. PICK n \in 0 .. N : \E at \in [DOMAIN d -> 1 .. N] :
           /\ \A c \in DOMAIN d : e[at[c]] = c
           /\ \A i \in 1 .. N : e[i] \in DOMAIN d /\ at[e[i]] = i
           /\ N \in Nat
           /\ Inserted(d, e) \in [DOMAIN d -> Bound]
           /\ \A c \in DOMAIN d : Inserted(d, e)[c] = IF at[c] <= n THEN d[c] ELSE Null
           /\ \A c \in DOMAIN d : at[c] <= n => d[c] \in Bound
           /\ \A c \in DOMAIN d : at[c] = n + 1 => d[c] \notin Bound
  BY InsertOutcome
<1> HIDE DEF N
<1>3. PICK at \in [DOMAIN d -> 1 .. N] :
           /\ \A c \in DOMAIN d : e[at[c]] = c
           /\ \A i \in 1 .. N : e[i] \in DOMAIN d /\ at[e[i]] = i
           /\ N \in Nat
           /\ row' \in [DOMAIN d -> Bound]
           /\ \A c \in DOMAIN d : row'[c] = IF at[c] <= n THEN d[c] ELSE Null
           /\ \A c \in DOMAIN d : at[c] <= n => d[c] \in Bound
           /\ \A c \in DOMAIN d : at[c] = n + 1 => d[c] \notin Bound
  BY <1>1, <1>2
<1>4. DOMAIN row' = DOMAIN d /\ \A c \in DOMAIN d : row'[c] \in {d[c], Null}
  BY <1>3
<1>5. ASSUME \A c \in DOMAIN d : d[c] \in Bound PROVE row' = d
  <2>1. n = N
    <3>1. SUFFICES ASSUME n # N PROVE FALSE
      OBVIOUS
    <3>2. n + 1 \in 1 .. N
      BY <1>3, <3>1
    <3>3. QED
      BY <1>3, <1>5, <3>2
  <2>2. \A c \in DOMAIN d : at[c] <= n
    BY <1>3, <2>1
  <2>3. \A c \in DOMAIN d : row'[c] = d[c]
    BY <1>3, <2>2
  <2>4. d \in [DOMAIN d -> Values]
    BY DEF Rows
  <2>5. QED
    BY <1>3, <2>3, <2>4
<1>6. \E c \in DOMAIN d : row'[c] = OrNull(d[c])
  <2>1. 1 \in 1 .. N
    <3>1. PICK c \in DOMAIN d : TRUE
      BY <1>1
    <3>2. QED
      BY <1>3
  <2>2. e[1] \in DOMAIN d /\ at[e[1]] = 1
    BY <1>3, <2>1
  <2>3. CASE n = 0
    <3>1. at[e[1]] = n + 1 /\ ~(at[e[1]] <= n)
      BY <2>2, <2>3
    <3>2. row'[e[1]] = Null /\ d[e[1]] \notin Bound
      BY <1>3, <2>2, <3>1
    <3>3. QED
      BY <2>2, <3>2 DEF OrNull
  <2>4. CASE n # 0
    <3>1. at[e[1]] <= n
      BY <2>2, <2>4
    <3>2. row'[e[1]] = d[e[1]] /\ d[e[1]] \in Bound
      BY <1>3, <2>2, <3>1
    <3>3. QED
      BY <2>2, <3>2 DEF OrNull
  <2>5. QED
    BY <2>3, <2>4
<1>7. QED
  BY <1>4, <1>5, <1>6

\* An insert never puts a value in the column of another, stores the whole dictionary
\* if all of it can be bound, and in any order of the keys for as far as it gets.
THEOREM InsertIsTheDictionary == Spec => InsertStoresTheDictionary
<1>1. [row' # Nothing => \A d \in Rows : InsertWithTableNameAndDictionary(d) =>
       /\ DOMAIN row' = DOMAIN d
       /\ \A c \in DOMAIN d : row'[c] \in {d[c], Null}
       /\ (\A c \in DOMAIN d : d[c] \in Bound) => row' = d
       /\ \E c \in DOMAIN d : row'[c] = OrNull(d[c])]_vars
  BY InsertCall
<1>2. QED
  BY <1>1, PTL DEF InsertStoresTheDictionary

-----------------------------------------------------------------------------
(* What is known of errors.                                                  *)

\* What a call says of the error it met, by what it returns.
Reports(s) ==
  /\ s.status \in {"ok", "error", "misuse", "range", "toobig"}
  /\ s.status = "ok" => s.errcode = "ok" \/ s.errcode = errcode
  /\ s.status \notin {"ok", "error"} => \/ s.errcode = s.status
                                        \/ ~prepared /\ s.status = "misuse"

LEMMA BindingCallsReport ==
  ASSUME TypeOK
  PROVE  /\ \A v \in Values : \A i : Reports(BindCFType(Current, i, v))
         /\ \A values \in Arrays : Reports(ArrayBound(Current, values))
         /\ \A d \in Dictionaries : Reports(DictionaryBound(Current, d))
<1>1. /\ Current \in Statements(DOMAIN query) /\ Current.status = "ok"
      /\ Current.errcode = errcode /\ Current.prepared = prepared /\ Named
  BY CurrentStatement, ParametersOfQuery
<1>2. ASSUME NEW v \in Values, NEW i PROVE Reports(BindCFType(Current, i, v))
  <2>1. Binds(DOMAIN query, Current, BindCFType(Current, i, v), i, v)
    BY <1>1, OneBind
  <2>2. QED
    BY <1>1, <2>1 DEF Binds, Reports
<1>3. ASSUME NEW values \in Arrays PROVE Reports(ArrayBound(Current, values))
  <2>1. PICK n \in 0 .. Len(values) :
          BoundOf(DOMAIN query, Current, ArrayBound(Current, values), values, Len(values), n)
    BY <1>1, ArrayBoundType
  <2>2. QED
    BY <1>1, <2>1 DEF BoundOf, Reports
<1>4. ASSUME NEW d \in Dictionaries PROVE Reports(DictionaryBound(Current, d))
  <2>1. MentionedIn(DOMAIN query, Current, DictionaryBound(Current, d), d, Len(query))
    BY <1>1, DictionaryOutcome
  <2>2. QED
    BY <1>1, <2>1 DEF MentionedIn, Reports
<1>5. QED
  BY <1>2, <1>3, <1>4

TellsItsError ==
  /\ Failed' => \/ errcode' = status'
                \/ status' = "misuse" /\ ~prepared
                \/ status' = "error" /\ (Bind \/ HasNoSQL)
  /\ status' = "ok" => errcode' \in {"ok", errcode}
  /\ ran' # Unbound \/ row' # Nothing => (HasError' <=> Failed')

LEMMA BecomesTells ==
  ASSUME NEW s, Reports(s), Becomes(s), Bind
  PROVE  TellsItsError
<1>1. /\ status' = s.status /\ errcode' = s.errcode /\ ran' = Unbound /\ row' = Nothing
  BY DEF Becomes, Forget
<1>2. /\ status' = "ok" => errcode' = "ok" \/ errcode' = errcode
      /\ status' \notin {"ok", "error"} => \/ errcode' = status'
                                           \/ ~prepared /\ status' = "misuse"
  BY <1>1 DEF Reports
<1>3. QED
  BY <1>1, <1>2 DEF TellsItsError, Failed

LEMMA BindTells == TypeOK /\ Bind => TellsItsError
<1> SUFFICES ASSUME TypeOK, Bind PROVE TellsItsError
  OBVIOUS
<1>1. ASSUME NEW v \in Values, NEW i, BindWithIndex(i, v) PROVE TellsItsError
  BY <1>1, BindingCallsReport, BecomesTells DEF BindWithIndex
<1>2. ASSUME NEW v \in Values, NEW name \in Keys, BindWithName(name, v) PROVE TellsItsError
  BY <1>2, BindingCallsReport, BecomesTells DEF BindWithName
<1>3. ASSUME NEW values \in Arrays, BindArray(values) PROVE TellsItsError
  BY <1>3, BindingCallsReport, BecomesTells DEF BindArray
<1>4. ASSUME NEW d \in Dictionaries, BindDictionary(d) PROVE TellsItsError
  BY <1>4, BindingCallsReport, BecomesTells DEF BindDictionary
<1>5. QED
  BY <1>1, <1>2, <1>3, <1>4 DEF Bind

LEMMA StepTells == TypeOK /\ Next => TellsItsError
<1> SUFFICES ASSUME TypeOK, Next PROVE TellsItsError
  OBVIOUS
<1>1. CASE Bind
  BY <1>1, BindTells
<1>2. ASSUME StepAndThrowAway PROVE TellsItsError
  BY <1>2 DEF StepAndThrowAway, TellsItsError, HasError, Failed
<1>3. CASE DoesNotCompile
  BY <1>3 DEF DoesNotCompile, Forget, TellsItsError, Failed
<1>4. CASE HasNoSQL
  BY <1>4 DEF HasNoSQL, Forget, TellsItsError, Failed
<1>5. CASE StatementClearBindings
  BY <1>5 DEF StatementClearBindings, Forget, TellsItsError, Failed
<1>6. CASE StatementStep
  BY <1>6 DEF StatementStep, Forget, TellsItsError, Failed
<1>7. CASE StatementReset
  BY <1>7 DEF StatementReset, Forget, TellsItsError, Failed
<1>8. QED
  BY <1>1, <1>2, <1>3, <1>4, <1>5, <1>6, <1>7
     DEF Next, ExecuteWithArrayBindings, ExecuteWithDictionaryBindings,
         InsertWithTableNameAndDictionary

\* In every sequence of calls a failure leaves its own code with the connection,
\* unless sqlite3 was not asked or had no connection to tell; a success leaves an
\* older error or none; and a one-shot helper leaves an error exactly when its
\* step failed.
THEOREM ErrorsAreOfTheLastCall == Spec => ErrorsAreTheLastCalls
<1>1. TypeOK /\ [Next]_vars =>
        [/\ Failed' => \/ errcode' = status'
                       \/ status' = "misuse" /\ ~prepared
                       \/ status' = "error" /\ (Bind \/ HasNoSQL)
         /\ status' = "ok" => errcode' \in {"ok", errcode}
         /\ ran' # Unbound \/ row' # Nothing => (HasError' <=> Failed')]_vars
  BY StepTells DEF TellsItsError
<1>2. QED
  BY <1>1, TypeCorrect, PTL DEF Spec, ErrorsAreTheLastCalls
=============================================================================
