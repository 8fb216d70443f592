----------------------------- MODULE ValuesProofs -----------------------------
(***************************************************************************)
(* Values on their way through columns, however wide the integers, however    *)
(* precise the doubles and whatever the objects: what survives, and what a    *)
(* date becomes.                                                             *)
(***************************************************************************)
EXTENDS Values, WellFoundedInduction, TLAPS

-----------------------------------------------------------------------------
(* Rounding.                                                                 *)

LEMMA Monotonic ==
  ASSUME NEW u \in Nat \ {0}, NEW a \in Int, NEW b \in Int
  PROVE  /\ u * a \in Int
         /\ a <= b => u * a <= u * b
         /\ a < b => u * a + u <= u * b
<1>1. u * (b - a) = u * b - u * a /\ u * a \in Int /\ u * b \in Int
  OBVIOUS
<1>2. a <= b => u * (b - a) >= 0
  OBVIOUS
<1>3. a < b => u * (b - a) >= u
  OBVIOUS
<1>4. QED
  BY <1>1, <1>2, <1>3

LEMMA Division ==
  ASSUME NEW h \in Int, NEW u \in Nat \ {0}
  PROVE  /\ h \div u \in Int /\ h % u \in Int /\ 0 <= h % u /\ h % u < u
         /\ h = u * (h \div u) + (h % u)
  OBVIOUS

LEMMA Multiples ==
  ASSUME NEW u \in Nat \ {0}, NEW m \in Int
  PROVE  (u * m) % u = 0 /\ (u * m) \div u = m
<1> DEFINE h == u * m
           q == h \div u
<1>1. h \in Int /\ q \in Int /\ h % u \in Int /\ 0 <= h % u /\ h % u < u /\ h = u * q + (h % u)
  BY Division
<1>2. ~(q < m)
  BY <1>1, Monotonic
<1>3. ~(m < q)
  BY <1>1, Monotonic
<1>4. q = m
  BY <1>1, <1>2, <1>3
<1>5. QED
  BY <1>1, <1>4

LEMMA NearestIsAMultiple ==
  ASSUME NEW h \in Int, NEW u \in Nat \ {0}
  PROVE  Nearest(h, u) \in Int /\ Nearest(h, u) % u = 0
<1> DEFINE q == h \div u
<1>1. q \in Int
  BY Division
<1>2. Nearest(h, u) = u * q \/ Nearest(h, u) = u * (q + 1)
  BY <1>1 DEF Nearest
<1> HIDE DEF q
<1>3. \A m \in Int : u * m \in Int /\ (u * m) % u = 0
  BY Multiples, Monotonic
<1>4. q + 1 \in Int
  BY <1>1
<1>5. QED
  BY <1>1, <1>2, <1>3, <1>4

LEMMA NearestOfAMultiple ==
  ASSUME NEW h \in Int, NEW u \in Nat \ {0}, h % u = 0
  PROVE  Nearest(h, u) = h
<1>1. h = u * (h \div u) /\ h \div u \in Int
  BY Division
<1>2. Nearest(h, u) = (h \div u) * u
  BY DEF Nearest
<1>3. QED
  BY <1>1, <1>2

LEMMA NearestIsBounded ==
  ASSUME NEW h \in Int, NEW u \in Nat \ {0}, NEW limit \in Nat, Abs(h) <= limit * u
  PROVE  Abs(Nearest(h, u)) <= limit * u
<1> DEFINE q == h \div u
           r == h % u
<1>1. q \in Int /\ r \in Int /\ 0 <= r /\ r < u /\ h = u * q + r
  BY Division
<1>2. \/ Nearest(h, u) = u * q
      \/ r > 0 /\ Nearest(h, u) = u * (q + 1)
  BY <1>1 DEF Nearest
<1> HIDE DEF q, r
<1>3. /\ limit * u = u * limit /\ u * limit \in Int /\ u * q \in Int
      /\ u * (-limit) = -(u * limit) /\ u * (q + 1) = u * q + u /\ h <= u * limit /\ -(u * limit) <= h
  BY <1>1 DEF Abs
<1>4. q <= limit
  <2>1. ~(limit < q)
    BY <1>1, <1>3, Monotonic
  <2>2. QED
    BY <1>1, <2>1
<1>5. -limit <= q
  <2>1. ~(q < -limit)
    BY <1>1, <1>3, Monotonic
  <2>2. QED
    BY <1>1, <2>1
<1>6. r > 0 => q < limit
  BY <1>1, <1>3, <1>4
<1>7. u * q <= u * limit /\ -(u * limit) <= u * q /\ (r > 0 => u * q + u <= u * limit)
  BY <1>1, <1>3, <1>4, <1>5, <1>6, Monotonic
<1>8. QED
  BY <1>1, <1>2, <1>3, <1>7 DEF Abs

\* The step that h is rounded to, if there is one.
IsStep(h, limit, u) ==
  /\ u \in Steps /\ Abs(h) <= limit * u
  /\ \A v \in Steps : Abs(h) <= limit * v => u <= v

Fits(h, limit) == \E u \in Steps : Abs(h) <= limit * u

LEMMA RoundedToAStep ==
  ASSUME NEW h \in Int, NEW limit \in Nat \ {0}
  PROVE  /\ ~Fits(h, limit) => Rounded(h, limit) = h
         /\ Fits(h, limit) => \E u \in Steps : IsStep(h, limit, u) /\ Rounded(h, limit) = Nearest(h, u)
<1> DEFINE fits == {u \in Steps : Abs(h) <= limit * u}
<1>1. Rounded(h, limit) = IF fits = {} THEN h ELSE Nearest(h, CHOOSE u \in fits : \A v \in fits : u <= v)
  BY DEF Rounded
<1>2. Fits(h, limit) <=> fits # {}
  BY DEF Fits
<1>3. ASSUME fits # {}
      PROVE  \E u \in fits : \A v \in fits : u <= v
  <2>1. fits \subseteq Nat
    BY StepsAssumption
  <2> HIDE DEF fits
  <2>2. PICK u \in fits : \A v \in fits : ~(<<v, u>> \in OpToRel(<, Nat))
    BY <1>3, <2>1, NatLessThanWellFounded, WFMin
  <2>3. \A v \in fits : ~(v < u)
    BY <2>1, <2>2 DEF OpToRel
  <2>4. QED
    BY <2>1, <2>3
<1>4. QED
  BY <1>1, <1>2, <1>3 DEF IsStep

LEMMA RoundedType ==
  ASSUME NEW h \in Int, NEW limit \in Nat \ {0}
  PROVE  Rounded(h, limit) \in Int
  BY RoundedToAStep, NearestIsAMultiple, StepsAssumption

\* A number with few digits keeps them.
LEMMA MultipleIsExact ==
  ASSUME NEW h \in Int, NEW limit \in Nat \ {0}, NEW u \in Steps,
         Abs(h) <= limit * u, h % u = 0
  PROVE  Rounded(h, limit) = h
<1>1. Fits(h, limit)
  BY DEF Fits
<1>2. PICK v \in Steps : IsStep(h, limit, v) /\ Rounded(h, limit) = Nearest(h, v)
  BY <1>1, RoundedToAStep
<1>3. v <= u /\ u \in Nat \ {0} /\ v \in Nat \ {0} /\ u % v = 0
  BY <1>2, StepsAssumption DEF IsStep
<1>4. h = u * (h \div u) /\ h \div u \in Int /\ u = v * (u \div v) /\ u \div v \in Int
  BY <1>3, Division
<1>5. ASSUME NEW a \in Int, NEW b \in Int, u = v * a, h = u * b
      PROVE  a * b \in Int /\ h = v * (a * b)
  <2>1. (v * a) * b = v * (a * b)
    BY <1>3
  <2>2. QED
    BY <1>5, <2>1
<1>6. h % v = 0
  <2>1. PICK m \in Int : h = v * m
    BY <1>4, <1>5
  <2>2. QED
    BY <1>3, <2>1, Multiples
<1>7. QED
  BY <1>2, <1>3, <1>6, NearestOfAMultiple

LEMMA SmallIsExact ==
  ASSUME NEW h \in Int, NEW limit \in Nat \ {0}, Abs(h) <= limit
  PROVE  Rounded(h, limit) = h
  BY MultipleIsExact, StepsAssumption

\* Rounding again, to as many digits or more, changes nothing.
LEMMA RoundedIsExact ==
  ASSUME NEW h \in Int, NEW limit \in Nat \ {0}, NEW wider \in Nat, limit <= wider,
         Fits(h, limit) \/ Rounded(h, wider) = h
  PROVE  Rounded(Rounded(h, limit), wider) = Rounded(h, limit)
<1> DEFINE r == Rounded(h, limit)
<1>1. CASE Fits(h, limit)
  <2>1. PICK u \in Steps : IsStep(h, limit, u) /\ r = Nearest(h, u)
    BY <1>1, RoundedToAStep
  <2>2. u \in Nat \ {0} /\ Abs(h) <= limit * u
    BY <2>1, StepsAssumption DEF IsStep
  <2>3. r \in Int /\ r % u = 0 /\ Abs(r) <= limit * u
    BY <2>1, <2>2, NearestIsAMultiple, NearestIsBounded
  <2>4. limit * u <= wider * u
    BY <2>2, Monotonic
  <2>5. Abs(r) <= wider * u
    BY <2>2, <2>3, <2>4 DEF Abs
  <2> HIDE DEF r
  <2>6. Rounded(r, wider) = r
    BY <2>3, <2>5, MultipleIsExact
  <2>7. QED
    BY <2>6 DEF r
<1>2. CASE ~Fits(h, limit)
  BY <1>2, RoundedToAStep
<1>3. QED
  BY <1>1, <1>2

-----------------------------------------------------------------------------
(* Numbers.                                                                  *)

LEMMA Limits ==
  /\ WideLimit \in Nat /\ WideLimit > 1 /\ MinWide = -WideLimit /\ MaxWide = WideLimit - 1
  /\ MinWide \in Wide /\ 0 \in Wide /\ 1 \in Wide
  /\ \A n : n \in Wide <=> n \in Int /\ -WideLimit <= n /\ n < WideLimit
  BY LimitsAssumption DEF MinWide, MaxWide, Wide

LEMMA DoubleIsDouble == ASSUME NEW h \in Int PROVE IsDouble(Double(h))
<1>1. Mantissa \in Nat \ {0}
  BY LimitsAssumption
<1>2. Rounded(h, Mantissa) \in Int
  BY <1>1, RoundedType
<1>3. Rounded(Rounded(h, Mantissa), Mantissa) = Rounded(h, Mantissa)
  <2>1. CASE Fits(h, Mantissa)
    BY <1>1, <2>1, RoundedIsExact
  <2>2. CASE ~Fits(h, Mantissa)
    BY <1>1, <2>2, RoundedToAStep
  <2>3. QED
    BY <2>1, <2>2
<1>4. QED
  BY <1>2, <1>3 DEF IsDouble, Double

LEMMA PrintedIsDouble == ASSUME NEW h, IsDouble(h) PROVE IsDouble(Printed(h))
<1>1. /\ Mantissa \in Nat /\ Digits \in Nat \ {0} /\ Digits <= Mantissa
      /\ h \in Int /\ Rounded(h, Mantissa) = h
  BY LimitsAssumption DEF IsDouble, Double
<1>2. Rounded(h, Digits) \in Int
  BY <1>1, RoundedType
<1>3. Rounded(Rounded(h, Digits), Mantissa) = Rounded(h, Digits)
  BY <1>1, RoundedIsExact
<1>4. QED
  BY <1>2, <1>3 DEF IsDouble, Double, Printed

\* What has few enough digits to be printed is a double.
LEMMA PrintableIsDouble ==
  ASSUME NEW n \in Wide, Printed(2 * n) = 2 * n
  PROVE  IsDouble(2 * n)
<1>1. n \in Int /\ Abs(2 * n) <= 2 * WideLimit /\ 2 * n \in Int
  BY Limits DEF Abs
<1>2. /\ Mantissa \in Nat /\ Digits \in Nat \ {0} /\ Digits <= Mantissa
      /\ Rounded(2 * n, Digits) = 2 * n
  BY LimitsAssumption DEF Printed
<1>3. PICK u \in Steps : u >= 2 * WideLimit
  BY StepsAssumption
<1>4. u \in Nat
  BY StepsAssumption
<1>5. Abs(2 * n) <= Digits * u
  <2>1. u * 1 <= u * Digits /\ u * 1 = u /\ u * Digits = Digits * u /\ Digits * u \in Int
    <3>1. u \in Nat \ {0}
      BY StepsAssumption
    <3>2. QED
      BY <1>2, <3>1, Monotonic
  <2>2. Abs(2 * n) \in Int /\ 2 * WideLimit \in Int
    BY <1>1, Limits DEF Abs
  <2>3. QED
    BY <1>1, <1>3, <1>4, <2>1, <2>2
<1>6. Fits(2 * n, Digits)
  BY <1>5 DEF Fits
<1>7. Rounded(Rounded(2 * n, Digits), Mantissa) = Rounded(2 * n, Digits)
  BY <1>1, <1>2, <1>6, RoundedIsExact
<1>8. QED
  BY <1>1, <1>2, <1>7 DEF IsDouble, Double

LEMMA ToIntegerIsWide ==
  ASSUME NEW h \in Int
  PROVE  /\ ToInteger(h) \in Wide
         /\ \A n \in Wide : h = 2 * n => ToInteger(h) = n
         /\ 2 * ToInteger(h) = h \/ h % 2 = 1 \/ h < 2 * MinWide \/ h > 2 * MaxWide
<1> DEFINE whole == IF h < 0 THEN -((-h) \div 2) ELSE h \div 2
<1>1. ToInteger(h) = CASE h < 2 * MinWide \/ h > 2 * (MaxWide + 1) -> MinWide
                       [] h = 2 * (MaxWide + 1)                    -> Overflow
                       [] OTHER                                    -> whole
  BY DEF ToInteger
<1>2. whole \in Int /\ (h % 2 = 1 \/ 2 * whole = h)
      /\ (h >= 0 => 2 * whole <= h /\ whole >= 0 /\ h <= 2 * whole + 1)
      /\ (h < 0 => h <= 2 * whole /\ whole <= 0 /\ 2 * whole - 1 <= h)
  OBVIOUS
<1> HIDE DEF whole
<1>3. CASE h < 2 * MinWide \/ h > 2 * (MaxWide + 1)
  BY <1>1, <1>3, Limits
<1>4. CASE h = 2 * (MaxWide + 1)
  <2>1. ToInteger(h) = Overflow
    BY <1>1, <1>4, Limits
  <2>2. Overflow \in Wide
    BY Limits, LimitsAssumption
  <2>3. QED
    BY <1>4, <2>1, <2>2, Limits
<1>5. CASE ~(h < 2 * MinWide \/ h > 2 * (MaxWide + 1)) /\ h # 2 * (MaxWide + 1)
  <2>1. ToInteger(h) = whole
    BY <1>1, <1>5
  <2>2. QED
    BY <1>2, <1>5, <2>1, Limits
<1>6. QED
  BY <1>3, <1>4, <1>5

LEMMA LowWordOfNarrow == ASSUME NEW n \in Narrow PROVE LowWord(n) = n
<1> DEFINE w == 2 * NarrowLimit
<1>1. w \in Nat \ {0} /\ NarrowLimit \in Nat /\ n \in Int /\ -NarrowLimit <= n /\ n < NarrowLimit
  BY LimitsAssumption DEF Narrow
<1>2. (n - n) % w = 0
  <2>1. n - n = w * 0
    BY <1>1
  <2>2. QED
    BY <1>1, <2>1, Multiples
<1>3. ASSUME NEW i \in Narrow, (n - i) % w = 0 PROVE i = n
  <2>1. i \in Int /\ -NarrowLimit <= i /\ i < NarrowLimit
    BY LimitsAssumption DEF Narrow
  <2> DEFINE q == (n - i) \div w
  <2>2. q \in Int /\ n - i = w * q
    <3>1. \A d \in Int : d \div w \in Int /\ d = w * (d \div w) + (d % w) /\ d % w \in Int
      BY <1>1, Division
    <3>2. n - i \in Int
      BY <1>1, <2>1
    <3> HIDE DEF w
    <3>3. w * q \in Int
      BY <1>1, <3>1, <3>2
    <3>4. QED
      BY <1>3, <3>1, <3>2, <3>3
  <2>3. n - i < w /\ -w < n - i
    BY <1>1, <2>1
  <2> HIDE DEF q, w
  <2>4. ~(0 < q)
    <3>1. 0 < q => w * 0 + w <= w * q
      BY <1>1, <2>2, Monotonic
    <3>2. QED
      BY <1>1, <2>2, <2>3, <3>1
  <2>5. ~(q < 0)
    <3>1. q < 0 => w * q + w <= w * 0
      BY <1>1, <2>2, Monotonic
    <3>2. QED
      BY <1>1, <2>2, <2>3, <3>1
  <2>6. q = 0
    BY <2>2, <2>4, <2>5
  <2>7. QED
    BY <1>1, <2>1, <2>2, <2>6
<1>4. LowWord(n) = CHOOSE i \in Narrow : (n - i) % w = 0
  BY DEF LowWord
<1> HIDE DEF w
<1>5. QED
  BY <1>2, <1>3, <1>4

-----------------------------------------------------------------------------
(* Types.                                                                    *)

IsValue(v) ==
  \/ v = SqlNull
  \/ v[1] = "blob" /\ v = <<"blob", v[2]>> /\ v[2] \in Data
  \/ v[1] = "text" /\ v = <<"text", v[2]>> /\ IsText(v[2])
  \/ IsNumber(v)

\* What lies in a column is what its affinity leaves alone.
InColumn(affinity, v) ==
  /\ affinity = "text" => v[1] \notin {"integer", "real"}
  /\ affinity = "numeric" /\ v[1] = "text" => WholeNumber(v[2]) = None
  /\ affinity = "numeric" /\ v[1] = "real" => v[2] % 2 = 1 \/ v[2] <= 2 * MinWide \/ v[2] >= 2 * MaxWide

LEMMA NumberParts ==
  ASSUME NEW n, IsNumber(n)
  PROVE  /\ n[1] \in {"integer", "real"} /\ n = <<n[1], n[2]>> /\ n[2] \in Int
         /\ n[1] = "integer" => n[2] \in Wide
         /\ n[1] = "real" => IsDouble(n[2])
         /\ ValueOf(n) \in Int /\ n # None /\ n # <<"nan">> /\ n # SqlNull
  BY Limits DEF IsNumber, IsDouble, ValueOf, None, SqlNull

LEMMA IntegerIsNumber == ASSUME NEW n \in Wide PROVE IsNumber(<<"integer", n>>)
  BY DEF IsNumber

LEMMA RealIsNumber == ASSUME NEW h, IsDouble(h) PROVE IsNumber(<<"real", h>>)
  BY DEF IsNumber

LEMMA AffinityKeepsNumber ==
  ASSUME NEW n, IsNumber(n)
  PROVE  /\ IsNumber(NumericAffinity(n)) /\ ValueOf(NumericAffinity(n)) = ValueOf(n)
         /\ InColumn("numeric", NumericAffinity(n))
         /\ n[1] = "integer" => NumericAffinity(n) = n
<1>1. CASE n[1] = "integer"
  BY <1>1, NumberParts DEF NumericAffinity, InColumn
<1>2. CASE n[1] = "real"
  <2> DEFINE h == n[2]
             i == ToInteger(h)
  <2>1. h \in Int /\ IsDouble(h) /\ ValueOf(n) = h /\ NumericAffinity(n) = IntegerAffinity(h)
    BY <1>2, NumberParts DEF ValueOf, NumericAffinity
  <2>2. i \in Wide /\ (2 * i = h \/ h % 2 = 1 \/ h < 2 * MinWide \/ h > 2 * MaxWide)
    BY <2>1, ToIntegerIsWide
  <2> HIDE DEF h, i
  <2>3. CASE 2 * i = h /\ i \notin {MinWide, MaxWide}
    <3>1. NumericAffinity(n) = <<"integer", i>>
      BY <2>1, <2>3 DEF IntegerAffinity, i
    <3>2. QED
      BY <1>2, <2>1, <2>2, <2>3, <3>1, IntegerIsNumber DEF ValueOf, InColumn
  <2>4. CASE ~(2 * i = h /\ i \notin {MinWide, MaxWide})
    <3>1. NumericAffinity(n) = <<"real", h>>
      BY <2>1, <2>4 DEF IntegerAffinity, i
    <3>2. h % 2 = 1 \/ h <= 2 * MinWide \/ h >= 2 * MaxWide
      BY <2>1, <2>2, <2>4, Limits
    <3>3. InColumn("numeric", <<"real", h>>)
      BY <3>2 DEF InColumn
    <3>4. QED
      BY <1>2, <2>1, <3>1, <3>3, RealIsNumber DEF ValueOf
  <2>5. QED
    BY <2>3, <2>4
<1>3. QED
  BY <1>1, <1>2, NumberParts

LEMMA AsTextIsText ==
  ASSUME NEW n, IsNumber(n)
  PROVE  /\ \E q : AsText(n) = Numeral(q) /\ IsNumber(q)
         /\ n[1] = "integer" => AsText(n) = Numeral(n)
         /\ n[1] = "real" => AsText(n) = Numeral(<<"real", Printed(n[2])>>)
<1>1. CASE n[1] = "integer"
  BY <1>1 DEF AsText
<1>2. CASE n[1] = "real"
  BY <1>2, NumberParts, PrintedIsDouble, RealIsNumber DEF AsText
<1>3. QED
  BY <1>1, <1>2, NumberParts

LEMMA NumeralIsText ==
  ASSUME NEW q, IsNumber(q)
  PROVE  /\ Numeral(q)[1] = "text" /\ Numeral(q)[2] = <<"numeral", q>> /\ IsText(<<"numeral", q>>)
         /\ IsValue(Numeral(q)) /\ InColumn("text", Numeral(q)) /\ WholeNumber(Numeral(q)[2]) = q
  BY DEF Numeral, IsText, IsValue, InColumn, WholeNumber

LEMMA WholeNumberIsNumber ==
  ASSUME NEW t, IsText(t), WholeNumber(t) # None
  PROVE  IsNumber(WholeNumber(t))
  BY ObjectsAssumption DEF IsText, WholeNumber, IsMeaning

\* Storing, affinity by affinity.
LEMMA StoredIs ==
  ASSUME NEW v
  PROVE  /\ Stored("none", v) = v
         /\ v[1] \in {"integer", "real"} => Stored("text", v) = AsText(v)
         /\ v[1] \notin {"integer", "real"} => Stored("text", v) = v
         /\ v[1] = "text" /\ WholeNumber(v[2]) # None =>
              Stored("numeric", v) = NumericAffinity(WholeNumber(v[2]))
         /\ v[1] = "text" /\ WholeNumber(v[2]) = None => Stored("numeric", v) = v
         /\ v[1] \in {"real", "integer"} => Stored("numeric", v) = NumericAffinity(v)
         /\ v[1] \notin {"text", "real"} => Stored("numeric", v) = v
  BY DEF Stored, NumericAffinity

LEMMA StoredIsValue ==
  ASSUME NEW v, IsValue(v), NEW affinity \in {"none", "numeric", "text"}
  PROVE  IsValue(Stored(affinity, v)) /\ InColumn(affinity, Stored(affinity, v))
<1>1. CASE affinity = "none"
  BY <1>1, StoredIs DEF InColumn
<1>2. CASE affinity = "text"
  <2>1. CASE v[1] \in {"integer", "real"}
    <3>1. IsNumber(v)
      BY <2>1 DEF IsValue, SqlNull
    <3>2. PICK q : AsText(v) = Numeral(q) /\ IsNumber(q)
      BY <3>1, AsTextIsText
    <3>3. QED
      BY <1>2, <2>1, <3>2, StoredIs, NumeralIsText
  <2>2. CASE v[1] \notin {"integer", "real"}
    BY <1>2, <2>2, StoredIs DEF InColumn
  <2>3. QED
    BY <2>1, <2>2
<1>3. CASE affinity = "numeric"
  <2>1. CASE v[1] = "text" /\ WholeNumber(v[2]) # None
    <3>1. IsText(v[2])
      BY <2>1 DEF IsValue, SqlNull, IsNumber
    <3>2. IsNumber(NumericAffinity(WholeNumber(v[2]))) /\ InColumn("numeric", NumericAffinity(WholeNumber(v[2])))
      BY <2>1, <3>1, WholeNumberIsNumber, AffinityKeepsNumber
    <3>3. QED
      BY <1>3, <2>1, <3>2, StoredIs DEF IsValue
  <2>2. CASE v[1] = "text" /\ WholeNumber(v[2]) = None
    BY <1>3, <2>2, StoredIs DEF InColumn
  <2>3. CASE v[1] \in {"real", "integer"}
    <3>1. IsNumber(v)
      BY <2>3 DEF IsValue, SqlNull
    <3>2. IsNumber(NumericAffinity(v)) /\ InColumn("numeric", NumericAffinity(v))
      BY <3>1, AffinityKeepsNumber
    <3>3. QED
      BY <1>3, <2>3, <3>2, StoredIs DEF IsValue
  <2>4. CASE v[1] \notin {"text", "real", "integer"}
    BY <1>3, <2>4, StoredIs DEF InColumn
  <2>5. QED
    BY <2>1, <2>2, <2>3, <2>4
<1>4. QED
  BY <1>1, <1>2, <1>3

LEMMA StringIsBound ==
  ASSUME NEW t, IsText(t)
  PROVE  /\ IsValue(BindString(t)) /\ BindString(t)[1] = "text" /\ IsText(BindString(t)[2])
         /\ BindString(t) = <<"text", BindString(t)[2]>>
         /\ t[1] = "numeral" => BindString(t) = <<"text", t>>
         /\ t[1] = "word" => BindString(t) = Word(Meaning[t[2]].cut)
         /\ BindString(BindString(t)[2]) = BindString(t)
<1>1. CASE t[1] = "word"
  <2>1. t[2] \in Words /\ Meaning[t[2]].cut \in Words /\ Meaning[Meaning[t[2]].cut].cut = Meaning[t[2]].cut
    BY <1>1, ObjectsAssumption DEF IsText, IsMeaning
  <2>2. QED
    BY <1>1, <2>1 DEF BindString, Word, IsValue, IsText
<1>2. CASE t[1] = "numeral"
  BY <1>2 DEF BindString, IsValue, IsText
<1>3. QED
  BY <1>1, <1>2 DEF IsText

LEMMA Bound ==
  ASSUME NEW o
  PROVE  /\ o \in {NULL, kCFNull} => BindCFType(o) = {SqlNull}
         /\ o[1] = "string" => BindCFType(o) = {BindString(o[2])}
         /\ o[1] = "data" => BindCFType(o) = BindData(o[2])
         /\ o[1] = "date" => BindCFType(o) = {BindAbsoluteTime(o[2])}
         /\ o[1] = "number" => BindCFType(o) = {BindNumber(o[2])}
         /\ o[1] = "boolean" => BindCFType(o) = {BindNumber(<<"integer", IF o[2] THEN 1 ELSE 0>>)}
  BY DEF BindCFType, NULL, kCFNull

LEMMA BoundIsValue ==
  ASSUME NEW o, IsObject(o), NEW v \in BindCFType(o)
  PROVE  IsValue(v)
<1>1. CASE o \in {NULL, kCFNull}
  <2>1. BindCFType(o) = {SqlNull}
    BY <1>1, Bound
  <2>2. QED
    BY <2>1 DEF IsValue
<1>2. CASE o[1] = "string"
  <2>1. BindCFType(o) = {BindString(o[2])}
    BY <1>2, Bound
  <2>2. IsText(o[2])
    BY <1>2 DEF IsObject, NULL, kCFNull
  <2>3. QED
    BY <2>1, <2>2, StringIsBound
<1>3. CASE o[1] = "data"
  <2>1. BindCFType(o) = BindData(o[2])
    BY <1>3, Bound
  <2>2. o[2] \in Data
    BY <1>3 DEF IsObject, NULL, kCFNull
  <2>3. v \in {SqlNull, <<"blob", o[2]>>}
    BY <2>1 DEF BindData
  <2>4. QED
    BY <2>2, <2>3 DEF IsValue
<1>4. CASE o[1] = "date"
  <2>1. o[2] \in Int
    BY <1>4 DEF IsObject, IsDate, IsDouble, NULL, kCFNull
  <2>2. IsDouble(Double(o[2] - Epoch))
    BY <2>1, DoubleIsDouble, LimitsAssumption
  <2>3. BindCFType(o) = {<<"real", Double(o[2] - Epoch)>>}
    BY <1>4, Bound DEF BindAbsoluteTime
  <2>4. QED
    BY <2>2, <2>3, RealIsNumber DEF IsValue
<1>5. CASE o[1] = "number"
  <2>1. o[2] = <<"nan">> \/ IsNumber(o[2])
    BY <1>5 DEF IsObject, NULL, kCFNull
  <2>2. QED
    BY <1>5, <2>1, Bound DEF BindNumber, IsValue
<1>6. CASE o[1] = "boolean"
  <2>1. IsNumber(<<"integer", IF o[2] THEN 1 ELSE 0>>)
    BY Limits, IntegerIsNumber
  <2>2. <<"integer", IF o[2] THEN 1 ELSE 0>> # <<"nan">>
    BY <2>1, NumberParts
  <2>3. QED
    BY <1>6, <2>1, <2>2, Bound DEF BindNumber, IsValue
<1>7. QED
  BY <1>1, <1>2, <1>3, <1>4, <1>5, <1>6 DEF IsObject

LEMMA IntegerIsRead ==
  ASSUME NEW v, IsValue(v)
  PROVE  GetInt64WithColumn(v) \in Wide
<1>1. CASE v[1] = "integer"
  BY <1>1, NumberParts DEF IsValue, SqlNull, GetInt64WithColumn
<1>2. CASE v[1] = "real"
  BY <1>2, NumberParts, ToIntegerIsWide DEF IsValue, SqlNull, GetInt64WithColumn
<1>3. CASE v[1] = "text"
  <2>1. IsText(v[2])
    BY <1>3 DEF IsValue, SqlNull, IsNumber
  <2>2. CASE v[2][1] = "word"
    BY <1>3, <2>1, <2>2, ObjectsAssumption DEF IsText, IsMeaning, GetInt64WithColumn
  <2>3. CASE v[2][1] = "numeral"
    <3>1. IsNumber(v[2][2])
      BY <2>1, <2>3 DEF IsText
    <3>2. -1 \in Wide /\ 1 \in Wide
      BY Limits
    <3>3. IntegerOfNumeral(v[2][2]) \in Wide
      BY <3>1, <3>2, NumberParts, ToIntegerIsWide DEF IntegerOfNumeral
    <3>4. QED
      BY <1>3, <2>3, <3>3 DEF GetInt64WithColumn
  <2>4. QED
    BY <2>1, <2>2, <2>3 DEF IsText
<1>4. CASE v[1] \notin {"integer", "real", "text"}
  BY <1>4, Limits DEF GetInt64WithColumn
<1>5. QED
  BY <1>1, <1>2, <1>3, <1>4

LEMMA NumberIs ==
  ASSUME NEW v
  PROVE  /\ v[1] = "integer" => CreateNumberWithColumn(v) = <<"number", <<"integer", v[2]>>>>
         /\ v[1] = "real" => CreateNumberWithColumn(v) = <<"number", <<"real", v[2]>>>>
         /\ v[1] = "text" => CreateNumberWithColumn(v) = IF ReadByStrtod(v[2]) # None
                                                         THEN <<"number", ReadByStrtod(v[2])>> ELSE kCFNull
         /\ v[1] \notin {"integer", "real", "text"} => CreateNumberWithColumn(v) = kCFNull
  BY DEF CreateNumberWithColumn, GetInt64WithColumn, GetDoubleWithColumn

LEMMA ReadNumeral ==
  ASSUME NEW q, IsNumber(q)
  PROVE  /\ IsNumber(ReadByStrtod(<<"numeral", q>>))
         /\ q[1] = "integer" => ReadByStrtod(<<"numeral", q>>) = <<"real", Double(2 * q[2])>>
         /\ q[1] = "real" => ReadByStrtod(<<"numeral", q>>) = q
<1>1. CASE q[1] = "integer"
  <2>1. ReadByStrtod(<<"numeral", q>>) = <<"real", Double(2 * q[2])>>
    BY <1>1 DEF ReadByStrtod, GetDoubleWithColumn
  <2>2. IsDouble(Double(2 * q[2]))
    BY NumberParts, DoubleIsDouble
  <2>3. QED
    BY <1>1, <2>1, <2>2, RealIsNumber
<1>2. CASE q[1] = "real"
  <2>1. ReadByStrtod(<<"numeral", q>>) = <<"real", q[2]>>
    BY <1>2 DEF ReadByStrtod, GetDoubleWithColumn
  <2>2. QED
    BY <1>2, <2>1, NumberParts
<1>3. QED
  BY <1>1, <1>2, NumberParts

LEMMA NumberIsObject ==
  ASSUME NEW v, IsValue(v)
  PROVE  IsObject(CreateNumberWithColumn(v))
<1>1. CASE v[1] \in {"integer", "real"}
  <2>1. IsNumber(v)
    BY <1>1 DEF IsValue, SqlNull
  <2>2. CreateNumberWithColumn(v) = <<"number", v>>
    BY <1>1, <2>1, NumberIs, NumberParts
  <2>3. QED
    BY <2>1, <2>2 DEF IsObject
<1>2. CASE v[1] = "text"
  <2>1. IsText(v[2])
    BY <1>2 DEF IsValue, SqlNull, IsNumber
  <2>2. ReadByStrtod(v[2]) \in {None, <<"nan">>} \/ IsNumber(ReadByStrtod(v[2]))
    <3>1. CASE v[2][1] = "word"
      BY <2>1, <3>1, ObjectsAssumption DEF IsText, IsMeaning, ReadByStrtod
    <3>2. CASE v[2][1] = "numeral"
      BY <2>1, <3>2, ReadNumeral DEF IsText
    <3>3. QED
      BY <2>1, <3>1, <3>2 DEF IsText
  <2>3. QED
    BY <1>2, <2>2, NumberIs DEF IsObject
<1>3. CASE v[1] \notin {"integer", "real", "text"}
  BY <1>3, NumberIs DEF IsObject
<1>4. QED
  BY <1>1, <1>2, <1>3

LEMMA DateIsObject ==
  ASSUME NEW v, IsValue(v), CreateDateWithColumn(v) # None
  PROVE  IsObject(CreateDateWithColumn(v))
<1>1. CASE v[1] \in {"integer", "real"}
  <2> DEFINE d == Double(Double(2 * GetInt64WithColumn(v)) - Epoch)
  <2>1. GetInt64WithColumn(v) \in Int
    BY IntegerIsRead, Limits
  <2>2. Double(2 * GetInt64WithColumn(v)) \in Int
    BY <2>1, DoubleIsDouble DEF IsDouble
  <2>3. IsDouble(d)
    BY <2>2, DoubleIsDouble, LimitsAssumption
  <2>4. CreateDateWithColumn(v) = <<"date", d>>
    BY <1>1 DEF CreateDateWithColumn
  <2> HIDE DEF d
  <2>5. QED
    BY <2>3, <2>4 DEF IsObject, IsDate
<1>2. CASE v[1] = "text" /\ v[2][1] = "word"
  <2>1. IsText(v[2])
    BY <1>2 DEF IsValue, SqlNull, IsNumber
  <2>2. IsDate(Meaning[v[2][2]].date)
    BY <1>2, <2>1, ObjectsAssumption DEF IsText, IsMeaning
  <2>3. CreateDateWithColumn(v) \in {Meaning[v[2][2]].date, None}
    BY <1>2 DEF CreateDateWithColumn
  <2>4. QED
    BY <2>2, <2>3 DEF IsObject, IsDate
<1>3. CASE v[1] \notin {"integer", "real"} /\ ~(v[1] = "text" /\ v[2][1] = "word")
  BY <1>3 DEF CreateDateWithColumn, IsObject
<1>4. QED
  BY <1>1, <1>2, <1>3

LEMMA ObjectIs ==
  ASSUME NEW v, IsValue(v)
  PROVE  /\ v[1] = "text" => CreateCFTypeWithColumn(v) =
              IF v[2][1] = "word" /\ ~Meaning[v[2][2]].utf8 THEN NULL ELSE <<"string", v[2]>>
         /\ v[1] \in {"integer", "real"} => CreateCFTypeWithColumn(v) = <<"number", v>>
         /\ v[1] = "blob" => CreateCFTypeWithColumn(v) = <<"data", v[2]>>
         /\ v = SqlNull => CreateCFTypeWithColumn(v) = kCFNull
<1>1. v[1] \in {"integer", "real"} => v = <<v[1], v[2]>>
  BY NumberParts DEF IsValue, SqlNull
<1>2. v[1] \in {"integer", "real"} => CreateNumberWithColumn(v) = <<"number", v>>
  BY <1>1, NumberIs
<1>3. QED
  BY <1>2 DEF CreateCFTypeWithColumn, CreateStringWithColumn, CreateDataWithColumn, SqlNull

LEMMA ObjectIsObject ==
  ASSUME NEW v, IsValue(v)
  PROVE  IsObject(CreateCFTypeWithColumn(v))
<1>1. CASE v[1] \in {"integer", "real"}
  <2>1. IsNumber(v)
    BY <1>1 DEF IsValue, SqlNull
  <2>2. QED
    BY <1>1, <2>1, ObjectIs DEF IsObject
<1>2. CASE v[1] = "text"
  <2>1. IsText(v[2])
    BY <1>2 DEF IsValue, SqlNull, IsNumber
  <2>2. CASE v[2][1] = "word" /\ ~Meaning[v[2][2]].utf8
    BY <1>2, <2>2, ObjectIs DEF IsObject
  <2>3. CASE ~(v[2][1] = "word" /\ ~Meaning[v[2][2]].utf8)
    <3>1. CreateCFTypeWithColumn(v) = <<"string", v[2]>>
      BY <1>2, <2>3, ObjectIs
    <3>2. QED
      BY <2>1, <2>3, <3>1 DEF IsObject
  <2>4. QED
    BY <2>2, <2>3
<1>3. CASE v[1] = "blob"
  <2>1. v[2] \in Data
    BY <1>3 DEF IsValue, SqlNull, IsNumber
  <2>2. QED
    BY <1>3, <2>1, ObjectIs DEF IsObject
<1>4. CASE v = SqlNull
  BY <1>4, ObjectIs DEF IsObject
<1>5. QED
  BY <1>1, <1>2, <1>3, <1>4, NumberParts DEF IsValue

-----------------------------------------------------------------------------
(* The inductive invariant.                                                  *)

VTypes ==
  /\ column \in Columns /\ column \in passed /\ passed \subseteq Columns
  /\ read \subseteq {"object", "number", "date"}
  /\ given \in Givens \cup {None} /\ drift \in 0 .. MaxDrift
  /\ IsValue(cell) /\ InColumn(column, cell)

IsNumeral(v) == v[1] = "text" /\ v[2][1] = "numeral"

\* The value is x halves, as a number or, where it was text, as a numeral.
Holds(v, x, texts) ==
  \/ IsNumber(v) /\ ValueOf(v) = x
  \/ texts /\ IsNumeral(v) /\ ValueOf(v[2][2]) = x

IntegersStay ==
  CopiedAs({"object"}) /\ IsInteger(given) =>
    cell \in {<<"integer", Integer(given)>>, Numeral(<<"integer", Integer(given)>>)}

\* The numbers that copies do not change.
Keeps(value, columns) == Printed(value) = value \/ "text" \notin columns

IsCopiedNumber ==
  CopiedAs({"object", "number"}) /\ given[1] = "number" /\ given[2] # <<"nan">>

ValuesStay ==
  IsCopiedNumber /\ Keeps(ValueOf(given[2]), passed) =>
    Holds(cell, ValueOf(given[2]), "text" \in passed)

\* What a date is after k copies as a date.
Drifted(time, k) == IF k = 0 THEN time ELSE 2 * (ToInteger(time) - k * Epoch)

IsCopiedDate ==
  CopiedAs({"object", "date"}) /\ given[1] = "date" /\ "text" \notin passed

DatesStay ==
  IsCopiedDate => IsNumber(cell) /\ ValueOf(cell) = Drifted(given[2] - Epoch, drift)

LEMMA ColumnsAre == ASSUME NEW affinity \in Columns PROVE affinity \in {"none", "numeric", "text"}
  BY ObjectsAssumption

LEMMA CopyIs ==
  ASSUME VTypes, NEW reader \in {"object", "number", "date"}, NEW affinity \in Columns,
         NEW o, IsObject(o), Copy(reader, affinity, o)
  PROVE  /\ \E v \in BindCFType(o) : IsValue(v) /\ cell' = Stored(affinity, v)
         /\ (drift' \in 0 .. MaxDrift => VTypes')
<1>1. PICK v \in BindCFType(o) : cell' = Stored(affinity, v)
  BY DEF Copy
<1>2. IsValue(v)
  BY BoundIsValue
<1>3. IsValue(Stored(affinity, v)) /\ InColumn(affinity, Stored(affinity, v))
  BY <1>2, ColumnsAre, StoredIsValue
<1>4. /\ column' = affinity /\ passed' = passed \cup {affinity} /\ read' = read \cup {reader}
      /\ given' = given
  BY DEF Copy
<1>5. drift' \in 0 .. MaxDrift => VTypes'
  BY <1>1, <1>3, <1>4 DEF VTypes
<1>6. QED
  BY <1>1, <1>2, <1>5

LEMMA TypesNext == VTypes /\ [Next]_vars => VTypes'
<1> SUFFICES ASSUME VTypes, [Next]_vars PROVE VTypes'
  OBVIOUS
<1>0. MaxDrift \in Nat /\ drift \in Nat /\ drift <= MaxDrift
  BY LimitsAssumption DEF VTypes
<1>1. CASE UNCHANGED vars
  BY <1>1 DEF vars, VTypes
<1>2. ASSUME NEW affinity \in Columns, NEW v, IsValue(v), cell' = Stored(affinity, v),
             column' = affinity, passed' = {affinity}, read' = {}, drift' = 0,
             given' \in Givens \cup {None}
      PROVE  VTypes'
  <2>1. IsValue(Stored(affinity, v)) /\ InColumn(affinity, Stored(affinity, v))
    BY <1>2, ColumnsAre, StoredIsValue
  <2>2. QED
    BY <1>0, <1>2, <2>1 DEF VTypes
<1>3. ASSUME NEW affinity \in Columns, NEW o \in Givens, Write(affinity, o) PROVE VTypes'
  <2>1. PICK v \in BindCFType(o) : cell' = Stored(affinity, v)
    BY <1>3 DEF Write
  <2>2. IsValue(v)
    BY ObjectsAssumption, BoundIsValue
  <2>3. QED
    BY <1>2, <1>3, <2>1, <2>2 DEF Write
<1>4. ASSUME NEW affinity \in Columns, NEW v, IsValue(v), WriteBySQL(affinity, v) PROVE VTypes'
  BY <1>2, <1>4 DEF WriteBySQL
<1>5. ASSUME NEW w \in Words PROVE IsValue(Word(w))
  BY DEF IsValue, Word, IsText
<1>6. ASSUME NEW d \in Data PROVE IsValue(<<"blob", d>>)
  BY DEF IsValue
<1>7. IsValue(cell)
  BY DEF VTypes
<1>8. ASSUME NEW affinity \in Columns, CopyObject(affinity) PROVE VTypes'
  <2>1. drift' \in 0 .. MaxDrift /\ Copy("object", affinity, CreateCFTypeWithColumn(cell))
    BY <1>8 DEF CopyObject, VTypes
  <2>2. QED
    BY <1>7, <2>1, ObjectIsObject, CopyIs
<1>9. ASSUME NEW affinity \in Columns, CopyNumber(affinity) PROVE VTypes'
  <2>1. drift' \in 0 .. MaxDrift /\ Copy("number", affinity, CreateNumberWithColumn(cell))
    BY <1>9 DEF CopyNumber, VTypes
  <2>2. QED
    BY <1>7, <2>1, NumberIsObject, CopyIs
<1>10. ASSUME NEW affinity \in Columns, CopyDate(affinity) PROVE VTypes'
  <2>1. /\ drift' \in 0 .. MaxDrift /\ Copy("date", affinity, CreateDateWithColumn(cell))
        /\ CreateDateWithColumn(cell) # None
    BY <1>0, <1>10 DEF CopyDate
  <2>2. QED
    BY <1>7, <2>1, DateIsObject, CopyIs
<1>11. QED
  BY <1>1, <1>3, <1>4, <1>5, <1>6, <1>8, <1>9, <1>10 DEF Next

LEMMA TypesInit == Init => VTypes
<1> SUFFICES ASSUME Init PROVE VTypes
  OBVIOUS
<1>1. 0 \in 0 .. MaxDrift
  BY LimitsAssumption
<1>2. IsValue(SqlNull) /\ InColumn(column, SqlNull)
  BY DEF IsValue, InColumn, SqlNull
<1>3. QED
  BY <1>1, <1>2 DEF Init, VTypes

\* A column never holds what its affinity converts, whatever is bound to it or written
\* by SQL, and every number in it is an integer of 64 bits or a double.
THEOREM TypeCorrect == Spec => []TypeOK
<1>1. VTypes => TypeOK
  <2> SUFFICES ASSUME VTypes PROVE TypeOK
    OBVIOUS
  <2>1. cell[1] \in {"integer", "real"} => IsNumber(cell)
    BY DEF VTypes, IsValue, SqlNull
  <2>2. cell[1] \in {"null", "blob", "text", "integer", "real"}
    BY NumberParts DEF VTypes, IsValue, SqlNull
  <2>3. /\ cell[1] = "integer" => cell[2] \in Wide
        /\ cell[1] = "real" => cell[2] = Double(cell[2])
    BY <2>1, NumberParts DEF IsDouble
  <2>4. QED
    BY <2>2, <2>3 DEF VTypes, TypeOK, InColumn
<1>2. QED
  BY <1>1, TypesInit, TypesNext, PTL DEF Spec

-----------------------------------------------------------------------------
(* Strings and data.                                                         *)

LEMMA GivenObject == ASSUME VTypes, given # None PROVE given \in Givens /\ IsObject(given)
  BY ObjectsAssumption DEF VTypes

\* The cut of a well-formed string is well-formed, so the string is read as it is.
LEMMA StringIsCarried ==
  ASSUME NEW t, IsText(t), t[1] = "word" => Meaning[t[2]].utf8
  PROVE  BindCFType(CreateCFTypeWithColumn(BindString(t))) = {BindString(t)}
<1> DEFINE v == BindString(t)
<1>1. IsValue(v) /\ v[1] = "text" /\ BindString(v[2]) = v
  BY StringIsBound
<1>2. ~(v[2][1] = "word" /\ ~Meaning[v[2][2]].utf8)
  <2>1. CASE t[1] = "word"
    <3>1. t[2] \in Words /\ Meaning[Meaning[t[2]].cut].utf8
      BY <2>1, ObjectsAssumption DEF IsText, IsMeaning
    <3>2. v = Word(Meaning[t[2]].cut)
      BY <2>1, StringIsBound
    <3>3. v[2][2] = Meaning[t[2]].cut
      BY <3>2 DEF Word
    <3>4. QED
      BY <3>1, <3>3
  <2>2. CASE t[1] = "numeral"
    <3>1. v = <<"text", t>>
      BY <2>2, StringIsBound
    <3>2. QED
      BY <2>2, <3>1
  <2>3. QED
    BY <2>1, <2>2 DEF IsText
<1> HIDE DEF v
<1>3. CreateCFTypeWithColumn(v) = <<"string", v[2]>>
  BY <1>1, <1>2, ObjectIs
<1>4. BindCFType(<<"string", v[2]>>) = {BindString(v[2])}
  BY DEF BindCFType
<1>5. QED
  BY <1>1, <1>3, <1>4 DEF v

\* Storing a text leaves it alone, or the column is numeric and makes it a number.
LEMMA TextIsStored ==
  ASSUME NEW v, v[1] = "text", NEW affinity \in {"none", "numeric", "text"}
  PROVE  Stored(affinity, v) = v \/ (affinity = "numeric" /\ WholeNumber(v[2]) # None)
<1>1. v[1] \notin {"integer", "real"}
  OBVIOUS
<1>2. QED
  BY <1>1, StoredIs

LEMMA BlobIsStored ==
  ASSUME NEW v, v[1] \in {"blob", "null"}, NEW affinity \in {"none", "numeric", "text"}
  PROVE  Stored(affinity, v) = v
<1>1. v[1] \notin {"integer", "real"} /\ v[1] \notin {"text", "real"}
  OBVIOUS
<1>2. QED
  BY <1>1, StoredIs

LEMMA DataIsCarried ==
  ASSUME NEW d \in Data, NEW o \in {<<"data", d>>, kCFNull}, o = kCFNull => d = Empty,
         NEW v \in BindCFType(o), NEW affinity \in {"none", "numeric", "text"}
  PROVE  \/ CreateCFTypeWithColumn(Stored(affinity, v)) = <<"data", d>>
         \/ d = Empty /\ Stored(affinity, v) = SqlNull
<1>1. v = <<"blob", d>> \/ (d = Empty /\ v = SqlNull)
  <2>1. CASE o = kCFNull
    <3>1. BindCFType(o) = {SqlNull}
      BY <2>1, Bound
    <3>2. QED
      BY <2>1, <3>1
  <2>2. CASE o = <<"data", d>>
    <3>1. BindCFType(o) = BindData(d)
      BY <2>2, Bound
    <3>2. QED
      BY <3>1 DEF BindData
  <2>3. QED
    BY <2>1, <2>2
<1>2. Stored(affinity, v) = v
  <2>1. v[1] \in {"blob", "null"}
    BY <1>1 DEF SqlNull
  <2>2. QED
    BY <2>1, BlobIsStored
<1>3. v = <<"blob", d>> => CreateCFTypeWithColumn(v) = <<"data", d>>
  <2>1. IsValue(<<"blob", d>>)
    BY DEF IsValue
  <2>2. QED
    BY <2>1, ObjectIs
<1>4. QED
  BY <1>1, <1>2, <1>3

LEMMA StringsNext == VTypes /\ CopiesKeepTheObject /\ [Next]_vars => CopiesKeepTheObject'
<1> SUFFICES ASSUME VTypes, CopiesKeepTheObject, [Next]_vars, CopiedAs({"object"})'
             PROVE  (/\ given[1] = "string" =>
                          \/ cell = BindString(given[2])
                          \/ "numeric" \in passed /\ WholeNumber(BindString(given[2])[2]) # None
                     /\ given[1] = "data" =>
                          \/ CreateCFTypeWithColumn(cell) = given
                          \/ given[2] = Empty /\ cell = SqlNull)'
  BY DEF CopiesKeepTheObject
<1>1. CASE UNCHANGED vars
  BY <1>1 DEF vars, CopiesKeepTheObject, CopiedAs
<1>2. ASSUME NEW affinity \in Columns, NEW o \in Givens, Write(affinity, o)
      PROVE  (/\ given[1] = "string" =>
                   \/ cell = BindString(given[2])
                   \/ "numeric" \in passed /\ WholeNumber(BindString(given[2])[2]) # None
              /\ given[1] = "data" =>
                   \/ CreateCFTypeWithColumn(cell) = given
                   \/ given[2] = Empty /\ cell = SqlNull)'
  <2>1. PICK v \in BindCFType(o) : cell' = Stored(affinity, v)
    BY <1>2 DEF Write
  <2>2. given' = o /\ passed' = {affinity} /\ IsObject(o) /\ affinity \in {"none", "numeric", "text"}
    BY <1>2, ObjectsAssumption DEF Write
  <2>3. CASE o[1] = "string"
    <3>1. IsText(o[2])
      BY <2>2, <2>3 DEF IsObject, NULL, kCFNull
    <3>2. BindCFType(o) = {BindString(o[2])}
      BY <2>3, Bound
    <3>3. v = BindString(o[2]) /\ v[1] = "text"
      BY <3>1, <3>2, StringIsBound
    <3>4. QED
      BY <2>1, <2>2, <2>3, <3>3, TextIsStored
  <2>4. CASE o[1] = "data"
    <3>1. o = <<"data", o[2]>> /\ o[2] \in Data
      BY <2>2, <2>4 DEF IsObject, NULL, kCFNull
    <3>2. o # kCFNull
      BY <2>4 DEF kCFNull
    <3>3. \/ CreateCFTypeWithColumn(Stored(affinity, v)) = <<"data", o[2]>>
          \/ o[2] = Empty /\ Stored(affinity, v) = SqlNull
      BY <2>2, <3>1, <3>2, DataIsCarried
    <3>4. QED
      BY <2>1, <2>2, <2>4, <3>1, <3>3
  <2>5. QED
    BY <2>2, <2>3, <2>4
<1>3. ASSUME NEW affinity \in Columns, CopyObject(affinity)
      PROVE  (/\ given[1] = "string" =>
                   \/ cell = BindString(given[2])
                   \/ "numeric" \in passed /\ WholeNumber(BindString(given[2])[2]) # None
              /\ given[1] = "data" =>
                   \/ CreateCFTypeWithColumn(cell) = given
                   \/ given[2] = Empty /\ cell = SqlNull)'
  <2> DEFINE o == CreateCFTypeWithColumn(cell)
  <2>1. Copy("object", affinity, o)
    BY <1>3 DEF CopyObject
  <2>2. PICK v \in BindCFType(o) : cell' = Stored(affinity, v)
    BY <2>1 DEF Copy
  <2>3. /\ given' = given /\ passed' = passed \cup {affinity} /\ read' = read \cup {"object"}
        /\ affinity \in {"none", "numeric", "text"}
    BY <2>1, ColumnsAre DEF Copy
  <2>4. CopiedAs({"object"})
    BY <2>3 DEF CopiedAs
  <2>5. IsObject(given)
    BY <2>4, GivenObject DEF CopiedAs
  <2> HIDE DEF o
  <2>6. CASE given[1] = "string"
    <3>1. IsText(given[2]) /\ (given[2][1] = "word" => Meaning[given[2][2]].utf8)
      BY <2>5, <2>6 DEF IsObject, NULL, kCFNull
    <3>2. CASE cell = BindString(given[2])
      <4>1. v = BindString(given[2]) /\ v[1] = "text"
        BY <3>1, <3>2, StringIsCarried, StringIsBound DEF o
      <4>2. QED
        BY <2>2, <2>3, <2>6, <4>1, TextIsStored
    <3>3. CASE "numeric" \in passed /\ WholeNumber(BindString(given[2])[2]) # None
      BY <2>3, <2>6, <3>3
    <3>4. QED
      BY <2>4, <2>6, <3>2, <3>3 DEF CopiesKeepTheObject
  <2>7. CASE given[1] = "data"
    <3>1. given = <<"data", given[2]>> /\ given[2] \in Data
      BY <2>5, <2>7 DEF IsObject, NULL, kCFNull
    <3>2. o \in {<<"data", given[2]>>, kCFNull} /\ (o = kCFNull => given[2] = Empty)
      <4>1. CASE CreateCFTypeWithColumn(cell) = given
        BY <3>1, <4>1, <2>7 DEF o, kCFNull
      <4>2. CASE given[2] = Empty /\ cell = SqlNull
        BY <4>2, ObjectIs DEF o, VTypes
      <4>3. QED
        BY <2>4, <2>7, <4>1, <4>2 DEF CopiesKeepTheObject
    <3>3. \/ CreateCFTypeWithColumn(Stored(affinity, v)) = <<"data", given[2]>>
          \/ given[2] = Empty /\ Stored(affinity, v) = SqlNull
      BY <2>3, <3>1, <3>2, DataIsCarried
    <3>4. QED
      BY <2>2, <2>3, <2>7, <3>1, <3>3
  <2>8. QED
    BY <2>3, <2>6, <2>7
<1>4. ASSUME NEW affinity \in Columns, CopyNumber(affinity) \/ CopyDate(affinity) PROVE FALSE
  <2>1. "number" \in read' \/ "date" \in read'
    BY <1>4 DEF CopyNumber, CopyDate, Copy
  <2>2. QED
    BY <2>1 DEF CopiedAs
<1>5. ASSUME NEW affinity, NEW v, WriteBySQL(affinity, v) PROVE FALSE
  BY <1>5 DEF WriteBySQL, CopiedAs
<1>6. QED
  BY <1>1, <1>2, <1>3, <1>4, <1>5 DEF Next

\* However often strings and data are copied as objects, through whichever columns, the
\* object read is the one that was written, but for the named cases.
THEOREM ObjectsAreKept == Spec => []CopiesKeepTheObject
<1>1. Init => CopiesKeepTheObject
  BY DEF Init, CopiesKeepTheObject, CopiedAs
<1>2. VTypes /\ CopiesKeepTheObject /\ [Next]_vars => (VTypes /\ CopiesKeepTheObject)'
  BY TypesNext, StringsNext
<1>3. QED
  BY <1>1, <1>2, TypesInit, PTL DEF Spec

-----------------------------------------------------------------------------
(* Numbers.                                                                  *)

LEMMA NumeralParts ==
  ASSUME NEW v, IsValue(v), IsNumeral(v)
  PROVE  IsNumber(v[2][2]) /\ v = Numeral(v[2][2]) /\ v[2] = <<"numeral", v[2][2]>>
<1>1. v = <<"text", v[2]>> /\ IsText(v[2])
  BY DEF IsValue, IsNumeral, SqlNull, IsNumber
<1>2. v[2] = <<"numeral", v[2][2]>> /\ IsNumber(v[2][2])
  BY <1>1 DEF IsText, IsNumeral
<1>3. QED
  BY <1>1, <1>2 DEF Numeral

\* A number is stored without loss, but in a text column with the digits printed.
LEMMA NumberIsStored ==
  ASSUME NEW n, IsNumber(n), NEW affinity \in {"none", "numeric", "text"}
  PROVE  /\ Keeps(ValueOf(n), {affinity}) => Holds(Stored(affinity, n), ValueOf(n), affinity = "text")
         /\ n[1] = "integer" => Stored(affinity, n) \in {n, Numeral(n)}
<1>0. n[1] \in {"integer", "real"}
  BY NumberParts
<1>1. CASE affinity = "none"
  BY <1>1, StoredIs DEF Holds
<1>2. CASE affinity = "numeric"
  BY <1>0, <1>2, StoredIs, AffinityKeepsNumber DEF Holds
<1>3. CASE affinity = "text"
  <2>1. Stored(affinity, n) = AsText(n)
    BY <1>0, <1>3, StoredIs
  <2>2. CASE n[1] = "integer"
    <3>1. AsText(n) = Numeral(n)
      BY <2>2, AsTextIsText
    <3>2. QED
      BY <1>3, <2>1, <3>1 DEF Holds, Numeral, IsNumeral
  <2>3. CASE n[1] = "real"
    <3>1. AsText(n) = Numeral(<<"real", Printed(n[2])>>)
      BY <2>3, AsTextIsText
    <3>2. Keeps(ValueOf(n), {affinity}) => Printed(n[2]) = n[2] /\ ValueOf(n) = n[2]
      BY <1>3, <2>3 DEF Keeps, ValueOf
    <3>3. QED
      BY <1>3, <2>1, <2>3, <3>1, <3>2 DEF Holds, Numeral, IsNumeral, ValueOf
  <2>4. QED
    BY <1>0, <2>2, <2>3
<1>4. QED
  BY <1>1, <1>2, <1>3

LEMMA NumeralIsStored ==
  ASSUME NEW q, IsNumber(q), NEW affinity \in {"none", "numeric", "text"}
  PROVE  /\ Holds(Stored(affinity, Numeral(q)), ValueOf(q), TRUE)
         /\ q[1] = "integer" => Stored(affinity, Numeral(q)) \in {q, Numeral(q)}
<1>0. Holds(Numeral(q), ValueOf(q), TRUE)
  BY DEF Holds, IsNumeral, Numeral
<1>1. /\ Numeral(q)[1] = "text" /\ WholeNumber(Numeral(q)[2]) = q /\ q # None
      /\ Holds(Numeral(q), ValueOf(q), TRUE)
  BY <1>0, NumeralIsText, NumberParts
<1>2. CASE affinity \in {"none", "text"}
  <2>1. Stored(affinity, Numeral(q)) = Numeral(q)
    BY <1>1, <1>2, StoredIs
  <2>2. QED
    BY <1>1, <2>1
<1>3. CASE affinity = "numeric"
  <2>1. Stored(affinity, Numeral(q)) = NumericAffinity(q)
    BY <1>1, <1>3, StoredIs
  <2>2. QED
    BY <2>1, AffinityKeepsNumber DEF Holds
<1>4. QED
  BY <1>2, <1>3

LEMMA HeldIsStored ==
  ASSUME NEW v, IsValue(v), NEW x, NEW columns, Holds(v, x, "text" \in columns),
         NEW affinity \in {"none", "numeric", "text"}, Keeps(x, columns \cup {affinity})
  PROVE  Holds(Stored(affinity, v), x, "text" \in columns \cup {affinity})
<1>1. CASE IsNumber(v) /\ ValueOf(v) = x
  <2>1. Keeps(ValueOf(v), {affinity})
    BY <1>1 DEF Keeps
  <2>2. Holds(Stored(affinity, v), x, affinity = "text")
    BY <1>1, <2>1, NumberIsStored
  <2>3. QED
    BY <2>2 DEF Holds
<1>2. CASE "text" \in columns /\ IsNumeral(v) /\ ValueOf(v[2][2]) = x
  <2>1. IsNumber(v[2][2]) /\ v = Numeral(v[2][2])
    BY <1>2, NumeralParts
  <2>2. Holds(Stored(affinity, Numeral(v[2][2])), ValueOf(v[2][2]), TRUE)
    BY <2>1, NumeralIsStored
  <2>3. QED
    BY <1>2, <2>1, <2>2
<1>3. QED
  BY <1>1, <1>2 DEF Holds

\* A number or a numeral is carried by an object as it is.
LEMMA NumberIsBound ==
  ASSUME NEW n, IsNumber(n) PROVE BindCFType(<<"number", n>>) = {n}
<1>1. BindCFType(<<"number", n>>) = {BindNumber(n)}
  BY DEF BindCFType
<1>2. QED
  BY <1>1, NumberParts DEF BindNumber

LEMMA NumberIsCarried ==
  ASSUME NEW v, IsNumber(v)
  PROVE  /\ CreateCFTypeWithColumn(v) = <<"number", v>> /\ CreateNumberWithColumn(v) = <<"number", v>>
         /\ BindCFType(CreateCFTypeWithColumn(v)) = {v} /\ BindCFType(CreateNumberWithColumn(v)) = {v}
<1>1. v[1] \in {"integer", "real"} /\ v = <<v[1], v[2]>> /\ IsValue(v)
  BY NumberParts DEF IsValue
<1>2. CreateCFTypeWithColumn(v) = <<"number", v>>
  BY <1>1, ObjectIs
<1>3. CreateNumberWithColumn(v) = <<"number", v>>
  BY <1>1, NumberIs
<1>4. QED
  BY <1>2, <1>3, NumberIsBound

LEMMA NumeralIsCarried ==
  ASSUME NEW v, IsValue(v), IsNumeral(v)
  PROVE  BindCFType(CreateCFTypeWithColumn(v)) = {v}
<1>1. v[1] = "text" /\ v[2][1] = "numeral" /\ v[2] = <<"numeral", v[2][2]>> /\ v = Numeral(v[2][2])
  BY NumeralParts DEF IsNumeral
<1>2. CreateCFTypeWithColumn(v) = <<"string", v[2]>>
  BY <1>1, ObjectIs
<1>3. BindCFType(<<"string", v[2]>>) = {BindString(v[2])}
  BY DEF BindCFType
<1>4. BindString(v[2]) = v
  BY <1>1 DEF BindString, Numeral
<1>5. QED
  BY <1>2, <1>3, <1>4

LEMMA HeldIsCarried ==
  ASSUME NEW v, IsValue(v), NEW x, NEW texts, Holds(v, x, texts)
  PROVE  BindCFType(CreateCFTypeWithColumn(v)) = {v}
  BY NumberIsCarried, NumeralIsCarried DEF Holds

\* A numeral with few enough digits is read as the number it stands for.
LEMMA NumeralIsRead ==
  ASSUME NEW v, IsValue(v), IsNumeral(v), NEW x, ValueOf(v[2][2]) = x, Printed(x) = x
  PROVE  \E n : IsNumber(n) /\ ValueOf(n) = x /\ CreateNumberWithColumn(v) = <<"number", n>>
<1> DEFINE q == v[2][2]
           n == ReadByStrtod(<<"numeral", q>>)
<1>1. IsNumber(q) /\ v[1] = "text" /\ v[2] = <<"numeral", q>>
  BY NumeralParts DEF IsNumeral
<1>2. ValueOf(q) = x
  OBVIOUS
<1> HIDE DEF q
<1>3. IsNumber(n)
  BY <1>1, ReadNumeral
<1>4. ValueOf(n) = x
  <2>1. CASE q[1] = "integer"
    <3>1. q[2] \in Wide /\ x = 2 * q[2]
      BY <1>1, <1>2, <2>1, NumberParts DEF ValueOf
    <3>2. Double(2 * q[2]) = 2 * q[2]
      BY <3>1, PrintableIsDouble DEF IsDouble
    <3>3. n = <<"real", x>>
      BY <1>1, <2>1, <3>1, <3>2, ReadNumeral
    <3>4. QED
      BY <3>3 DEF ValueOf
  <2>2. CASE q[1] = "real"
    BY <1>1, <1>2, <2>2, ReadNumeral
  <2>3. QED
    BY <1>1, <2>1, <2>2, NumberParts
<1>5. CreateNumberWithColumn(v) = <<"number", n>>
  <2>1. n # None
    BY <1>3, NumberParts
  <2>2. QED
    BY <1>1, <2>1, NumberIs
<1>6. QED
  BY <1>3, <1>4, <1>5

LEMMA HeldIsRead ==
  ASSUME NEW v, IsValue(v), NEW x, NEW columns, Holds(v, x, "text" \in columns), Keeps(x, columns)
  PROVE  \E n : IsNumber(n) /\ ValueOf(n) = x /\ CreateNumberWithColumn(v) = <<"number", n>>
<1>1. CASE IsNumber(v) /\ ValueOf(v) = x
  BY <1>1, NumberIsCarried
<1>2. CASE "text" \in columns /\ IsNumeral(v) /\ ValueOf(v[2][2]) = x
  BY <1>2, NumeralIsRead DEF Keeps
<1>3. QED
  BY <1>1, <1>2 DEF Holds

\* What an integer or boolean is bound as.
LEMMA IntegerIsBound ==
  ASSUME NEW o, IsObject(o), IsInteger(o)
  PROVE  Integer(o) \in Wide /\ BindCFType(o) = {<<"integer", Integer(o)>>}
<1>1. CASE o[1] = "boolean"
  <2>1. BindCFType(o) = {BindNumber(<<"integer", IF o[2] THEN 1 ELSE 0>>)}
    BY <1>1 DEF BindCFType
  <2>2. Integer(o) = (IF o[2] THEN 1 ELSE 0) /\ Integer(o) \in Wide
    BY <1>1, Limits DEF Integer
  <2>3. BindNumber(<<"integer", Integer(o)>>) = <<"integer", Integer(o)>>
    BY <2>2, IntegerIsNumber, NumberParts DEF BindNumber
  <2>4. QED
    BY <2>1, <2>2, <2>3
<1>2. CASE o[1] = "number" /\ o[2][1] = "integer"
  <2>1. o = <<"number", o[2]>> /\ (o[2] = <<"nan">> \/ IsNumber(o[2]))
    BY <1>2 DEF IsObject, NULL, kCFNull
  <2>2. IsNumber(o[2])
    BY <1>2, <2>1
  <2>3. o[2] = <<"integer", o[2][2]>> /\ o[2][2] \in Wide
    BY <1>2, <2>2 DEF IsNumber
  <2>4. Integer(o) = o[2][2]
    BY <1>2 DEF Integer
  <2>5. BindCFType(<<"number", o[2]>>) = {o[2]}
    BY <2>2, NumberIsBound
  <2>6. QED
    BY <2>1, <2>3, <2>4, <2>5
<1>3. QED
  BY <1>1, <1>2 DEF IsInteger

\* What a step makes of a cell that was bound to.
LEMMA StepOfACell ==
  ASSUME VTypes, [Next]_vars, given' # None
  PROVE  \/ UNCHANGED vars
         \/ \E affinity \in {"none", "numeric", "text"} : \E o \in Givens : \E v \in BindCFType(o) :
              /\ IsObject(o) /\ given' = o /\ passed' = {affinity} /\ drift' = 0
              /\ cell' = Stored(affinity, v)
         \/ \E affinity \in {"none", "numeric", "text"} : \E o, reader : \E v \in BindCFType(o) :
              /\ given' = given /\ passed' = passed \cup {affinity} /\ read' = read \cup {reader}
              /\ IsObject(given) /\ IsValue(v) /\ cell' = Stored(affinity, v)
              /\ \/ reader = "object" /\ o = CreateCFTypeWithColumn(cell) /\ drift' = drift
                 \/ reader = "number" /\ o = CreateNumberWithColumn(cell) /\ drift' = drift
                 \/ reader = "date" /\ o = CreateDateWithColumn(cell) /\ drift' = drift + 1
                    /\ drift < MaxDrift
<1>0. IsValue(cell)
  BY DEF VTypes
<1>1. ASSUME NEW affinity \in Columns, NEW o \in Givens, Write(affinity, o)
      PROVE  \E v \in BindCFType(o) :
               /\ affinity \in {"none", "numeric", "text"}
               /\ IsObject(o) /\ given' = o /\ passed' = {affinity} /\ drift' = 0
               /\ cell' = Stored(affinity, v)
  BY <1>1, ObjectsAssumption DEF Write
<1>2. ASSUME NEW affinity, NEW v, WriteBySQL(affinity, v) PROVE FALSE
  BY <1>2 DEF WriteBySQL
<1>3. ASSUME NEW affinity \in Columns, NEW o, IsObject(o), NEW reader, Copy(reader, affinity, o)
      PROVE  \E v \in BindCFType(o) :
               /\ affinity \in {"none", "numeric", "text"}
               /\ given' = given /\ passed' = passed \cup {affinity} /\ read' = read \cup {reader}
               /\ IsObject(given) /\ IsValue(v) /\ cell' = Stored(affinity, v)
  BY <1>3, BoundIsValue, GivenObject, ColumnsAre DEF Copy
<1>4. /\ IsObject(CreateCFTypeWithColumn(cell)) /\ IsObject(CreateNumberWithColumn(cell))
      /\ CreateDateWithColumn(cell) # None => IsObject(CreateDateWithColumn(cell))
  BY <1>0, ObjectIsObject, NumberIsObject, DateIsObject
<1>5. CASE UNCHANGED vars
  BY <1>5
<1>6. CASE Next
  <2>1. PICK affinity \in Columns :
          \/ \E object \in Givens : Write(affinity, object)
          \/ CopyObject(affinity) \/ CopyNumber(affinity) \/ CopyDate(affinity)
    BY <1>2, <1>6 DEF Next
  <2>2. CASE \E object \in Givens : Write(affinity, object)
    BY <1>1, <2>2
  <2>3. CASE CopyObject(affinity)
    BY <1>3, <1>4, <2>3 DEF CopyObject
  <2>4. CASE CopyNumber(affinity)
    BY <1>3, <1>4, <2>4 DEF CopyNumber
  <2>5. CASE CopyDate(affinity)
    BY <1>3, <1>4, <2>5 DEF CopyDate
  <2>6. QED
    BY <2>1, <2>2, <2>3, <2>4, <2>5
<1>7. QED
  BY <1>5, <1>6

LEMMA IntegersNext == VTypes /\ IntegersStay /\ [Next]_vars => IntegersStay'
<1> SUFFICES ASSUME VTypes, IntegersStay, [Next]_vars, CopiedAs({"object"})', IsInteger(given')
             PROVE  cell' \in {<<"integer", Integer(given')>>, Numeral(<<"integer", Integer(given')>>)}
  BY DEF IntegersStay, IsInteger, Integer, Numeral
<1>0. given' # None
  BY DEF CopiedAs
<1>1. CASE UNCHANGED vars
  BY <1>1 DEF vars, IntegersStay, CopiedAs, IsInteger, Integer, Numeral
<1>2. ASSUME NEW affinity \in {"none", "numeric", "text"}, NEW o, NEW v \in BindCFType(o),
             IsObject(o), given' = o, cell' = Stored(affinity, v)
      PROVE  cell' \in {<<"integer", Integer(o)>>, Numeral(<<"integer", Integer(o)>>)}
  <2>1. Integer(o) \in Wide /\ v = <<"integer", Integer(o)>>
    <3>1. Integer(o) \in Wide /\ BindCFType(o) = {<<"integer", Integer(o)>>}
      BY <1>2, IntegerIsBound
    <3>2. QED
      BY <3>1
  <2>2. IsNumber(v) /\ v[1] = "integer"
    BY <2>1, IntegerIsNumber
  <2>3. QED
    BY <1>2, <2>1, <2>2, NumberIsStored
<1>3. ASSUME NEW affinity \in {"none", "numeric", "text"}, NEW v \in BindCFType(CreateCFTypeWithColumn(cell)),
             given' = given, read' = read \cup {"object"}, IsObject(given), cell' = Stored(affinity, v)
      PROVE  cell' \in {<<"integer", Integer(given)>>, Numeral(<<"integer", Integer(given)>>)}
  <2> DEFINE n == <<"integer", Integer(given)>>
  <2>1. IsNumber(n) /\ n[1] = "integer"
    BY <1>3, IntegerIsBound, IntegerIsNumber
  <2>2. cell \in {n, Numeral(n)}
    BY <1>3 DEF IntegersStay, CopiedAs
  <2> HIDE DEF n
  <2>3. v = cell
    <3>1. CASE cell = n
      <4>1. BindCFType(CreateCFTypeWithColumn(n)) = {n}
        BY <2>1, NumberIsCarried
      <4>2. QED
        BY <3>1, <4>1
    <3>2. CASE cell = Numeral(n)
      <4>1. IsValue(Numeral(n)) /\ IsNumeral(Numeral(n))
        <5>1. IsNumeral(Numeral(n))
          BY DEF IsNumeral, Numeral
        <5>2. QED
          BY <2>1, <5>1, NumeralIsText
      <4>2. BindCFType(CreateCFTypeWithColumn(Numeral(n))) = {Numeral(n)}
        BY <4>1, NumeralIsCarried
      <4>3. QED
        BY <3>2, <4>2
    <3>3. QED
      BY <2>2, <3>1, <3>2
  <2>4. Stored(affinity, n) \in {n, Numeral(n)} /\ Stored(affinity, Numeral(n)) \in {n, Numeral(n)}
    BY <2>1, NumberIsStored, NumeralIsStored
  <2>5. cell' \in {n, Numeral(n)}
    BY <1>3, <2>2, <2>3, <2>4
  <2>6. QED
    BY <2>5 DEF n
<1>4. ASSUME NEW reader, reader \in {"number", "date"}, read' = read \cup {reader} PROVE FALSE
  BY <1>4 DEF CopiedAs
<1>5. QED
  BY <1>0, <1>1, <1>2, <1>3, <1>4, StepOfACell

LEMMA ValuesNext == VTypes /\ ValuesStay /\ [Next]_vars => ValuesStay'
<1> DEFINE x == ValueOf(given[2])
<1> SUFFICES ASSUME VTypes, ValuesStay, [Next]_vars, IsCopiedNumber', Keeps(x', passed')
             PROVE  Holds(cell', x', "text" \in passed')
  BY DEF ValuesStay, Keeps, Holds, ValueOf, IsNumber, IsNumeral, IsDouble, Double, Printed
<1>0. given' # None /\ given'[1] = "number" /\ given'[2] # <<"nan">>
  BY DEF IsCopiedNumber, CopiedAs
<1>1. CASE UNCHANGED vars
  <2>1. IsCopiedNumber /\ x' = x /\ passed' = passed /\ cell' = cell
    BY <1>1 DEF vars, IsCopiedNumber, CopiedAs, ValueOf
  <2>2. QED
    BY <2>1 DEF ValuesStay
<1>2. ASSUME NEW affinity \in {"none", "numeric", "text"}, NEW o, NEW v \in BindCFType(o),
             IsObject(o), given' = o, passed' = {affinity}, cell' = Stored(affinity, v)
      PROVE  Holds(cell', x', "text" \in passed')
  <2>1. o = <<"number", o[2]>> /\ IsNumber(o[2])
    BY <1>0, <1>2 DEF IsObject, NULL, kCFNull
  <2>2. v = o[2]
    <3>1. BindCFType(<<"number", o[2]>>) = {o[2]}
      BY <2>1, NumberIsBound
    <3>2. QED
      BY <2>1, <3>1
  <2>3. x' = ValueOf(v) /\ Keeps(ValueOf(v), {affinity})
    BY <1>2, <2>2 DEF ValueOf
  <2>4. Holds(Stored(affinity, v), ValueOf(v), affinity = "text")
    BY <2>1, <2>2, <2>3, NumberIsStored
  <2>5. ("text" \in passed') <=> affinity = "text"
    BY <1>2
  <2>6. QED
    BY <1>2, <2>3, <2>4, <2>5 DEF Holds
<1>3. ASSUME NEW affinity \in {"none", "numeric", "text"}, NEW v,
             v \in BindCFType(CreateCFTypeWithColumn(cell)) \/ v \in BindCFType(CreateNumberWithColumn(cell)),
             given' = given, passed' = passed \cup {affinity}, read \subseteq read', IsValue(v),
             cell' = Stored(affinity, v)
      PROVE  Holds(cell', x', "text" \in passed')
  <2>1. x' = x
    BY <1>3 DEF ValueOf
  <2>2. Keeps(x, passed) /\ Keeps(x, passed \cup {affinity})
    BY <1>3, <2>1 DEF Keeps
  <2>3. IsCopiedNumber
    BY <1>3 DEF IsCopiedNumber, CopiedAs
  <2>4. Holds(cell, x, "text" \in passed) /\ IsValue(cell)
    BY <2>2, <2>3 DEF ValuesStay, VTypes
  <2> HIDE DEF x
  <2>5. Holds(v, x, "text" \in passed)
    <3>1. CASE v \in BindCFType(CreateCFTypeWithColumn(cell))
      <4>1. BindCFType(CreateCFTypeWithColumn(cell)) = {cell}
        BY <2>4, HeldIsCarried
      <4>2. QED
        BY <2>4, <3>1, <4>1
    <3>2. CASE v \in BindCFType(CreateNumberWithColumn(cell))
      <4>1. PICK n : IsNumber(n) /\ ValueOf(n) = x /\ CreateNumberWithColumn(cell) = <<"number", n>>
        BY <2>2, <2>4, HeldIsRead
      <4>2. BindCFType(<<"number", n>>) = {n}
        BY <4>1, NumberIsBound
      <4>3. QED
        BY <3>2, <4>1, <4>2 DEF Holds
    <3>3. QED
      BY <1>3, <3>1, <3>2
  <2>6. Holds(Stored(affinity, v), x, "text" \in passed \cup {affinity})
    BY <1>3, <2>2, <2>5, HeldIsStored
  <2>7. QED
    BY <1>3, <2>1, <2>6
<1>4. ASSUME NEW reader, reader = "date", read' = read \cup {reader} PROVE FALSE
  BY <1>4 DEF IsCopiedNumber, CopiedAs
<1> HIDE DEF x
<1>5. QED
  BY <1>0, <1>1, <1>2, <1>3, <1>4, StepOfACell

LEMMA IntegerOfCell ==
  ASSUME NEW v, IsNumber(v) PROVE GetInt64WithColumn(v) = ToInteger(ValueOf(v))
<1>1. CASE v[1] = "integer"
  <2>1. v[2] \in Wide /\ v[2] \in Int
    BY <1>1, NumberParts
  <2>2. ToInteger(2 * v[2]) = v[2]
    <3>1. 2 * v[2] \in Int
      BY <2>1
    <3>2. QED
      BY <2>1, <3>1, ToIntegerIsWide
  <2>3. QED
    BY <1>1, <2>2 DEF GetInt64WithColumn, ValueOf
<1>2. CASE v[1] = "real"
  BY <1>2 DEF GetInt64WithColumn, ValueOf
<1>3. QED
  BY <1>1, <1>2, NumberParts

LEMMA IntegersAreRead ==
  VTypes /\ IntegersStay /\ CopiedAs({"object"}) /\ IsInteger(given) =>
    /\ GetInt64WithColumn(cell) = Integer(given)
    /\ Integer(given) \in Narrow => /\ GetInt32WithColumn(cell) = Integer(given)
                                    /\ GetBOOLWithColumn(cell) <=> Integer(given) # 0
<1> SUFFICES ASSUME VTypes, IntegersStay, CopiedAs({"object"}), IsInteger(given)
             PROVE  /\ GetInt64WithColumn(cell) = Integer(given)
                    /\ Integer(given) \in Narrow => /\ GetInt32WithColumn(cell) = Integer(given)
                                                    /\ GetBOOLWithColumn(cell) <=> Integer(given) # 0
  OBVIOUS
<1> DEFINE n == Integer(given)
<1>1. cell \in {<<"integer", n>>, Numeral(<<"integer", n>>)}
  BY DEF IntegersStay
<1> HIDE DEF n
<1>2. GetInt64WithColumn(cell) = n
  <2>1. CASE cell = <<"integer", n>>
    BY <2>1 DEF GetInt64WithColumn
  <2>2. CASE cell = Numeral(<<"integer", n>>)
    <3>1. cell[1] = "text" /\ cell[2] = <<"numeral", <<"integer", n>>>>
      BY <2>2 DEF Numeral
    <3>2. GetInt64WithColumn(cell) = IntegerOfNumeral(<<"integer", n>>)
      BY <3>1 DEF GetInt64WithColumn
    <3>3. QED
      BY <3>2 DEF IntegerOfNumeral
  <2>3. QED
    BY <1>1, <2>1, <2>2
<1>3. ASSUME n \in Narrow PROVE LowWord(n) = n
  BY <1>3, LowWordOfNarrow
<1>4. QED
  BY <1>2, <1>3 DEF n, GetInt32WithColumn, GetBOOLWithColumn

NInv == VTypes /\ IntegersStay /\ ValuesStay

\* However often an integer or boolean is copied as an object, and through whichever
\* columns, GetInt64 reads what was written, and GetInt32 and GetBOOL too if it is
\* narrow; and any number that has few enough digits, or lay in no text column, is read
\* by the reader of numbers as the number written, whichever of the two readers copied it.
THEOREM NumbersAreKept == Spec => []NumbersSurvive
<1>1. Init => NInv
  BY TypesInit DEF Init, NInv, IntegersStay, ValuesStay, IsCopiedNumber, CopiedAs
<1>2. NInv /\ [Next]_vars => NInv'
  BY TypesNext, IntegersNext, ValuesNext DEF NInv
<1>3. NInv => NumbersSurvive
  <2> SUFFICES ASSUME NInv PROVE NumbersSurvive
    OBVIOUS
  <2>1. VTypes /\ IntegersStay /\ ValuesStay /\ IsValue(cell)
    BY DEF NInv, VTypes
  <2>2. ASSUME IsCopiedNumber, Keeps(ValueOf(given[2]), passed)
        PROVE  /\ CreateNumberWithColumn(cell)[1] = "number"
               /\ ValueOf(CreateNumberWithColumn(cell)[2]) = ValueOf(given[2])
    <3> DEFINE x == ValueOf(given[2])
    <3>1. Holds(cell, x, "text" \in passed)
      BY <2>1, <2>2 DEF ValuesStay
    <3> HIDE DEF x
    <3>2. PICK n : IsNumber(n) /\ ValueOf(n) = x /\ CreateNumberWithColumn(cell) = <<"number", n>>
      BY <2>1, <2>2, <3>1, HeldIsRead DEF x
    <3>3. QED
      BY <3>2 DEF x
  <2>3. QED
    BY <2>1, <2>2, IntegersAreRead DEF NumbersSurvive, IsCopiedNumber, Keeps
<1>4. QED
  BY <1>1, <1>2, <1>3, PTL DEF Spec

-----------------------------------------------------------------------------
(* Dates.                                                                    *)

LEMMA WholeSeconds ==
  ASSUME NEW h \in -Mantissa .. Mantissa, Mantissa < 2 * WideLimit
  PROVE  /\ ToInteger(h) \in Int
         /\ h >= 0 => 0 <= ToInteger(h) /\ 2 * ToInteger(h) <= h
         /\ h < 0 => ToInteger(h) <= 0 /\ h <= 2 * ToInteger(h)
<1>1. Mantissa \in Nat /\ h \in Int /\ -Mantissa <= h /\ h <= Mantissa
  BY LimitsAssumption
<1> DEFINE whole == IF h < 0 THEN -((-h) \div 2) ELSE h \div 2
<1>2. ToInteger(h) = CASE h < 2 * MinWide \/ h > 2 * (MaxWide + 1) -> MinWide
                       [] h = 2 * (MaxWide + 1)                    -> Overflow
                       [] OTHER                                    -> whole
  BY DEF ToInteger
<1>3. /\ whole \in Int
      /\ h >= 0 => 2 * whole <= h /\ whole >= 0
      /\ h < 0 => h <= 2 * whole /\ whole <= 0
  BY <1>1
<1> HIDE DEF whole
<1>4. ToInteger(h) = whole
  BY <1>1, <1>2, Limits
<1>5. QED
  BY <1>3, <1>4

\* A date written, and what it drifts to, is exact all the way.
LEMMA DriftIsExact ==
  ASSUME DatesAreExact, NEW o \in Givens, o[1] = "date", NEW k \in 0 .. MaxDrift
  PROVE  LET time == o[2] - Epoch
             w    == 2 * (ToInteger(time) - k * Epoch)
         IN /\ time \in Int /\ Double(time) = time
            /\ w \in Int /\ Double(w) = w /\ Double(w - Epoch) = w - Epoch
            /\ k < MaxDrift => Double(w - Epoch - Epoch) = w - Epoch - Epoch
            /\ ToInteger(w) = ToInteger(time) - k * Epoch
            /\ ToInteger(time) \in Int
<1> DEFINE time == o[2] - Epoch
           t == ToInteger(time)
           w == 2 * (t - k * Epoch)
<1>1. /\ Mantissa \in Nat \ {0} /\ Epoch \in Nat /\ MaxDrift \in Nat /\ k \in Nat /\ k <= MaxDrift
      /\ Mantissa < 2 * WideLimit
  BY LimitsAssumption DEF DatesAreExact
<1>2. /\ time \in -Mantissa .. Mantissa /\ time \in Int
      /\ (2 * MaxDrift + 1) * Epoch <= Mantissa
      /\ time - (2 * MaxDrift + 1) * Epoch >= -Mantissa
  BY <1>1 DEF DatesAreExact
<1> HIDE DEF time
<1>3. t \in Int /\ (time >= 0 => 0 <= t /\ 2 * t <= time) /\ (time < 0 => t <= 0 /\ time <= 2 * t)
  BY <1>1, <1>2, WholeSeconds
<1> HIDE DEF t
<1>4. /\ k * Epoch \in Nat /\ MaxDrift * Epoch \in Nat
      /\ (2 * MaxDrift + 1) * Epoch = 2 * (MaxDrift * Epoch) + Epoch
      /\ k * Epoch <= MaxDrift * Epoch
      /\ k < MaxDrift => k * Epoch + Epoch <= MaxDrift * Epoch
  <2>1. CASE Epoch = 0
    BY <1>1, <2>1
  <2>2. CASE Epoch # 0
    <3>1. /\ Epoch * k \in Int /\ Epoch * k <= Epoch * MaxDrift
          /\ k < MaxDrift => Epoch * k + Epoch <= Epoch * MaxDrift
      BY <1>1, <2>2, Monotonic
    <3>2. QED
      BY <1>1, <3>1
  <2>3. QED
    BY <2>1, <2>2
<1>5. /\ w \in Int /\ w <= Mantissa /\ w - Epoch >= -Mantissa
      /\ k < MaxDrift => w - Epoch - Epoch >= -Mantissa
  <2>1. \A e, m \in Nat : /\ e <= m
                          /\ time - (2 * m + Epoch) >= -Mantissa
                          /\ 2 * m + Epoch <= Mantissa
                          => /\ 2 * (t - e) <= Mantissa /\ 2 * (t - e) - Epoch >= -Mantissa
                             /\ e + Epoch <= m => 2 * (t - e) - Epoch - Epoch >= -Mantissa
    BY <1>1, <1>2, <1>3
  <2>2. QED
    BY <1>1, <1>2, <1>3, <1>4, <2>1
<1> HIDE DEF w
<1>6. \A h \in Int : -Mantissa <= h /\ h <= Mantissa => Double(h) = h
  BY <1>1, SmallIsExact DEF Double, Abs
<1>7. Double(time) = time /\ Double(w) = w /\ Double(w - Epoch) = w - Epoch
  BY <1>1, <1>2, <1>5, <1>6
<1>8. k < MaxDrift => Double(w - Epoch - Epoch) = w - Epoch - Epoch
  BY <1>1, <1>5, <1>6
<1>9. ToInteger(w) = t - k * Epoch
  <2>1. t - k * Epoch \in Wide
    <3>1. t - k * Epoch \in Int /\ w = 2 * (t - k * Epoch)
      BY <1>3, <1>4 DEF w
    <3>2. QED
      BY <1>1, <1>5, <3>1, Limits
  <2>2. w = 2 * (t - k * Epoch)
    BY DEF w
  <2>3. QED
    BY <1>5, <2>1, <2>2, ToIntegerIsWide
<1>10. QED
  BY <1>2, <1>3, <1>5, <1>7, <1>8, <1>9 DEF w, t, time

\* The date read from a cell after k copies as a date.
LEMMA DateIsRead ==
  ASSUME DatesAreExact, NEW o \in Givens, o[1] = "date", NEW k \in 0 .. MaxDrift,
         NEW v, IsNumber(v), ValueOf(v) = Drifted(o[2] - Epoch, k)
  PROVE  CreateDateWithColumn(v) =
           <<"date", 2 * (ToInteger(o[2] - Epoch) - k * Epoch) - Epoch>>
<1> DEFINE time == o[2] - Epoch
           t == ToInteger(time)
           w == 2 * (t - k * Epoch)
<1>1. /\ time \in Int /\ t \in Int /\ w \in Int /\ Double(w) = w /\ Double(w - Epoch) = w - Epoch
      /\ ToInteger(w) = t - k * Epoch
  BY DriftIsExact
<1>2. Epoch \in Nat /\ k \in Nat
  BY LimitsAssumption
<1>3. GetInt64WithColumn(v) = t - k * Epoch
  <2>1. GetInt64WithColumn(v) = ToInteger(Drifted(time, k))
    BY IntegerOfCell
  <2>2. CASE k = 0
    <3>1. t - k * Epoch = t
      BY <1>1, <1>2, <2>2
    <3>2. QED
      BY <2>1, <2>2, <3>1 DEF Drifted
  <2>3. CASE k # 0
    BY <1>1, <2>1, <2>3 DEF Drifted
  <2>4. QED
    BY <2>2, <2>3
<1>4. CreateDateWithColumn(v) = <<"date", Double(Double(2 * GetInt64WithColumn(v)) - Epoch)>>
  BY NumberParts DEF CreateDateWithColumn
<1>5. QED
  BY <1>1, <1>3, <1>4

LEMMA DatesNext ==
  ASSUME DatesAreExact PROVE VTypes /\ DatesStay /\ [Next]_vars => DatesStay'
<1> SUFFICES ASSUME VTypes, DatesStay, [Next]_vars, IsCopiedDate'
             PROVE  IsNumber(cell') /\ ValueOf(cell') = Drifted(given'[2] - Epoch, drift')
  BY DEF DatesStay, IsNumber, ValueOf, Drifted, IsDouble
<1>0. given' # None /\ given'[1] = "date" /\ "text" \notin passed'
  BY DEF IsCopiedDate, CopiedAs
<1>1. CASE UNCHANGED vars
  <2>1. IsCopiedDate /\ given' = given /\ cell' = cell /\ drift' = drift
    BY <1>1 DEF vars, IsCopiedDate, CopiedAs
  <2>2. QED
    BY <2>1 DEF DatesStay
\* Outside text columns a number is stored without loss.
<1>2. ASSUME NEW affinity \in {"none", "numeric", "text"}, affinity \in passed',
             NEW n, IsNumber(n), cell' = Stored(affinity, n)
      PROVE  IsNumber(cell') /\ ValueOf(cell') = ValueOf(n)
  <2>1. affinity # "text" /\ Keeps(ValueOf(n), {affinity})
    BY <1>0, <1>2 DEF Keeps
  <2>2. Holds(cell', ValueOf(n), affinity = "text")
    BY <1>2, <2>1, NumberIsStored
  <2>3. QED
    BY <2>1, <2>2 DEF Holds
<1>3. ASSUME NEW affinity \in {"none", "numeric", "text"}, NEW o \in Givens, NEW v \in BindCFType(o),
             IsObject(o), given' = o, passed' = {affinity}, drift' = 0, cell' = Stored(affinity, v)
      PROVE  IsNumber(cell') /\ ValueOf(cell') = Drifted(given'[2] - Epoch, drift')
  <2>1. BindCFType(o) = {<<"real", Double(o[2] - Epoch)>>}
    BY <1>0, <1>3 DEF BindCFType, BindAbsoluteTime
  <2>2. 0 \in 0 .. MaxDrift
    BY LimitsAssumption
  <2>3. Double(o[2] - Epoch) = o[2] - Epoch /\ o[2] - Epoch \in Int
    BY <1>0, <1>3, <2>2, DriftIsExact
  <2>4. IsNumber(<<"real", o[2] - Epoch>>)
    BY <2>3, RealIsNumber DEF IsDouble
  <2>5. IsNumber(v) /\ ValueOf(v) = o[2] - Epoch
    BY <2>1, <2>3, <2>4 DEF ValueOf
  <2>6. QED
    BY <1>2, <1>3, <2>5 DEF Drifted
<1>4. ASSUME NEW affinity \in {"none", "numeric", "text"}, NEW o, NEW reader, NEW v \in BindCFType(o),
             given' = given, passed' = passed \cup {affinity}, read' = read \cup {reader},
             cell' = Stored(affinity, v),
             \/ reader = "object" /\ o = CreateCFTypeWithColumn(cell) /\ drift' = drift
             \/ reader = "date" /\ o = CreateDateWithColumn(cell) /\ drift' = drift + 1
                /\ drift < MaxDrift
      PROVE  IsNumber(cell') /\ ValueOf(cell') = Drifted(given'[2] - Epoch, drift')
  <2>1. IsCopiedDate
    BY <1>4 DEF IsCopiedDate, CopiedAs
  <2>2. IsNumber(cell) /\ ValueOf(cell) = Drifted(given[2] - Epoch, drift)
    BY <2>1 DEF DatesStay
  <2>3. given \in Givens /\ given[1] = "date" /\ drift \in 0 .. MaxDrift
    BY <2>1, GivenObject DEF IsCopiedDate, CopiedAs, VTypes
  <2>4. CASE o = CreateCFTypeWithColumn(cell) /\ drift' = drift
    <3>1. BindCFType(CreateCFTypeWithColumn(cell)) = {cell}
      BY <2>2, NumberIsCarried
    <3>2. v = cell
      BY <1>4, <2>4, <3>1
    <3>3. QED
      BY <1>2, <1>4, <2>2, <2>4, <3>2
  <2>5. CASE o = CreateDateWithColumn(cell) /\ drift' = drift + 1 /\ drift < MaxDrift
    <3> DEFINE t == ToInteger(given[2] - Epoch)
               w == 2 * (t - drift * Epoch)
    <3>1. CreateDateWithColumn(cell) = <<"date", w - Epoch>>
      BY <2>2, <2>3, DateIsRead
    <3>2. /\ t \in Int /\ w \in Int /\ Double(w - Epoch - Epoch) = w - Epoch - Epoch
      BY <2>3, <2>5, DriftIsExact
    <3>3. drift \in Nat /\ Epoch \in Nat
      BY <2>3, LimitsAssumption
    <3>4. w - Epoch - Epoch = 2 * (t - (drift + 1) * Epoch)
      BY <3>2, <3>3
    <3> HIDE DEF w, t
    <3>5. BindCFType(<<"date", w - Epoch>>) = {<<"real", Double(w - Epoch - Epoch)>>}
      BY DEF BindCFType, BindAbsoluteTime
    <3>6. v = <<"real", w - Epoch - Epoch>>
      BY <1>4, <2>5, <3>1, <3>2, <3>5
    <3>7. IsNumber(v) /\ ValueOf(v) = w - Epoch - Epoch
      <4>1. w - Epoch - Epoch \in Int
        BY <3>2, <3>3
      <4>2. QED
        BY <3>2, <3>6, <4>1, RealIsNumber DEF IsDouble, ValueOf
    <3>8. Drifted(given'[2] - Epoch, drift') = w - Epoch - Epoch
      BY <1>4, <2>5, <3>3, <3>4 DEF Drifted, t
    <3>9. QED
      BY <1>2, <1>4, <3>7, <3>8
  <2>6. QED
    BY <1>4, <2>4, <2>5
<1>5. ASSUME NEW reader, reader = "number", read' = read \cup {reader} PROVE FALSE
  BY <1>5 DEF IsCopiedDate, CopiedAs
<1>6. QED
  BY <1>0, <1>1, <1>3, <1>4, <1>5, StepOfACell

\* Where doubles hold the dates of the instance and their drift exactly, a date comes
\* back without its fraction and two epochs early, and two more for each time it was
\* copied as a date, but never otherwise changed.
THEOREM DatesDriftByEpochs == ASSUME DatesAreExact PROVE Spec => []DatesDrift
<1>1. Init => VTypes /\ DatesStay
  BY TypesInit DEF Init, DatesStay, IsCopiedDate, CopiedAs
<1>2. VTypes /\ DatesStay /\ [Next]_vars => (VTypes /\ DatesStay)'
  BY TypesNext, DatesNext
<1>3. VTypes /\ DatesStay => DatesDrift
  <2> SUFFICES ASSUME VTypes, DatesStay, IsCopiedDate
               PROVE  CreateDateWithColumn(cell) =
                        <<"date", 2 * ToInteger(given[2] - Epoch) - Epoch - 2 * Epoch * drift>>
    BY DEF DatesDrift, IsCopiedDate
  <2> DEFINE t == ToInteger(given[2] - Epoch)
  <2>1. given \in Givens /\ given[1] = "date" /\ drift \in 0 .. MaxDrift
    BY GivenObject DEF IsCopiedDate, CopiedAs, VTypes
  <2>2. CreateDateWithColumn(cell) = <<"date", 2 * (t - drift * Epoch) - Epoch>>
    BY <2>1, DateIsRead DEF DatesStay
  <2>3. t \in Int /\ drift \in Nat /\ Epoch \in Nat
    BY <2>1, DriftIsExact, LimitsAssumption
  <2> HIDE DEF t
  <2>4. 2 * (t - drift * Epoch) - Epoch = 2 * t - Epoch - 2 * Epoch * drift
    BY <2>3
  <2>5. QED
    BY <2>2, <2>4 DEF t
<1>4. QED
  BY <1>1, <1>2, <1>3, PTL DEF Spec
=============================================================================
