------------------------- MODULE DynamicScoreProofs -------------------------
(* For every curve, whatever its values, decay and number of solves: the     *)
(* points of a challenge never rise, stay between its values, and are the    *)
(* parabola rounded up.                                                      *)
EXTENDS MCDynamicScore, TLAPS

-----------------------------------------------------------------------------
(* Division by a positive number, and products that grow with their factors. *)
LEMMA Division ==
  ASSUME NEW a \in Nat, NEW b \in Nat \ {0}
  PROVE  /\ a \div b \in Nat /\ (a \div b) * b <= a /\ a < (a \div b + 1) * b
OBVIOUS

LEMMA ProductGrows ==
  ASSUME NEW a \in Nat, NEW b \in Nat, NEW c \in Nat, a <= b
  PROVE  a * c \in Nat /\ b * c \in Nat /\ a * c <= b * c
OBVIOUS

LEMMA ProductInNat ==
  ASSUME NEW a \in Nat, NEW b \in Nat
  PROVE  a * b \in Nat
OBVIOUS

LEMMA QuotientLess ==
  ASSUME NEW p \in Int, NEW q \in Int, NEW b \in Nat \ {0}, p * b < q * b
  PROVE  p < q
<1>1. p >= q => p * b >= q * b
  OBVIOUS
<1> QED
  BY <1>1

-----------------------------------------------------------------------------
(* The three pieces of the curve. *)
Unit(decay) == IF decay = 0 THEN 1 ELSE decay
Drop(initial, minScore, n) == (initial - minScore) * (n - 1) * (n - 1)
Lost(initial, minScore, decay, n) ==
  Drop(initial, minScore, n) \div (Unit(decay) * Unit(decay))

LEMMA UnitSquare ==
  ASSUME NEW decay \in Nat
  PROVE  Unit(decay) \in Nat \ {0} /\ Unit(decay) * Unit(decay) \in Nat \ {0}
<1>1. \A d \in Nat \ {0} : d * d \in Nat \ {0}
  OBVIOUS
<1> QED
  BY <1>1 DEF Unit

LEMMA DropGrows ==
  ASSUME NEW h \in Nat, NEW m \in Nat \ {0}, NEW n \in Nat \ {0}, m <= n
  PROVE  /\ h * (m - 1) * (m - 1) \in Nat /\ h * (n - 1) * (n - 1) \in Nat
         /\ h * (m - 1) * (m - 1) <= h * (n - 1) * (n - 1)
<1>1. PICK a \in Nat, b \in Nat : a = m - 1 /\ b = n - 1 /\ a <= b
  OBVIOUS
<1>2. h * a \in Nat /\ h * b \in Nat /\ h * a <= h * b
  BY <1>1, ProductGrows
<1>3. (h * a) * a \in Nat /\ (h * a) * a <= (h * b) * a
  BY <1>1, <1>2, ProductGrows
<1>4. (h * b) * a \in Nat /\ (h * b) * b \in Nat /\ (h * b) * a <= (h * b) * b
  BY <1>1, <1>2, ProductInNat, ProductGrows
<1>5. (h * a) * a <= (h * b) * b
  BY <1>3, <1>4
<1> QED
  BY <1>1, <1>3, <1>4, <1>5

(* On the slope the points lost are less than the values differ by: the      *)
(* lower bound the code applies to the rounded value never binds.            *)
Sloping(i, m, decay, n) ==
  /\ Lost(i, m, decay, n) \in 0 .. i - m
  /\ CalculateDynamicScore(i, m, decay, n) = i - Lost(i, m, decay, n)

LEMMA OnTheSlope ==
  ASSUME NEW i \in Nat, NEW m \in Nat, NEW decay \in Nat, NEW n \in Nat,
         m <= i, n \in 1 .. Unit(decay)
  PROVE  Sloping(i, m, decay, n)
<1>1. \E h \in Nat, d \in Nat \ {0}, s \in Nat \ {0} :
        h = i - m /\ d = Unit(decay) /\ s = d * d
  <2>1. i - m \in Nat
    OBVIOUS
  <2>2. Unit(decay) \in Nat \ {0} /\ Unit(decay) * Unit(decay) \in Nat \ {0}
    BY UnitSquare
  <2> QED
    BY <2>1, <2>2, Zenon
<1>1a. PICK h \in Nat, d \in Nat \ {0}, s \in Nat \ {0} :
        h = i - m /\ d = Unit(decay) /\ s = d * d
  BY <1>1, Zenon
<1>2. n \in Nat \ {0} /\ n <= d
  BY <1>1a
<1>3. PICK drop \in Nat : drop = Drop(i, m, n) /\ drop = h * (n - 1) * (n - 1)
  BY <1>1a, <1>2, DropGrows DEF Drop
<1>4. drop <= h * s
  <2>1. PICK a \in Nat : a = n - 1 /\ a <= d
    BY <1>2
  <2>2. (h * a) \in Nat /\ (h * d) \in Nat /\ h * a <= h * d
    BY <2>1, ProductGrows
  <2>3. (h * a) * a <= (h * d) * d
    <3>1. (h * a) * a \in Nat /\ (h * a) * a <= (h * d) * a
      BY <2>1, <2>2, ProductGrows
    <3>2. (h * d) * a \in Nat /\ (h * d) * d \in Nat /\ (h * d) * a <= (h * d) * d
      BY <2>1, <2>2, ProductInNat, ProductGrows
    <3> QED
      BY <3>1, <3>2
  <2>4. (h * d) * d = h * s
    BY <1>1a
  <2> QED
    BY <1>3, <2>1, <2>3, <2>4
<1>5. PICK q \in Nat : q = drop \div s /\ q * s <= drop
  BY <1>1a, <1>3, Division
<1>6. q <= h
  <2>1. CASE h < q
    <3>1. (h + 1) * s <= q * s
      BY <1>1a, <1>5, <2>1, ProductGrows
    <3>2. (h + 1) * s = h * s + s
      BY <1>1a
    <3>3. h * s \in Nat /\ q * s \in Nat
      BY <1>1a, <1>5, ProductInNat
    <3> QED
      BY <1>1a, <1>3, <1>4, <1>5, <3>1, <3>2, <3>3
  <2> QED
    BY <2>1
<1>7. Lost(i, m, decay, n) = q
  BY <1>1a, <1>3, <1>5 DEF Lost
<1>8. CalculateDynamicScore(i, m, decay, n) = AtLeast(m, i - q)
  BY <1>1a, <1>2, <1>3, <1>5 DEF CalculateDynamicScore, CeilAfter, Unit, Drop
<1>9. AtLeast(m, i - q) = i - q
  BY <1>1a, <1>5, <1>6 DEF AtLeast
<1> QED
  BY <1>1a, <1>5, <1>6, <1>7, <1>8, <1>9 DEF Sloping

LEMMA OffTheSlope ==
  ASSUME NEW i \in Nat, NEW m \in Nat, NEW decay \in Nat, NEW n \in Nat
  PROVE  /\ n = 0 => CalculateDynamicScore(i, m, decay, n) = i
         /\ n > Unit(decay) => CalculateDynamicScore(i, m, decay, n) = m
<1>1. Unit(decay) \in Nat \ {0}
  BY UnitSquare
<1> QED
  BY <1>1 DEF CalculateDynamicScore, Unit

(* From one number of solves to a greater one. *)
LEMMA ScoreFalls ==
  ASSUME NEW i \in Nat, NEW m \in Nat, m <= i, NEW decay \in Nat, NEW n \in Nat
  PROVE  /\ CalculateDynamicScore(i, m, decay, n) \in m .. i
         /\ CalculateDynamicScore(i, m, decay, n + 1) <= CalculateDynamicScore(i, m, decay, n)
<1>1. PICK d \in Nat \ {0} : d = Unit(decay)
  BY UnitSquare
<1>2. ASSUME NEW k \in Nat PROVE CalculateDynamicScore(i, m, decay, k) \in m .. i
  <2>1. CASE k = 0 \/ k > d
    BY <1>1, <2>1, OffTheSlope
  <2>2. CASE k \in 1 .. d
    <3>1. k \in 1 .. Unit(decay)
      BY <1>1, <2>2
    <3>2. Sloping(i, m, decay, k)
      BY <3>1, OnTheSlope
    <3> QED
      BY <3>2 DEF Sloping
  <2> QED
    BY <2>1, <2>2
<1>3. CASE n = 0 \/ n >= d
  <2>1. CASE n = 0
    <3>1. CalculateDynamicScore(i, m, decay, n) = i
      BY <2>1, OffTheSlope
    <3>2. CalculateDynamicScore(i, m, decay, n + 1) \in m .. i
      BY <1>2
    <3>3. CalculateDynamicScore(i, m, decay, n) \in m .. i
      BY <1>2
    <3> QED
      BY <3>1, <3>2, <3>3
  <2>2. CASE n >= d
    <3>1. CalculateDynamicScore(i, m, decay, n + 1) = m
      BY <1>1, <2>2, OffTheSlope
    <3>2. CalculateDynamicScore(i, m, decay, n) \in m .. i
      BY <1>2
    <3> QED
      BY <3>1, <3>2
  <2> QED
    BY <1>3, <2>1, <2>2
<1>4. CASE n \in Nat \ {0} /\ n + 1 <= d
  <2>0. n \in 1 .. Unit(decay) /\ n + 1 \in 1 .. Unit(decay)
    <3>1. n \in 1 .. d /\ n + 1 \in 1 .. d
      BY <1>4
    <3> QED
      BY <1>1, <3>1
  <2>1. /\ Lost(i, m, decay, n) \in 0 .. i - m
        /\ CalculateDynamicScore(i, m, decay, n) = i - Lost(i, m, decay, n)
    <3>1. Sloping(i, m, decay, n)
      BY <2>0, OnTheSlope
    <3> QED
      BY <3>1 DEF Sloping
  <2>2. /\ Lost(i, m, decay, n + 1) \in 0 .. i - m
        /\ CalculateDynamicScore(i, m, decay, n + 1) = i - Lost(i, m, decay, n + 1)
    <3>1. Sloping(i, m, decay, n + 1)
      BY <2>0, OnTheSlope
    <3> QED
      BY <3>1 DEF Sloping
  <2>3. PICK a \in Nat, b \in Nat, s \in Nat \ {0} :
          /\ a = Drop(i, m, n) /\ b = Drop(i, m, n + 1) /\ a <= b /\ s = Unit(decay) * Unit(decay)
    <3>1. i - m \in Nat /\ n \in Nat \ {0} /\ n + 1 \in Nat \ {0} /\ n <= n + 1
      BY <1>4
    <3>2. /\ (i - m) * (n - 1) * (n - 1) \in Nat
          /\ (i - m) * (n + 1 - 1) * (n + 1 - 1) \in Nat
          /\ (i - m) * (n - 1) * (n - 1) <= (i - m) * (n + 1 - 1) * (n + 1 - 1)
      BY <3>1, DropGrows
    <3>3. /\ Drop(i, m, n) \in Nat /\ Drop(i, m, n + 1) \in Nat
          /\ Drop(i, m, n) <= Drop(i, m, n + 1)
      BY <3>2 DEF Drop
    <3>4. Unit(decay) * Unit(decay) \in Nat \ {0}
      BY UnitSquare
    <3> QED
      BY <3>3, <3>4, Zenon
  <2>4. PICK p \in Nat, q \in Nat : /\ p = a \div s /\ p * s <= a
                                    /\ q = b \div s /\ b < (q + 1) * s
    BY <2>3, Division
  <2>5. p < q + 1
    <3>1. p * s < (q + 1) * s
      <4>1. p * s \in Nat /\ (q + 1) * s \in Nat
        BY <2>3, <2>4, ProductInNat
      <4> QED
        BY <2>3, <2>4, <4>1
    <3> QED
      BY <2>3, <2>4, <3>1, QuotientLess
  <2>6. Lost(i, m, decay, n) = p /\ Lost(i, m, decay, n + 1) = q
    BY <2>3, <2>4 DEF Lost
  <2> QED
    BY <2>1, <2>2, <2>4, <2>5, <2>6
<1> QED
  BY <1>1, <1>2, <1>3, <1>4

-----------------------------------------------------------------------------
CurveInv ==
  /\ curve.initial \in Nat /\ curve.minScore \in Nat /\ curve.decay \in Nat
  /\ curve.minScore <= curve.initial /\ solves \in Nat

LEMMA CurveInvHolds == Spec => []CurveInv
<1>1. Init => CurveInv
  BY BoundsAssumption DEF Init, CurveInv
<1>2. CurveInv /\ [Solve]_curveVars => CurveInv'
  BY DEF CurveInv, Solve, curveVars
<1> QED
  BY <1>1, <1>2, PTL DEF Spec

(* One more solve never makes a challenge worth more, for every curve.       *)
THEOREM PriceNeverRises == Spec => ScoreNeverRises
<1>1. CurveInv /\ [Solve]_curveVars => [ScoreAt(solves') <= ScoreAt(solves)]_curveVars
  <2> SUFFICES ASSUME CurveInv, Solve PROVE ScoreAt(solves') <= ScoreAt(solves)
    OBVIOUS
  <2> QED
    BY ScoreFalls DEF CurveInv, Solve, ScoreAt
<1> QED
  BY <1>1, CurveInvHolds, PTL DEF Spec, ScoreNeverRises

(* The first solve is worth the initial value, the one after the decay-th    *)
(* the minimum, and no number of solves leaves that range.                   *)
THEOREM PriceSpansTheRange == Spec => []ScoreSpansTheRange
<1>1. ASSUME CurveInv PROVE ScoreSpansTheRange
  <2>1. ScoreAt(solves) \in curve.minScore .. curve.initial
    BY <1>1, ScoreFalls DEF CurveInv, ScoreAt
  <2>2. ScoreAt(1) = curve.initial
    <3>1. 1 \in 1 .. Unit(curve.decay)
      BY <1>1, UnitSquare DEF CurveInv
    <3>2. Lost(curve.initial, curve.minScore, curve.decay, 1) = 0
      <4>1. Drop(curve.initial, curve.minScore, 1) = 0
        BY <1>1 DEF CurveInv, Drop
      <4>2. \A s \in Nat \ {0} : 0 \div s = 0
        OBVIOUS
      <4> QED
        BY <1>1, <4>1, <4>2, UnitSquare DEF CurveInv, Lost
    <3>3. CalculateDynamicScore(curve.initial, curve.minScore, curve.decay, 1)
            = curve.initial - Lost(curve.initial, curve.minScore, curve.decay, 1)
      <4>1. Sloping(curve.initial, curve.minScore, curve.decay, 1)
        BY <1>1, <3>1, OnTheSlope DEF CurveInv
      <4> QED
        BY <4>1 DEF Sloping
    <3> QED
      BY <1>1, <3>2, <3>3 DEF CurveInv, ScoreAt
  <2>3. curve.decay > 0 => ScoreAt(curve.decay + 1) = curve.minScore
    BY <1>1, OffTheSlope DEF CurveInv, ScoreAt, Unit
  <2> QED
    BY <2>1, <2>2, <2>3 DEF ScoreSpansTheRange
<1> QED
  BY <1>1, CurveInvHolds, PTL

(* On the slope the points are the least integer not under the parabola.     *)
THEOREM PriceIsCeiling == Spec => []ScoreIsCeiling
<1>1. ASSUME CurveInv PROVE ScoreIsCeiling
  <2> SUFFICES ASSUME solves \in 1 .. curve.decay
               PROVE  LET square == curve.decay * curve.decay
                          exact == curve.initial * square
                            - (curve.initial - curve.minScore) * (solves - 1) * (solves - 1)
                      IN /\ ScoreAt(solves) * square >= exact
                         /\ (ScoreAt(solves) - 1) * square < exact
    BY DEF ScoreIsCeiling
  <2>1. PICK i \in Nat, s \in Nat \ {0}, drop \in Nat :
          /\ i = curve.initial /\ s = curve.decay * curve.decay
          /\ s = Unit(curve.decay) * Unit(curve.decay)
          /\ drop = (curve.initial - curve.minScore) * (solves - 1) * (solves - 1)
    <3>1. curve.decay \in Nat \ {0} /\ Unit(curve.decay) = curve.decay
      BY <1>1 DEF CurveInv, Unit
    <3>2. curve.initial - curve.minScore \in Nat /\ solves \in Nat \ {0}
      BY <1>1 DEF CurveInv
    <3>3. (curve.initial - curve.minScore) * (solves - 1) * (solves - 1) \in Nat
      BY <3>2, DropGrows
    <3> QED
      BY <1>1, <3>1, <3>3, UnitSquare DEF CurveInv
  <2>2. PICK q \in Nat : q = drop \div s /\ q * s <= drop /\ drop < (q + 1) * s
    BY <2>1, Division
  <2>3. ScoreAt(solves) = i - q
    <3>1. solves \in 1 .. Unit(curve.decay)
      BY <1>1 DEF CurveInv, Unit
    <3>2. CalculateDynamicScore(curve.initial, curve.minScore, curve.decay, solves)
            = curve.initial - Lost(curve.initial, curve.minScore, curve.decay, solves)
      <4>1. /\ curve.initial \in Nat /\ curve.minScore \in Nat /\ curve.decay \in Nat
            /\ curve.minScore <= curve.initial /\ solves \in Nat
        BY <1>1 DEF CurveInv
      <4>2. Sloping(curve.initial, curve.minScore, curve.decay, solves)
        BY <3>1, <4>1, OnTheSlope
      <4> QED
        BY <4>2 DEF Sloping
    <3>3. Lost(curve.initial, curve.minScore, curve.decay, solves) = q
      BY <2>1, <2>2 DEF Lost, Drop
    <3> QED
      BY <2>1, <3>2, <3>3 DEF ScoreAt
  <2>4. /\ (i - q) * s = i * s - q * s
        /\ ((i - q) - 1) * s = i * s - (q + 1) * s
        /\ i * s \in Nat /\ q * s \in Nat /\ (q + 1) * s \in Nat
    BY <2>1, <2>2, ProductInNat
  <2>5. (i - q) * s >= i * s - drop /\ ((i - q) - 1) * s < i * s - drop
    BY <2>1, <2>2, <2>4
  <2> QED
    BY <2>1, <2>3, <2>5
<1> QED
  BY <1>1, CurveInvHolds, PTL
=============================================================================
