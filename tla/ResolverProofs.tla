--------------------------- MODULE ResolverProofs ---------------------------
(***************************************************************************)
(* Theorems about Resolver, for any chains, capitals and percentages: the  *)
(* strike rules keep their order on any grid, sizes are within the         *)
(* capital, fills are never better than mid, and the risk flags and the    *)
(* largest loss of all 57 templates are true of the legs they resolve to.  *)
(***************************************************************************)
EXTENDS Resolver, SumTheorems, SequenceTheorems

----------------------------------------------------------------------------
(* The strike nearest to a price                                           *)

LEMMA LeastOf ==
  ASSUME NEW S \in SUBSET Nat, S # {}
  PROVE  \E n \in S : \A m \in S : n <= m
<1> DEFINE R == OpToRel(<, Nat)
<1>1. IsWellFoundedOn(R, Nat)
  BY NatLessThanWellFounded
<1>2. \A m, n \in Nat : m < n => << m, n >> \in R
  BY DEF OpToRel
<1> HIDE DEF R
<1>3. PICK n \in S : \A m \in S : << m, n >> \notin R
  BY <1>1, WFMin
<1>4. \A m \in S : m \in Nat /\ n \in Nat /\ ~(m < n)
  BY <1>2, <1>3
<1> QED
  BY <1>4

LEMMA GreatestOf ==
  ASSUME NEW S \in SUBSET Nat, S # {}, NEW b \in Nat, \A s \in S : s <= b
  PROVE  \E n \in S : \A m \in S : m <= n
<1> DEFINE T == {n \in Nat : \E s \in S : n = b - s}
<1>1. T \in SUBSET Nat /\ T # {}
  <2>1. PICK s \in S : TRUE
    OBVIOUS
  <2>2. b - s \in T
    BY s \in Nat, s <= b
  <2> QED
    BY <2>2
<1>2. PICK k \in T : \A m \in T : k <= m
  BY <1>1, LeastOf
<1>3. PICK n \in S : k = b - n
  BY <1>2
<1>4. ASSUME NEW m \in S PROVE m <= n
  <2>1. b - m \in T
    BY m \in Nat, m <= b
  <2>2. k <= b - m /\ k = b - n /\ n \in Nat /\ m \in Nat
    BY <1>2, <1>3, <2>1
  <2> QED
    BY <2>2
<1> QED
  BY <1>4

\* Of two neighbours the nearest changes in the middle, which belongs to the lower.
LEMMA NearestIs ==
  ASSUME NEW S \in SUBSET Nat, S # {}, NEW x \in Int
  PROVE  /\ Nearest(S, x) \in S
         /\ \A b \in S : /\ b > Nearest(S, x) => 2 * x <= Nearest(S, x) + b
                         /\ b < Nearest(S, x) => 2 * x > Nearest(S, x) + b
<1> DEFINE Off(a) == Abs(a - x)
           D == {Off(a) : a \in S}
           Best(a) == \A b \in S : Off(a) < Off(b) \/ (Off(a) = Off(b) /\ a <= b)
<1>1. \A a \in Nat : Off(a) \in Nat
  BY DEF Abs
<1>2. PICK d \in D : \A e \in D : d <= e
  <2>1. D \in SUBSET Nat /\ D # {}
    BY <1>1
  <2> HIDE DEF D
  <2> QED
    BY <2>1, LeastOf
<1>3. PICK a \in {s \in S : Off(s) = d} : \A b \in {s \in S : Off(s) = d} : a <= b
  <2>1. {s \in S : Off(s) = d} \in SUBSET Nat /\ {s \in S : Off(s) = d} # {}
    BY <1>2
  <2> QED
    BY <2>1, LeastOf
<1>4. a \in S /\ Best(a)
  <2>1. ASSUME NEW b \in S PROVE Off(a) < Off(b) \/ (Off(a) = Off(b) /\ a <= b)
    <3>1. d <= Off(b) /\ Off(a) = d /\ Off(b) \in Nat /\ d \in Nat
      BY <1>1, <1>2, <1>3
    <3>2. Off(b) = d => a <= b
      BY <1>3
    <3> HIDE DEF Off
    <3> QED
      BY <3>1, <3>2
  <2> QED
    BY <1>3, <2>1
<1>5. Nearest(S, x) \in S /\ Best(Nearest(S, x))
  BY <1>4 DEF Nearest
<1>6. ASSUME NEW c \in S, Best(c)
      PROVE  \A b \in S : (b > c => 2 * x <= c + b) /\ (b < c => 2 * x > c + b)
  BY <1>6 DEF Abs
<1> QED
  BY <1>5, <1>6

LEMMA NearestRises ==
  ASSUME NEW S \in SUBSET Nat, S # {}, NEW x \in Int, NEW y \in Int, x <= y
  PROVE  Nearest(S, x) <= Nearest(S, y)
<1>1. PICK a \in S : a = Nearest(S, x) /\ \A b \in S : b < a => 2 * x > a + b
  BY NearestIs
<1>2. PICK c \in S : c = Nearest(S, y) /\ \A b \in S : b > c => 2 * y <= c + b
  BY NearestIs
<1>3. a \in Nat /\ c \in Nat
  OBVIOUS
<1> QED
  BY <1>1, <1>2, <1>3

----------------------------------------------------------------------------
(* The templates                                                           *)

StrikeRule ==
  {r \in [kind : {"atm", "otm", "itm", "same"}, n : 0 .. 4] : r.kind \in {"otm", "itm"} => r.n > 0}

TemplateLeg ==
  [instrument : {"stock", C, P}, side : {"buy", "sell"}, ratio : {1, 2}, strike : StrikeRule,
   expiry : {"near", "far"}]

LEMMA RulesUsed ==
  /\ ATM \in StrikeRule /\ SAME(1) \in StrikeRule /\ SAME(2) \in StrikeRule
  /\ OTM(1) \in StrikeRule /\ OTM(2) \in StrikeRule /\ OTM(4) \in StrikeRule
  /\ ITM(2) \in StrikeRule /\ ITM(4) \in StrikeRule
  BY DEF StrikeRule, ATM, OTM, ITM, SAME

LEMMA RightsUsed == C \in {C, P} /\ P \in {C, P}
  OBVIOUS

LEMMA LegIs ==
  /\ \A right, rule : right \in {C, P} /\ rule \in StrikeRule => Buy(right, rule) \in TemplateLeg
  /\ \A right, rule : right \in {C, P} /\ rule \in StrikeRule => Sell(right, rule) \in TemplateLeg
  /\ BuyStock \in TemplateLeg /\ SellStock \in TemplateLeg
  /\ \A leg : leg \in TemplateLeg => Twice(leg) \in TemplateLeg
  /\ \A leg : leg \in TemplateLeg => Far(leg) \in TemplateLeg
  BY RulesUsed DEF TemplateLeg, Buy, Sell, BuyStock, SellStock, Leg, Twice, Far

Package(legs) == legs \in Seq(TemplateLeg)

LEMMA Pairs ==
  \A a, b : a \in TemplateLeg /\ b \in TemplateLeg => Package(<< a, b >>)
  BY DEF Package

LEMMA Triples ==
  \A a, b, c : a \in TemplateLeg /\ b \in TemplateLeg /\ c \in TemplateLeg => Package(<< a, b, c >>)
  BY DEF Package

LEMMA Quads ==
  \A a, b, c, d :
    a \in TemplateLeg /\ b \in TemplateLeg /\ c \in TemplateLeg /\ d \in TemplateLeg
      => Package(<< a, b, c, d >>)
  BY DEF Package

LEMMA StructureIs ==
  \A id, legs :
    Package(legs) => /\ Package(Safe(id, legs).legs) /\ Package(Naked(id, legs).legs)
                     /\ Package(Unlimited(id, legs).legs)
  BY DEF Safe, Naked, Unlimited, StructureTemplate

LEMMA TemplatesAre ==
  ASSUME NEW t \in TEMPLATES PROVE t.legs \in Seq(TemplateLeg)
<1>1. ASSUME NEW u \in Covered PROVE Package(u.legs)
  BY RulesUsed, RightsUsed, LegIs, Pairs, Triples, Quads, StructureIs, Zenon DEF Covered
<1>2. ASSUME NEW u \in Verticals PROVE Package(u.legs)
  BY RulesUsed, RightsUsed, LegIs, Pairs, Triples, Quads, StructureIs, Zenon DEF Verticals
<1>3. ASSUME NEW u \in Synthetics PROVE Package(u.legs)
  BY RulesUsed, RightsUsed, LegIs, Pairs, Triples, Quads, StructureIs, Zenon DEF Synthetics
<1>4. ASSUME NEW u \in Ladders PROVE Package(u.legs)
  BY RulesUsed, RightsUsed, LegIs, Pairs, Triples, Quads, StructureIs, Zenon DEF Ladders
<1>5. ASSUME NEW u \in Calendars PROVE Package(u.legs)
  BY RulesUsed, RightsUsed, LegIs, Pairs, Triples, Quads, StructureIs, Zenon DEF Calendars
<1>6. ASSUME NEW u \in LongVolatility PROVE Package(u.legs)
  BY RulesUsed, RightsUsed, LegIs, Pairs, Triples, Quads, StructureIs, Zenon DEF LongVolatility
<1>7. ASSUME NEW u \in ShortVolatility PROVE Package(u.legs)
  BY RulesUsed, RightsUsed, LegIs, Pairs, Triples, Quads, StructureIs, Zenon DEF ShortVolatility
<1>8. ASSUME NEW u \in SyntheticStraddles PROVE Package(u.legs)
  BY RulesUsed, RightsUsed, LegIs, Pairs, Triples, Quads, StructureIs, Zenon DEF SyntheticStraddles
<1>9. ASSUME NEW u \in StrapsAndStrips PROVE Package(u.legs)
  BY RulesUsed, RightsUsed, LegIs, Pairs, Triples, Quads, StructureIs, Zenon DEF StrapsAndStrips
<1>10. ASSUME NEW u \in RatioSpreads PROVE Package(u.legs)
  BY RulesUsed, RightsUsed, LegIs, Pairs, Triples, Quads, StructureIs, Zenon DEF RatioSpreads
<1>11. ASSUME NEW u \in Butterflies PROVE Package(u.legs)
  BY RulesUsed, RightsUsed, LegIs, Pairs, Triples, Quads, StructureIs, Zenon DEF Butterflies
<1>12. ASSUME NEW u \in IronsAndCondors PROVE Package(u.legs)
  BY RulesUsed, RightsUsed, LegIs, Pairs, Triples, Quads, StructureIs, Zenon DEF IronsAndCondors
<1>13. ASSUME NEW u \in CollarAndSeagulls PROVE Package(u.legs)
  BY RulesUsed, RightsUsed, LegIs, Pairs, Triples, Quads, StructureIs, Zenon DEF CollarAndSeagulls
<1> QED
  BY <1>1, <1>2, <1>3, <1>4, <1>5, <1>6, <1>7,
     <1>8, <1>9, <1>10, <1>11, <1>12, <1>13 DEF TEMPLATES, Package

----------------------------------------------------------------------------
(* Strikes keep their order                                                *)

\* A larger step is at least the difference of the two further away.
LEMMA Floors ==
  ASSUME NEW a \in Int, NEW b \in Int, NEW w \in Nat, b >= a + w
  PROVE  b \div 100 >= a \div 100 + w \div 100
  OBVIOUS

LEMMA Products == \A a \in Int, x, y \in Nat : (a * x) * y = a * (x * y)
  OBVIOUS

\* How far out a rule aims, in hundredths of a cent.
Step100 == StepPct * spot
Known == chain \in DOMAIN Chains
Beyond(leg) == leg.strike.kind \in {"otm", "itm"}

LEMMA SpotIs == ASSUME Known PROVE spot \in Nat /\ StepPct \in Nat /\ Step100 \in Nat
<1>1. spot \in Nat
  BY ChainsAssumption DEF Known, spot
<1>2. StepPct \in Nat
  BY PercentAssumption
<1> QED
  BY <1>1, <1>2 DEF Step100

LEMMA TargetIs ==
  ASSUME Known, NEW leg \in TemplateLeg, Beyond(leg)
  PROVE  /\ leg.strike.n \in 1 .. 4
         /\ Target(leg) \in Int /\ (Direction(leg) * leg.strike.n) * Step100 \in Int
         /\ Target(leg) = spot + ((Direction(leg) * leg.strike.n) * Step100) \div 100
         /\ Direction(leg) = 1 => Target(leg) >= spot
         /\ Direction(leg) = -1 => Target(leg) <= spot
<1>1. leg.strike.n \in 1 .. 4
  BY DEF TemplateLeg, StrikeRule, Beyond
<1> PICK n \in 1 .. 4 : n = leg.strike.n
  BY <1>1
<1> PICK d \in {1, -1} : d = Direction(leg)
  BY DEF Direction
<1> PICK w \in Nat : w = Step100
  BY SpotIs
<1>2. (((d * n) * StepPct) * spot) = (d * n) * w
  BY SpotIs, Products DEF Step100
<1>3. \A k \in Int : k \div 100 \in Int /\ (k >= 0 => k \div 100 >= 0) /\ (k <= 0 => k \div 100 <= 0)
  OBVIOUS
<1>4. (d * n) * w \in Int /\ (d = 1 => (d * n) * w >= 0) /\ (d = -1 => (d * n) * w <= 0)
  OBVIOUS
<1>5. Target(leg) = spot + ((d * n) * w) \div 100
  BY <1>2 DEF Target
<1>6. PICK k \in Int : k = (d * n) * w /\ (d = 1 => k >= 0) /\ (d = -1 => k <= 0)
  BY <1>4
<1>7. Target(leg) = spot + k \div 100 /\ spot \in Nat
  BY <1>5, <1>6, SpotIs
<1>8. Target(leg) \in Int /\ (d = 1 => Target(leg) >= spot) /\ (d = -1 => Target(leg) <= spot)
  BY <1>3, <1>6, <1>7
<1> QED
  BY <1>1, <1>4, <1>5, <1>8

\* Two rules on one side aim a step or more from each other.
LEMMA TargetsApart ==
  ASSUME Known, NEW a \in TemplateLeg, NEW b \in TemplateLeg, Beyond(a), Beyond(b),
         Direction(b) = Direction(a), b.strike.n > a.strike.n
  PROVE  Direction(a) * (Target(b) - Target(a)) >= Step100 \div 100
<1> PICK n \in 1 .. 4 : n = a.strike.n
  BY TargetIs
<1> PICK m \in 1 .. 4 : m = b.strike.n
  BY TargetIs
<1> PICK w \in Nat : w = Step100
  BY SpotIs
<1>1. m * w >= n * w + w
  <2>1. \A i, j \in 1 .. 4 : i > j => i * w >= j * w + w
    OBVIOUS
  <2> QED
    BY <2>1
<1>2. CASE Direction(a) = 1
  <2>1. PICK x \in Int : x = n * w
    OBVIOUS
  <2>2. PICK y \in Int : y = m * w
    OBVIOUS
  <2>3. Target(a) = spot + x \div 100 /\ Target(b) = spot + y \div 100 /\ spot \in Nat
    <3>1. (1 * n) * w = x /\ (1 * m) * w = y
      BY <2>1, <2>2
    <3> QED
      BY <1>2, <3>1, TargetIs, SpotIs
  <2>4. y \div 100 >= x \div 100 + w \div 100
    BY <1>1, <2>1, <2>2, Floors
  <2>5. x \div 100 \in Int /\ y \div 100 \in Int /\ w \div 100 \in Int
    OBVIOUS
  <2> QED
    BY <1>2, <2>3, <2>4, <2>5
<1>3. CASE Direction(a) = -1
  <2>1. PICK x \in Int : x = -(n * w)
    OBVIOUS
  <2>2. PICK y \in Int : y = -(m * w)
    OBVIOUS
  <2>3. Target(a) = spot + x \div 100 /\ Target(b) = spot + y \div 100 /\ spot \in Nat
    <3>1. (-1 * n) * w = x /\ (-1 * m) * w = y
      BY <2>1, <2>2
    <3> QED
      BY <1>3, <3>1, TargetIs, SpotIs
  <2>4. x \div 100 >= y \div 100 + w \div 100
    BY <1>1, <2>1, <2>2, Floors
  <2>5. x \div 100 \in Int /\ y \div 100 \in Int /\ w \div 100 \in Int
    OBVIOUS
  <2> QED
    BY <1>3, <2>3, <2>4, <2>5
<1> QED
  BY <1>2, <1>3 DEF Direction

LEMMA DirectionIs == ASSUME NEW leg PROVE Direction(leg) \in {1, -1}
  BY DEF Direction

\* _resolve_strike where the rule is neither a SAME nor at the money.
BeyondStrike(leg, grid) ==
  IF Collapsed(leg, grid) THEN Nearest(Outward(leg, grid), spot) ELSE _nearest(grid, Target(leg))

\* A leg out of the money, or in it, is beyond the strike at the money; one that
\* has collapsed onto that is at the next strike.
LEMMA StrikeIs ==
  ASSUME Known, NEW grid \in SUBSET Nat, NEW leg \in TemplateLeg, Beyond(leg), ~NoStrike(leg, grid),
         NEW k, k = BeyondStrike(leg, grid)
  PROVE  /\ grid # {} /\ k \in grid /\ Atm(grid) \in grid
         /\ Direction(leg) * (k - Atm(grid)) > 0
         /\ Collapsed(leg, grid) =>
              \A x \in grid : Direction(leg) * (x - Atm(grid)) > 0 => Direction(leg) * (x - k) >= 0
         /\ ~Collapsed(leg, grid) => k = Nearest(grid, Target(leg))
<1>1. grid # {} /\ ~(Collapsed(leg, grid) /\ Outward(leg, grid) = {})
  BY DEF NoStrike, Beyond
<1>2. /\ Collapsed(leg, grid) => k = Nearest(Outward(leg, grid), spot)
      /\ ~Collapsed(leg, grid) => k = Nearest(grid, Target(leg))
  BY DEF BeyondStrike, _nearest
<1> PICK d \in {1, -1} : d = Direction(leg)
  BY DirectionIs
<1> PICK p \in Nat : p = spot
  BY SpotIs
<1>3. PICK a \in grid : /\ a = Atm(grid)
                        /\ \A x \in grid : (x > a => 2 * p <= a + x) /\ (x < a => 2 * p > a + x)
  <2>1. /\ Nearest(grid, p) \in grid
        /\ \A x \in grid : /\ x > Nearest(grid, p) => 2 * p <= Nearest(grid, p) + x
                           /\ x < Nearest(grid, p) => 2 * p > Nearest(grid, p) + x
    BY <1>1, NearestIs
  <2> QED
    BY <2>1 DEF Atm, _nearest
<1>4. CASE Collapsed(leg, grid)
  <2> PICK S : S = Outward(leg, grid)
    OBVIOUS
  <2>1. S = {x \in grid : d * (x - a) > 0}
    BY <1>3 DEF Outward
  <2>2. S \in SUBSET Nat /\ S # {} /\ S \subseteq grid
    BY <1>1, <1>4, <2>1
  <2>3. /\ k \in S
        /\ \A x \in S : (x > k => 2 * p <= k + x) /\ (x < k => 2 * p > k + x)
    BY <1>2, <1>4, <2>2, NearestIs
  <2>4. d * (k - a) > 0 /\ k \in grid
    BY <2>1, <2>3
  <2>5. ASSUME NEW x \in grid, d * (x - a) > 0 PROVE d * (x - k) >= 0
    <3>1. (x > k => 2 * p <= k + x) /\ (x < k => 2 * p > k + x)
      BY <2>1, <2>3, <2>5
    <3>2. (x > a => 2 * p <= a + x) /\ (x < a => 2 * p > a + x)
      BY <1>3
    <3>3. (k > a => 2 * p <= a + k) /\ (k < a => 2 * p > a + k)
      BY <1>3, <2>4
    <3>4. x \in Nat /\ k \in Nat /\ a \in Nat
      BY <2>4
    <3>5. CASE d = 1
      BY <2>4, <2>5, <3>1, <3>2, <3>3, <3>4, <3>5
    <3>6. CASE d = -1
      BY <2>4, <2>5, <3>1, <3>2, <3>3, <3>4, <3>6
    <3> QED
      BY <3>5, <3>6
  <2> QED
    BY <1>1, <1>3, <1>4, <2>4, <2>5
<1>5. CASE ~Collapsed(leg, grid)
  <2> PICK t \in Int : t = Target(leg) /\ (d = 1 => t >= p) /\ (d = -1 => t <= p)
    BY TargetIs
  <2>1. k \in grid /\ k # a /\ k = Nearest(grid, t)
    <3>1. leg.strike.n # 0
      BY TargetIs
    <3>2. k = Nearest(grid, t)
      BY <1>2, <1>5
    <3> QED
      BY <1>1, <1>3, <1>5, <3>1, <3>2, NearestIs DEF Collapsed, _nearest
  <2>2. a = Nearest(grid, p)
    BY <1>3 DEF Atm, _nearest
  <2>3. (d = 1 => a <= k) /\ (d = -1 => k <= a)
    BY <1>1, <2>1, <2>2, NearestRises
  <2>4. a \in Nat /\ k \in Nat
    BY <2>1
  <2>5. d * (k - a) > 0
    BY <2>1, <2>3, <2>4
  <2> QED
    BY <1>1, <1>2, <1>3, <1>5, <2>1, <2>5
<1> QED
  BY <1>4, <1>5

\* The further out a rule aims, the further out its strike.
LEMMA StrikesRise ==
  ASSUME Known, NEW grid \in SUBSET Nat,
         NEW a \in TemplateLeg, Beyond(a), ~NoStrike(a, grid),
         NEW b \in TemplateLeg, Beyond(b), ~NoStrike(b, grid),
         Direction(b) = Direction(a), b.strike.n > a.strike.n,
         NEW x, x = BeyondStrike(a, grid), NEW y, y = BeyondStrike(b, grid)
  PROVE  Direction(a) * (y - x) >= 0
<1> PICK d \in {1, -1} : d = Direction(a)
  BY DirectionIs
<1>1. /\ grid # {} /\ x \in grid /\ y \in grid /\ Atm(grid) \in grid
      /\ d * (x - Atm(grid)) > 0 /\ d * (y - Atm(grid)) > 0
  BY StrikeIs
<1>2. CASE Collapsed(a, grid)
  BY <1>1, <1>2, StrikeIs
<1>3. CASE ~Collapsed(a, grid)
  <2>1. x = Nearest(grid, Target(a))
    BY <1>3, StrikeIs
  <2>2. y = Nearest(grid, Target(b)) \/ Nearest(grid, Target(b)) = Atm(grid)
    BY StrikeIs DEF Collapsed, _nearest
  <2> PICK s \in Int : s = Target(a)
    BY TargetIs
  <2> PICK t \in Int : t = Target(b)
    BY TargetIs
  <2>3. d * (t - s) >= 0
    <3>1. PICK w \in Nat : w = Step100
      BY SpotIs
    <3>2. w \div 100 >= 0 /\ w \div 100 \in Int
      OBVIOUS
    <3>3. d * (t - s) >= w \div 100
      BY <3>1, TargetsApart
    <3> QED
      BY <3>2, <3>3
  <2>4. PICK z \in grid : z = Nearest(grid, t)
    BY <1>1, NearestIs
  <2>5. (d = 1 => x <= z) /\ (d = -1 => z <= x)
    <3>1. (d = 1 => s <= t) /\ (d = -1 => t <= s)
      BY <2>3
    <3> QED
      BY <1>1, <2>1, <2>4, <3>1, NearestRises
  <2>6. x \in Nat /\ y \in Nat /\ z \in Nat /\ Atm(grid) \in Nat
    BY <1>1
  <2>7. z = Atm(grid) \/ z = y
    BY <2>2, <2>4
  <2> QED
    BY <1>1, <2>5, <2>6, <2>7
<1> QED
  BY <1>2, <1>3

LEMMA GreatestIs ==
  ASSUME NEW S \in SUBSET Nat, IsFiniteSet(S), S # {}
  PROVE  Max(S) \in S /\ \A x \in S : x <= Max(S)
<1> DEFINE G == {T \in SUBSET S : T # {} => \E n \in T : \A m \in T : m <= n}
<1>1. \A T \in SUBSET S : T # {} /\ T \ {Pick(T)} \in G => T \in G
  <2> SUFFICES ASSUME NEW T \in SUBSET S, T # {}, T \ {Pick(T)} \in G
               PROVE  \E n \in T : \A m \in T : m <= n
      OBVIOUS
  <2>1. PICK x \in T : x = Pick(T)
    BY PickIn
  <2>2. CASE T \ {x} = {}
    BY <2>1, <2>2
  <2>3. CASE T \ {x} # {}
    <3>1. PICK n \in T \ {x} : \A m \in T \ {x} : m <= n
      BY <2>1, <2>3
    <3>2. CASE n <= x
      BY <2>1, <3>1, <3>2
    <3>3. CASE ~(n <= x)
      BY <2>1, <3>1, <3>3
    <3> QED
      BY <3>2, <3>3
  <2> QED
    BY <2>2, <2>3
<1>2. {} \in G
  OBVIOUS
<1> HIDE DEF G
<1>3. S \in G
  BY <1>1, <1>2, SubsetInduction
<1>4. \E n \in S : \A m \in S : n >= m
  BY <1>3 DEF G
<1> QED
  BY <1>4 DEF Max

\* On a grid as dense as the steps a strike with one above it has one within a step.
LEMMA NextStrike ==
  ASSUME Known, NEW grid \in SUBSET Nat, IsFiniteSet(grid), Dense(grid),
         NEW k \in grid, NEW x \in grid, x > k
  PROVE  \E m \in grid : m > k /\ m - k <= Step100 \div 100
<1>1. k # Max(grid)
  BY GreatestIs
<1>2. PICK m \in grid : k < m /\ 100 * (m - k) <= Step100
  BY <1>1 DEF Dense, Step100
<1>3. \A i \in Int, w \in Nat : 100 * i <= w => i <= w \div 100
  OBVIOUS
<1>4. PICK i \in Int : i = m - k
  OBVIOUS
<1>5. i <= Step100 \div 100
  BY <1>2, <1>3, <1>4, SpotIs
<1> QED
  BY <1>2, <1>4, <1>5

LEMMA PreviousStrike ==
  ASSUME Known, NEW grid \in SUBSET Nat, IsFiniteSet(grid), Dense(grid),
         NEW k \in grid, NEW x \in grid, x < k
  PROVE  \E p \in grid : p < k /\ k - p <= Step100 \div 100
<1> PICK S : S = {y \in grid : y < k}
  OBVIOUS
<1>1. PICK p \in S : \A y \in S : y <= p
  <2>1. k \in Nat /\ x \in S
    OBVIOUS
  <2>2. \A y \in S : y \in Nat /\ y <= k
    BY <2>1
  <2>3. S \in SUBSET Nat /\ S # {}
    BY <2>1, <2>2
  <2> QED
    BY <2>1, <2>2, <2>3, GreatestOf
<1>2. PICK m \in grid : m > p /\ m - p <= Step100 \div 100
  BY NextStrike
<1>3. PICK w \in Int : w = Step100 \div 100
  BY SpotIs
<1>4. ~(m < k)
  BY <1>1, <1>2
<1> QED
  BY <1>1, <1>2, <1>3, <1>4

LEMMA TargetAway ==
  ASSUME Known, NEW a \in TemplateLeg, Beyond(a)
  PROVE  Direction(a) * (Target(a) - spot) >= Step100 \div 100
<1> PICK n \in 1 .. 4 : n = a.strike.n
  BY TargetIs
<1> PICK w \in Nat : w = Step100
  BY SpotIs
<1> PICK p \in Nat : p = spot
  BY SpotIs
<1>1. PICK x \in Int : x = n * w /\ x >= w
  <2>1. \A i \in 1 .. 4 : i * w >= w /\ i * w \in Int
    OBVIOUS
  <2> QED
    BY <2>1
<1>2. \A i \in Int : i \div 100 \in Int /\ (i >= w => i \div 100 >= w \div 100)
                     /\ (-i) \div 100 \in Int /\ (i >= w => (-i) \div 100 <= -(w \div 100))
  OBVIOUS
<1>3. CASE Direction(a) = 1
  <2>1. (1 * n) * w = x
    BY <1>1
  <2>2. Target(a) = p + x \div 100
    BY <1>3, <2>1, TargetIs
  <2> QED
    BY <1>1, <1>2, <1>3, <2>2
<1>4. CASE Direction(a) = -1
  <2>1. PICK y \in Int : y = -x
    BY <1>1
  <2>2. Target(a) = p + y \div 100
    <3>1. (-1 * n) * w = y
      BY <1>1, <2>1
    <3> QED
      BY <1>4, <3>1, TargetIs
  <2>3. y \div 100 <= -(w \div 100) /\ y \div 100 \in Int
    BY <1>1, <1>2, <2>1
  <2> QED
    BY <1>2, <1>4, <2>2, <2>3
<1> QED
  BY <1>3, <1>4, DirectionIs

\* There no rule collapses onto the money.
LEMMA NoneCollapses ==
  ASSUME Known, NEW grid \in SUBSET Nat, IsFiniteSet(grid), Dense(grid),
         NEW a \in TemplateLeg, Beyond(a), ~NoStrike(a, grid),
         NEW q \in grid, Direction(a) * (q - spot) <= 0
  PROVE  ~Collapsed(a, grid)
<1> SUFFICES ASSUME Collapsed(a, grid) PROVE FALSE
    OBVIOUS
<1> PICK d \in {1, -1} : d = Direction(a)
  BY DirectionIs
<1> PICK p \in Nat : p = spot
  BY SpotIs
<1> PICK w \in Int : w = Step100 \div 100
  BY SpotIs
<1> PICK t \in Int : t = Target(a)
  BY TargetIs
<1>1. d * (t - p) >= w
  BY TargetAway
<1>2. PICK m \in grid : /\ m = Atm(grid)
                        /\ \A x \in grid : (x > m => 2 * p <= m + x) /\ (x < m => 2 * p > m + x)
                        /\ \A x \in grid : (x > m => 2 * t <= m + x) /\ (x < m => 2 * t > m + x)
  <2>1. grid # {} /\ grid \in SUBSET Nat /\ p \in Int
    OBVIOUS
  <2>2. Nearest(grid, p) = Atm(grid) /\ Nearest(grid, t) = Atm(grid)
    BY DEF Atm, _nearest, Collapsed
  <2>3. /\ Nearest(grid, p) \in grid
        /\ \A x \in grid : /\ x > Nearest(grid, p) => 2 * p <= Nearest(grid, p) + x
                           /\ x < Nearest(grid, p) => 2 * p > Nearest(grid, p) + x
    BY <2>1, NearestIs, Zenon
  <2>4. \A x \in grid : /\ x > Nearest(grid, t) => 2 * t <= Nearest(grid, t) + x
                        /\ x < Nearest(grid, t) => 2 * t > Nearest(grid, t) + x
    BY <2>1, NearestIs, Zenon
  <2> QED
    BY <2>2, <2>3, <2>4
<1>3. PICK x \in grid : d * (x - m) > 0
  BY <1>2, StrikeIs
<1>4. d * (q - p) <= 0
  OBVIOUS
<1>5. m \in Nat /\ x \in Nat /\ q \in Nat
  OBVIOUS
<1>6. CASE d = 1
  <2>1. PICK y \in grid : y > m /\ y - m <= w
    BY <1>3, <1>5, <1>6, NextStrike
  <2>2. 2 * t <= m + y /\ t - p >= w /\ q <= p
    BY <1>1, <1>2, <1>4, <1>5, <1>6, <2>1
  <2>3. q < m
    BY <1>5, <2>1, <2>2
  <2>4. PICK z \in grid : z < m /\ m - z <= w
    BY <2>3, PreviousStrike
  <2>5. 2 * p > m + z
    BY <1>2, <2>4
  <2>6. y \in Nat /\ z \in Nat
    OBVIOUS
  <2> QED
    BY <1>5, <2>1, <2>2, <2>4, <2>5, <2>6
<1>7. CASE d = -1
  <2>1. PICK y \in grid : y < m /\ m - y <= w
    BY <1>3, <1>5, <1>7, PreviousStrike
  <2>2. 2 * t > m + y /\ p - t >= w /\ q >= p
    BY <1>1, <1>2, <1>4, <1>5, <1>7, <2>1
  <2>3. q > m
    BY <1>5, <2>1, <2>2
  <2>4. PICK z \in grid : z > m /\ z - m <= w
    BY <2>3, NextStrike
  <2>5. 2 * p <= m + z
    BY <1>2, <2>4
  <2>6. y \in Nat /\ z \in Nat
    OBVIOUS
  <2> QED
    BY <1>5, <2>1, <2>2, <2>4, <2>5, <2>6
<1> QED
  BY <1>6, <1>7

\* Nor do two meet in one strike.
LEMMA StrikesApart ==
  ASSUME Known, NEW grid \in SUBSET Nat, IsFiniteSet(grid), Dense(grid),
         NEW a \in TemplateLeg, Beyond(a), ~NoStrike(a, grid),
         NEW b \in TemplateLeg, Beyond(b), ~NoStrike(b, grid),
         Direction(b) = Direction(a), b.strike.n > a.strike.n, Covering(grid, b),
         NEW x, x = BeyondStrike(a, grid), NEW y, y = BeyondStrike(b, grid)
  PROVE  Direction(a) * (y - x) > 0
<1> PICK d \in {1, -1} : d = Direction(a)
  BY DirectionIs
<1> PICK s \in Int : s = Target(a)
  BY TargetIs
<1> PICK t \in Int : t = Target(b)
  BY TargetIs
<1> PICK w \in Int : w = Step100 \div 100
  BY SpotIs
<1>1. PICK q \in grid : d * (q - spot) <= 0
  BY DEF Covering
<1>2. PICK c \in grid : d * (c - t) >= 0
  BY DEF Covering
<1>3. x = Nearest(grid, s) /\ y = Nearest(grid, t)
  BY <1>1, NoneCollapses, StrikeIs
<1>4. x \in grid /\ y \in grid /\ Atm(grid) \in grid /\ d * (x - Atm(grid)) > 0
  BY StrikeIs
<1>5. d * (y - x) >= 0
  BY StrikesRise
<1>6. d * (t - s) >= w
  BY TargetsApart
<1>7. x # y => d * (y - x) > 0
  <2>1. PICK i \in Int : i = y - x
    BY <1>4
  <2>2. x # y => i # 0
    BY <1>4, <2>1
  <2> QED
    BY <1>5, <2>1, <2>2
<1> SUFFICES ASSUME x = y PROVE FALSE
  BY <1>7
<1>8. \A z \in grid : /\ (z > x => 2 * s <= x + z) /\ (z < x => 2 * s > x + z)
                      /\ (z > x => 2 * t <= x + z) /\ (z < x => 2 * t > x + z)
  <2>1. \A z \in grid : (z > x => 2 * s <= x + z) /\ (z < x => 2 * s > x + z)
    BY <1>3, <1>4, NearestIs
  <2>2. \A z \in grid : (z > x => 2 * t <= x + z) /\ (z < x => 2 * t > x + z)
    BY <1>3, <1>4, NearestIs
  <2> QED
    BY <2>1, <2>2
<1>9. PICK m \in grid : m = Atm(grid)
  BY <1>4
<1>10. x \in Nat /\ m \in Nat /\ c \in Nat
  BY <1>4
<1>11. CASE d = 1
  <2>1. PICK p \in grid : p < x /\ x - p <= w
    <3>1. m < x
      BY <1>4, <1>9, <1>10, <1>11
    <3> QED
      BY <1>4, <3>1, PreviousStrike
  <2>2. 2 * s > x + p /\ t - s >= w /\ p \in Nat /\ c >= t
    BY <1>2, <1>6, <1>8, <1>10, <1>11, <2>1
  <2>3. CASE c > x
    <3>1. PICK z \in grid : z > x /\ z - x <= w
      BY <1>4, <2>3, NextStrike
    <3>2. 2 * t <= x + z /\ z \in Nat
      BY <1>8, <3>1
    <3> QED
      BY <1>10, <2>1, <2>2, <3>1, <3>2
  <2>4. CASE ~(c > x)
    BY <1>10, <2>1, <2>2, <2>4
  <2> QED
    BY <2>3, <2>4
<1>12. CASE d = -1
  <2>1. PICK p \in grid : p > x /\ p - x <= w
    <3>1. m > x
      BY <1>4, <1>9, <1>10, <1>12
    <3> QED
      BY <1>4, <3>1, NextStrike
  <2>2. 2 * s <= x + p /\ s - t >= w /\ p \in Nat /\ c <= t
    BY <1>2, <1>6, <1>8, <1>10, <1>12, <2>1
  <2>3. CASE c < x
    <3>1. PICK z \in grid : z < x /\ x - z <= w
      BY <1>4, <2>3, PreviousStrike
    <3>2. 2 * t > x + z /\ z \in Nat
      BY <1>8, <3>1
    <3> QED
      BY <1>10, <2>1, <2>2, <3>1, <3>2
  <2>4. CASE ~(c < x)
    BY <1>10, <2>1, <2>2, <2>4
  <2> QED
    BY <2>3, <2>4
<1> QED
  BY <1>11, <1>12

----------------------------------------------------------------------------
(* What is resolved                                                        *)

ResolvedLeg ==
  [instrument : {"stock", C, P}, side : {"buy", "sell"}, ratio : Nat, strike : Nat, dte : Nat,
   bid : Nat, ask : Nat]

GridOf(leg) == _strike_grid(ExpiryOf(leg), leg.instrument)

\* A leg r that was made for leg of the template.
Placed(leg, r) ==
  /\ r.instrument = leg.instrument /\ r.side = leg.side /\ r.ratio = Ratio(leg)
  /\ leg.instrument = "stock" => r.bid = spot /\ r.ask = spot
  /\ leg.instrument # "stock" =>
       /\ r.dte = ExpiryOf(leg)
       /\ \E c \in contracts : r.bid = c.bid /\ r.ask = c.ask /\ c.bid > 0 /\ c.ask > 0
       /\ Beyond(leg) => ~NoStrike(leg, GridOf(leg)) /\ r.strike = BeyondStrike(leg, GridOf(leg))

RInv ==
  /\ template \in TEMPLATES /\ Known
  /\ resolved \in Seq(ResolvedLeg) /\ Len(resolved) <= Len(template.legs)
  /\ \A i \in Legs : \A leg, r : leg = template.legs[i] /\ r = resolved[i] => Placed(leg, r)
  /\ bounds.loss \in Int
  /\ stage = "resolved" => Len(resolved) = Len(template.legs) /\ bounds = _payoff_bounds
  /\ SizedWithinMeans

LEMMA ContractsAre ==
  ASSUME Known
  PROVE  /\ IsFiniteSet(contracts)
         /\ contracts \subseteq [dte : Nat, right : {C, P}, strike : Nat, bid : Nat, ask : Nat]
  BY ChainsAssumption DEF Known, contracts

LEMMA GridIs ==
  ASSUME Known, NEW leg
  PROVE  GridOf(leg) \in SUBSET Nat /\ IsFiniteSet(GridOf(leg))
<1> DEFINE L == Liquid(ExpiryOf(leg), leg.instrument)
           f == [c \in L |-> c.strike]
<1>1. L \subseteq contracts
  BY DEF Liquid
<1>2. IsFiniteSet(L)
  BY <1>1, ContractsAre, FS_Subset
<1>3. GridOf(leg) = {c.strike : c \in L}
  BY DEF GridOf, _strike_grid
<1>4. GridOf(leg) \in SUBSET Nat
  BY <1>1, <1>3, ContractsAre
<1>5. f \in Surjection(L, GridOf(leg))
  BY <1>3 DEF Surjection
<1> QED
  BY <1>2, <1>4, <1>5, FS_Surjection

LEMMA TemplateLegs ==
  ASSUME RInv
  PROVE  /\ Len(template.legs) \in Nat /\ Len(resolved) \in Nat
         /\ Legs = 1 .. Len(resolved) /\ IsFiniteSet(Legs)
         /\ \A i \in 1 .. Len(template.legs) : template.legs[i] \in TemplateLeg
         /\ \A i \in Legs : /\ resolved[i] \in ResolvedLeg /\ i \in 1 .. Len(template.legs)
                            /\ template.legs[i] \in TemplateLeg
                            /\ Placed(template.legs[i], resolved[i])
<1>1. template.legs \in Seq(TemplateLeg)
  BY TemplatesAre DEF RInv
<1>2. resolved \in Seq(ResolvedLeg) /\ Len(resolved) <= Len(template.legs)
  BY DEF RInv
<1>3. Len(template.legs) \in Nat /\ Len(resolved) \in Nat /\ Legs = 1 .. Len(resolved)
  BY <1>1, <1>2 DEF Legs
<1>4. \A i \in 1 .. Len(template.legs) : template.legs[i] \in TemplateLeg
  BY <1>1
<1>5. \A i \in Legs : resolved[i] \in ResolvedLeg /\ i \in 1 .. Len(template.legs)
  BY <1>2, <1>3
<1>6. IsFiniteSet(Legs)
  BY <1>3, FS_Interval
<1> QED
  BY <1>3, <1>4, <1>5, <1>6 DEF RInv

\* The market does not move while a structure is resolved.
LEMMA SameMarket ==
  ASSUME chain' = chain
  PROVE  /\ spot' = spot /\ contracts' = contracts
         /\ \A leg : ExpiryOf(leg)' = ExpiryOf(leg)
         /\ \A leg : GridOf(leg)' = GridOf(leg)
         /\ \A leg, grid : NoStrike(leg, grid)' <=> NoStrike(leg, grid)
         /\ \A leg, grid : BeyondStrike(leg, grid)' = BeyondStrike(leg, grid)
<1>1. spot' = spot /\ contracts' = contracts
  BY DEF spot, contracts
<1>2. near_expiry' = near_expiry /\ far_expiry' = far_expiry
  BY <1>1 DEF near_expiry, far_expiry, _pick_expiry, expiries
<1>3. \A leg : ExpiryOf(leg)' = ExpiryOf(leg)
  BY <1>2 DEF ExpiryOf
<1>4. \A leg : GridOf(leg)' = GridOf(leg)
  BY <1>1, <1>3 DEF GridOf, _strike_grid, Liquid
<1>5. \A grid : Atm(grid)' = Atm(grid)
  BY <1>1 DEF Atm, _nearest
<1>6. \A leg : Target(leg)' = Target(leg)
  BY <1>1 DEF Target
<1>7. \A leg, grid : Outward(leg, grid)' = Outward(leg, grid)
  BY <1>5 DEF Outward
<1>8. \A leg, grid : Collapsed(leg, grid)' <=> Collapsed(leg, grid)
  BY <1>5, <1>6 DEF Collapsed, _nearest
<1>9. \A leg, grid : NoStrike(leg, grid)' <=> NoStrike(leg, grid)
  BY <1>7, <1>8 DEF NoStrike
<1>10. \A leg, grid : BeyondStrike(leg, grid)' = BeyondStrike(leg, grid)
  BY <1>1, <1>6, <1>7, <1>8 DEF BeyondStrike, _nearest
<1> QED
  BY <1>1, <1>3, <1>4, <1>9, <1>10

LEMMA PlacedStays ==
  ASSUME chain' = chain, NEW leg, NEW r, Placed(leg, r)
  PROVE  Placed(leg, r)'
<1> PICK g : g = GridOf(leg)
  OBVIOUS
<1>1. GridOf(leg)' = g /\ (NoStrike(leg, g)' <=> NoStrike(leg, g))
      /\ BeyondStrike(leg, g)' = BeyondStrike(leg, g)
      /\ spot' = spot /\ contracts' = contracts /\ ExpiryOf(leg)' = ExpiryOf(leg)
  BY SameMarket
<1> QED
  BY <1>1 DEF Placed, Beyond

\* The money at stake is decided by the legs.
LEMMA SameMeans ==
  ASSUME UNCHANGED << resolved, bounds >>
  PROVE  unit_risk' = unit_risk /\ stock_cost' = stock_cost
  BY DEF unit_risk, stock_cost, Legs, OptionLegs

----------------------------------------------------------------------------
(* The money at stake                                                      *)

LEMMA TotalIsSum == ASSUME NEW f PROVE Total(f) = SumOf(f)
  BY DEF Total, SumOf, FoldFunction, FoldFunctionOnSet, MapThenSumSet

LEMMA TotalIs ==
  ASSUME NEW S, IsFiniteSet(S), NEW f \in [S -> Int]
  PROVE  Total(f) \in Int
  BY TotalIsSum, SumType

LEMMA TermsAre ==
  ASSUME NEW r \in ResolvedLeg
  PROVE  /\ Sign(r) \in {1, -1} /\ Mid2(r) \in Nat /\ Units(r) \in Nat /\ r.ratio \in Nat
         /\ \A s \in Int : Exercise(r, s) \in Int
<1>1. Sign(r) \in {1, -1}
  BY DEF Sign
<1>2. r.bid \in Nat /\ r.ask \in Nat /\ r.ratio \in Nat /\ r.strike \in Nat
  BY DEF ResolvedLeg
<1>3. Mid2(r) \in Nat
  BY <1>2 DEF Mid2
<1>4. Units(r) \in Nat
  BY <1>2 DEF Units
<1>5. ASSUME NEW s \in Int PROVE Exercise(r, s) \in Int
  BY <1>2 DEF Exercise, Positive
<1> QED
  BY <1>1, <1>2, <1>3, <1>4, <1>5

LEMMA ProductsAre ==
  /\ \A a \in {1, -1}, x, y \in Nat : a * x * y \in Int
  /\ \A a \in {1, -1}, x \in Nat, y \in Int : a * x * y \in Int
  OBVIOUS

LEMMA LegsAre ==
  ASSUME resolved \in Seq(ResolvedLeg)
  PROVE  /\ Legs = 1 .. Len(resolved) /\ IsFiniteSet(Legs)
         /\ OptionLegs \in SUBSET Legs /\ IsFiniteSet(OptionLegs)
         /\ \A i \in Legs : resolved[i] \in ResolvedLeg
<1>1. Legs = 1 .. Len(resolved) /\ Len(resolved) \in Nat /\ \A i \in Legs : resolved[i] \in ResolvedLeg
  BY DEF Legs
<1>2. IsFiniteSet(Legs)
  BY <1>1, FS_Interval
<1>3. OptionLegs \in SUBSET Legs
  BY DEF OptionLegs
<1> QED
  BY <1>1, <1>2, <1>3, FS_Subset

LEMMA StockCostIs ==
  ASSUME resolved \in Seq(ResolvedLeg)
  PROVE  stock_cost \in Nat
<1> DEFINE z == [i \in Legs |-> 0]
           f == [i \in Legs |-> IF resolved[i].instrument = "stock" /\ resolved[i].side = "buy"
                                THEN 4 * Mid2(resolved[i]) * resolved[i].ratio ELSE 0]
<1>1. \A i \in Legs : f[i] \in Nat
  <2> SUFFICES ASSUME NEW i \in Legs PROVE 4 * Mid2(resolved[i]) * resolved[i].ratio \in Nat
      OBVIOUS
  <2>1. \A x, y \in Nat : 4 * x * y \in Nat
    OBVIOUS
  <2>2. Mid2(resolved[i]) \in Nat /\ resolved[i].ratio \in Nat
    BY LegsAre, TermsAre
  <2> QED
    BY <2>1, <2>2
<1>2. f \in [Legs -> Int] /\ z \in [Legs -> Int] /\ \A i \in Legs : z[i] <= f[i]
  <2>1. \A i \in Legs : f[i] \in Int /\ 0 <= f[i]
    BY <1>1
  <2> QED
    BY <2>1
<1>3. SumOf(z) = 0
  BY LegsAre, SumOfZeros
<1>4. stock_cost = SumOf(f)
  BY TotalIsSum DEF stock_cost
<1> HIDE DEF f, z
<1>5. SumOf(z) <= SumOf(f) /\ SumOf(f) \in Int
  BY <1>2, LegsAre, SumMonotone, SumType
<1> QED
  BY <1>3, <1>4, <1>5

LEMMA UnitRiskIs ==
  ASSUME resolved \in Seq(ResolvedLeg), bounds.loss \in Int
  PROVE  unit_risk \in Int
<1> DEFINE f == [i \in OptionLegs |-> Sign(resolved[i]) * Mid2(resolved[i]) * resolved[i].ratio]
<1>1. \A i \in OptionLegs : Sign(resolved[i]) * Mid2(resolved[i]) * resolved[i].ratio \in Int
  BY LegsAre, TermsAre, ProductsAre
<1>2. f \in [OptionLegs -> Int]
  BY <1>1
<1> HIDE DEF f
<1>3. Total(f) \in Int
  BY <1>2, LegsAre, TotalIs
<1>4. 400 * Abs(Total(f)) \in Int
  BY <1>3 DEF Abs
<1> QED
  BY <1>4 DEF unit_risk, f

LEMMA PayoffIs ==
  ASSUME resolved \in Seq(ResolvedLeg), NEW s \in Int
  PROVE  Payoff(s) \in Int
<1> DEFINE f == [i \in Legs |-> Sign(resolved[i]) * Mid2(resolved[i]) * Units(resolved[i])]
           g == [i \in Legs |-> Sign(resolved[i]) * resolved[i].ratio * Exercise(resolved[i], s)]
<1>1. \A i \in Legs : /\ Sign(resolved[i]) * Mid2(resolved[i]) * Units(resolved[i]) \in Int
                      /\ Sign(resolved[i]) * resolved[i].ratio * Exercise(resolved[i], s) \in Int
  BY LegsAre, TermsAre, ProductsAre
<1>2. f \in [Legs -> Int] /\ g \in [Legs -> Int]
  BY <1>1
<1> HIDE DEF f, g
<1>3. Total(f) \in Int /\ Total(g) \in Int
  BY <1>2, LegsAre, TotalIs
<1>4. 400 * (-Total(f)) + Total(g) \in Int
  BY <1>3
<1> QED
  BY <1>4 DEF Payoff, Net2, f, g

\* A finite set of integers has a least and a greatest member.
LEMMA ExtremesAre ==
  ASSUME NEW S, IsFiniteSet(S), S # {}, S \subseteq Int
  PROVE  /\ Min(S) \in Int /\ Max(S) \in Int
         /\ \A x \in S : Min(S) <= x /\ x <= Max(S)
<1> DEFINE Least(T) == \E x \in T : \A y \in T : x <= y
           Most(T) == \E x \in T : \A y \in T : x >= y
           G == {T \in SUBSET S : T # {} => Least(T) /\ Most(T)}
<1>1. {} \in G
  OBVIOUS
<1>2. \A T \in SUBSET S : T # {} /\ T \ {Pick(T)} \in G => T \in G
  <2> SUFFICES ASSUME NEW T \in SUBSET S, T # {}, T \ {Pick(T)} \in G
               PROVE  Least(T) /\ Most(T)
      OBVIOUS
  <2> PICK p \in T : p = Pick(T)
      BY PickIn
  <2>1. p \in Int /\ \A y \in T : y \in Int
    OBVIOUS
  <2>2. CASE T \ {p} = {}
    <3>1. \A y \in T : y = p
      BY <2>2
    <3> QED
      BY <2>1, <3>1
  <2>3. CASE T \ {p} # {}
    <3>1. PICK a \in T \ {p} : \A y \in T \ {p} : a <= y
      BY <2>3
    <3>2. PICK b \in T \ {p} : \A y \in T \ {p} : b >= y
      BY <2>3
    <3>3. Least(T)
      <4>1. CASE a <= p
        BY <3>1, <4>1
      <4>2. CASE ~(a <= p)
        BY <2>1, <3>1, <4>2
      <4> QED
        BY <4>1, <4>2
    <3>4. Most(T)
      <4>1. CASE b >= p
        BY <3>2, <4>1
      <4>2. CASE ~(b >= p)
        BY <2>1, <3>2, <4>2
      <4> QED
        BY <4>1, <4>2
    <3> QED
      BY <3>3, <3>4
  <2> QED
    BY <2>2, <2>3
<1> HIDE DEF G
<1>3. SUBSET S \subseteq G
  BY <1>1, <1>2, SubsetInduction
<1>4. Least(S) /\ Most(S)
  BY <1>3 DEF G
<1> QED
  BY <1>4 DEF Min, Max

LEMMA ImageIsFinite ==
  ASSUME NEW S, IsFiniteSet(S), NEW T, NEW f, f = [i \in S |-> f[i]], T = {f[i] : i \in S}
  PROVE  IsFiniteSet(T)
<1>1. f \in Surjection(S, T)
  BY DEF Surjection
<1> QED
  BY <1>1, FS_Surjection

\* Of a structure with options there are strikes, and each can be had.
LEMMA StrikesAre ==
  ASSUME resolved \in Seq(ResolvedLeg), Bounded
  PROVE  /\ IsFiniteSet(Strikes) /\ Strikes # {} /\ Strikes \subseteq Nat
         /\ Min(Strikes) \in Nat /\ Max(Strikes) \in Nat /\ GridStep \in Int
         /\ Min(Strikes) <= Max(Strikes)
         /\ \A x \in Strikes : Min(Strikes) <= x /\ x <= Max(Strikes)
<1>1. IsFiniteSet(Strikes) /\ Strikes \subseteq Nat
  <2> DEFINE f == [i \in OptionLegs |-> resolved[i].strike]
  <2>1. Strikes = {f[i] : i \in OptionLegs} /\ f = [i \in OptionLegs |-> f[i]]
    BY DEF Strikes
  <2>2. IsFiniteSet(Strikes)
    <3> HIDE DEF f
    <3> QED
      BY <2>1, LegsAre, ImageIsFinite
  <2>3. \A i \in OptionLegs : resolved[i].strike \in Nat
    <3>1. \A r \in ResolvedLeg : r.strike \in Nat
      BY DEF ResolvedLeg
    <3> QED
      BY <3>1, LegsAre, Zenon
  <2> QED
    BY <2>2, <2>3, Zenon DEF Strikes
<1>2. Strikes # {}
  <2>1. Cardinality({resolved[i].dte : i \in OptionLegs}) # Cardinality({})
    BY FS_EmptySet DEF Bounded
  <2>2. OptionLegs # {}
    BY <2>1
  <2> QED
    BY <2>2 DEF Strikes
<1>3. Min(Strikes) \in Nat /\ Max(Strikes) \in Nat
  <2>1. \E x \in Strikes : \A y \in Strikes : x <= y
    BY <1>1, <1>2, LeastOf
  <2>2. Min(Strikes) \in Nat
    BY <1>1, <2>1 DEF Min
  <2>3. Strikes \subseteq Int
    BY <1>1
  <2>4. Max(Strikes) \in Int /\ \A x \in Strikes : x <= Max(Strikes)
    BY <1>1, <1>2, <2>3, ExtremesAre
  <2>5. PICK x \in Strikes : x \in Nat
    BY <1>1, <1>2
  <2> QED
    BY <2>2, <2>4, <2>5
<1>4. GridStep \in Int
  BY <1>3 DEF GridStep
<1>5. \A x \in Strikes : Min(Strikes) <= x /\ x <= Max(Strikes)
  <2>1. Strikes \subseteq Int
    BY <1>1
  <2> QED
    BY <1>1, <1>2, <2>1, ExtremesAre
<1>6. Min(Strikes) <= Max(Strikes)
  <2> PICK low \in Nat : low = Min(Strikes)
    BY <1>3
  <2> PICK high \in Nat : high = Max(Strikes)
    BY <1>3
  <2> PICK x \in Nat : x \in Strikes
    BY <1>1, <1>2
  <2>1. low <= x /\ x <= high
    BY <1>5
  <2>2. low <= high
    BY <2>1
  <2> QED
    BY <2>2
<1> QED
  BY <1>1, <1>2, <1>3, <1>4, <1>5, <1>6

LEMMA PayoffsAre ==
  ASSUME resolved \in Seq(ResolvedLeg), Bounded
  PROVE  /\ IsFiniteSet({Payoff(s) : s \in Grid}) /\ {Payoff(s) : s \in Grid} # {}
         /\ {Payoff(s) : s \in Grid} \subseteq Int
<1> PICK low \in Int : low = Min(Strikes)
    BY StrikesAre
<1> PICK step \in Int : step = GridStep
    BY StrikesAre
<1> PICK steps \in Nat : steps = GridSteps
    BY DEF GridSteps
<1> PICK first \in Int : first = 400 * low
    OBVIOUS
<1> DEFINE points == 0 .. steps
<1>1. IsFiniteSet(points) /\ 0 \in points /\ points \subseteq Int
  BY FS_Interval
<1> DEFINE f == [i \in points |-> Payoff(first + step * i)]
           payoffs == {Payoff(s) : s \in Grid}
<1> HIDE DEF points
<1>2. payoffs = {f[i] : i \in points} /\ f = [i \in points |-> f[i]]
  <2>1. Grid = {first + step * i : i \in points}
    BY DEF Grid, points
  <2> QED
    BY <2>1
<1>3. \A i \in points : f[i] \in Int
  <2> SUFFICES ASSUME NEW i \in points PROVE Payoff(first + step * i) \in Int
      OBVIOUS
  <2>1. first + step * i \in Int
    BY <1>1
  <2> QED
    BY <2>1, PayoffIs
<1> HIDE DEF f, payoffs
<1>4. f[0] \in payoffs
  BY <1>1, <1>2
<1>5. IsFiniteSet(payoffs) /\ payoffs # {} /\ payoffs \subseteq Int
  BY <1>1, <1>2, <1>3, <1>4, ImageIsFinite
<1> QED
  BY <1>5 DEF payoffs

LEMMA BoundsAre ==
  ASSUME resolved \in Seq(ResolvedLeg)
  PROVE  /\ _payoff_bounds.loss \in Int
         /\ Bounded => \A s \in Grid : Payoff(s) \in Int /\ Payoff(s) >= -_payoff_bounds.loss
<1>1. CASE Bounded
  <2> DEFINE payoffs == {Payoff(s) : s \in Grid}
  <2>1. \A s \in Grid : Payoff(s) \in payoffs
    OBVIOUS
  <2>2. IsFiniteSet(payoffs) /\ payoffs # {} /\ payoffs \subseteq Int
    BY <1>1, PayoffsAre
  <2>3. _payoff_bounds.loss = -Min(payoffs)
    BY <1>1 DEF _payoff_bounds
  <2> HIDE DEF payoffs
  <2>4. PICK m \in Int : m = Min(payoffs) /\ \A x \in payoffs : m <= x
    BY <2>2, ExtremesAre
  <2>5. _payoff_bounds.loss = -m
    BY <2>3, <2>4
  <2>6. ASSUME NEW s \in Grid PROVE Payoff(s) \in Int /\ Payoff(s) >= m
    BY <2>1, <2>2, <2>4
  <2>7. -m \in Int /\ -(-m) = m
    BY <2>4
  <2> QED
    BY <2>5, <2>6, <2>7
<1>2. CASE ~Bounded
  BY <1>2 DEF _payoff_bounds, Unknown
<1> QED
  BY <1>1, <1>2

----------------------------------------------------------------------------
(* Every step keeps it                                                     *)

LEMMA Appended ==
  ASSUME RInv, MoreLegs, NEW leg, leg = NextLeg, NEW r \in ResolvedLeg, Placed(leg, r),
         resolved' = Append(resolved, r), UNCHANGED << template, chain, stage, bounds, limits, qty >>
  PROVE  RInv'
<1>1. /\ Len(template.legs) \in Nat /\ Len(resolved) \in Nat /\ resolved \in Seq(ResolvedLeg)
      /\ Len(resolved) < Len(template.legs) /\ stage = "legs"
      /\ leg = template.legs[Len(resolved) + 1]
  BY TemplateLegs DEF RInv, MoreLegs, NextLeg
<1>2. /\ resolved' \in Seq(ResolvedLeg) /\ Len(resolved') = Len(resolved) + 1
      /\ resolved'[Len(resolved) + 1] = r
      /\ \A i \in 1 .. Len(resolved) : resolved'[i] = resolved[i]
  BY <1>1
<1>3. Legs' = 1 .. Len(resolved') /\ Legs = 1 .. Len(resolved)
  BY <1>1, <1>2 DEF Legs
<1>4. ASSUME NEW i \in Legs', NEW l, NEW s, l = template'.legs[i], s = resolved'[i]
      PROVE  Placed(l, s)'
  <2>1. CASE i \in Legs
    <3>1. l = template.legs[i] /\ s = resolved[i]
      BY <1>2, <1>3, <1>4, <2>1
    <3>2. Placed(l, s)
      BY <2>1, <3>1 DEF RInv
    <3> QED
      BY <3>2, PlacedStays
  <2>2. CASE i \notin Legs
    <3>1. i = Len(resolved) + 1
      BY <1>1, <1>2, <1>3, <2>2
    <3>2. l = leg /\ s = r
      BY <1>1, <1>2, <1>4, <3>1
    <3>3. Placed(l, s)
      BY <3>2
    <3> QED
      BY <3>3, PlacedStays
  <2> QED
    BY <2>1, <2>2
<1>5. Known' /\ template' \in TEMPLATES /\ bounds'.loss \in Int
  BY DEF RInv, Known
<1>6. SizedWithinMeans'
  BY <1>1 DEF SizedWithinMeans
<1>7. resolved' \in Seq(ResolvedLeg) /\ Len(resolved') <= Len(template'.legs)
  BY <1>1, <1>2
<1>8. ~(stage' = "resolved")
  BY <1>1
<1> QED
  BY <1>4, <1>5, <1>6, <1>7, <1>8, Zenon DEF RInv

LEMMA BoundsStay ==
  ASSUME UNCHANGED << template, resolved >>
  PROVE  _payoff_bounds' = _payoff_bounds
<1>1. Legs' = Legs /\ OptionLegs' = OptionLegs /\ Strikes' = Strikes
  BY DEF Legs, OptionLegs, Strikes
<1>2. GridStep' = GridStep
  BY <1>1 DEF GridStep
<1>3. Grid' = Grid
  BY <1>1, <1>2 DEF Grid
<1>4. Net2' = Net2
  BY <1>1 DEF Net2
<1>5. \A s : Payoff(s)' = Payoff(s)
  BY <1>1, <1>4 DEF Payoff
<1>6. Bounded' <=> Bounded
  BY <1>1 DEF Bounded
<1> QED
  BY <1>3, <1>5, <1>6 DEF _payoff_bounds

LEMMA Unmoved ==
  ASSUME RInv, UNCHANGED << template, chain, resolved >>, bounds'.loss \in Int, SizedWithinMeans',
         stage' = "resolved" => Len(resolved) = Len(template.legs) /\ bounds' = _payoff_bounds
  PROVE  RInv'
<1>1. ASSUME NEW i \in Legs', NEW l, NEW s, l = template'.legs[i], s = resolved'[i]
      PROVE  Placed(l, s)'
  <2>1. Placed(l, s)
    BY <1>1 DEF RInv, Legs
  <2> QED
    BY <2>1, PlacedStays
<1>2. Known' /\ template' \in TEMPLATES
  BY DEF RInv, Known
<1>3. _payoff_bounds' = _payoff_bounds
  BY BoundsStay
<1> QED
  BY <1>1, <1>2, <1>3 DEF RInv

LEMMA RatioIs == ASSUME NEW leg \in TemplateLeg PROVE Ratio(leg) \in Nat
  BY DEF Ratio, TemplateLeg

LEMMA NextLegIs ==
  ASSUME RInv, MoreLegs
  PROVE  NextLeg \in TemplateLeg
<1>1. /\ Len(template.legs) \in Nat /\ Len(resolved) \in Nat /\ Len(resolved) < Len(template.legs)
      /\ \A i \in 1 .. Len(template.legs) : template.legs[i] \in TemplateLeg
  BY TemplateLegs DEF MoreLegs
<1> QED
  BY <1>1 DEF NextLeg

LEMMA ResolveStockKeeps == ASSUME RInv, ResolveStock PROVE RInv'
<1> PICK leg \in TemplateLeg : leg = NextLeg
  BY NextLegIs DEF ResolveStock
<1> DEFINE r == [instrument |-> "stock", side |-> leg.side, ratio |-> Ratio(leg), strike |-> 0,
                 dte |-> 0, bid |-> spot, ask |-> spot]
<1>1. /\ MoreLegs /\ leg.instrument = "stock" /\ resolved' = Append(resolved, r)
      /\ UNCHANGED << template, chain, stage, bounds, limits, qty >>
  BY DEF ResolveStock
<1>2. spot \in Nat
  BY SpotIs DEF RInv
<1>3. r \in ResolvedLeg
  BY <1>2, RatioIs DEF ResolvedLeg, TemplateLeg
<1>4. Placed(leg, r)
  BY <1>1 DEF Placed, TemplateLeg
<1> PICK s \in ResolvedLeg : s = r
  BY <1>3
<1> HIDE DEF r
<1> QED
  BY <1>1, <1>4, Appended

LEMMA ResolveLegKeeps == ASSUME RInv, ResolveLeg PROVE RInv'
<1> PICK leg \in TemplateLeg : leg = NextLeg
  BY NextLegIs DEF ResolveLeg
<1> PICK c \in Liquid(ExpiryOf(leg), leg.instrument) :
      /\ c.strike = _resolve_strike(leg, GridOf(leg))
      /\ resolved' = Append(resolved,
           [instrument |-> leg.instrument, side |-> leg.side, ratio |-> Ratio(leg),
            strike |-> c.strike, dte |-> c.dte, bid |-> c.bid, ask |-> c.ask])
  BY DEF ResolveLeg, GridOf
<1>1. /\ MoreLegs /\ leg.instrument # "stock" /\ ~NoStrike(leg, GridOf(leg))
      /\ UNCHANGED << template, chain, stage, bounds, limits, qty >>
  BY DEF ResolveLeg, GridOf
<1>2. c \in contracts /\ c.dte = ExpiryOf(leg) /\ c.bid > 0 /\ c.ask > 0
  BY DEF Liquid, _liquid
<1>3. c.dte \in Nat /\ c.strike \in Nat /\ c.bid \in Nat /\ c.ask \in Nat
  BY <1>2, ContractsAre DEF RInv
<1> DEFINE r == [instrument |-> leg.instrument, side |-> leg.side, ratio |-> Ratio(leg),
                 strike |-> c.strike, dte |-> c.dte, bid |-> c.bid, ask |-> c.ask]
<1>4. r \in ResolvedLeg
  BY <1>3, RatioIs DEF ResolvedLeg, TemplateLeg
<1>5. Beyond(leg) => c.strike = BeyondStrike(leg, GridOf(leg))
  BY DEF Beyond, _resolve_strike, BeyondStrike
<1>6. Placed(leg, r)
  <2>1. \E d \in contracts : r.bid = d.bid /\ r.ask = d.ask /\ d.bid > 0 /\ d.ask > 0
    BY <1>2
  <2> QED
    BY <1>1, <1>2, <1>5, <2>1 DEF Placed
<1>7. resolved' = Append(resolved, r)
  OBVIOUS
<1> PICK s \in ResolvedLeg : s = r
  BY <1>4
<1> HIDE DEF r
<1> QED
  BY <1>1, <1>6, <1>7, Appended

\* Rounded down, the share of the capital is not exceeded; nor where it is rounded up
\* to one, by more than one.
LEMMA Quotients ==
  ASSUME NEW a \in Nat, NEW b \in Nat \ {0}
  PROVE  a \div b \in Nat /\ b * (a \div b) <= a
  OBVIOUS

LEMMA Scales ==
  \A x, y \in Int, n \in Nat : x <= y => (100 * x) * n <= (100 * y) * n
  OBVIOUS

LEMMA WithinMeans ==
  ASSUME NEW risk \in Int, NEW cost \in Nat, NEW capital \in Nat, NEW share \in Nat, NEW most \in Nat,
         risk + cost > 0,
         NEW first \in Nat, NEW n, n = Capped(first, risk + cost, risk, capital, most), n > 1
  PROVE  100 * risk * n <= 8 * capital * most
<1> PICK money \in Nat : money = 8 * capital * most
  OBVIOUS
<1>1. CASE 100 * risk * first > 8 * capital * most
  <2> PICK outlay \in Nat \ {0} : outlay = risk + cost
    OBVIOUS
  <2>1. n = AtLeastOne(money \div (100 * outlay))
    BY <1>1 DEF Capped
  <2>2. 100 * outlay \in Nat \ {0}
    OBVIOUS
  <2>3. money \div (100 * outlay) \in Nat /\ (100 * outlay) * (money \div (100 * outlay)) <= money
    BY <2>2, Quotients
  <2> PICK q \in Nat : q = money \div (100 * outlay)
    BY <2>3
  <2>4. n = q
    BY <2>1 DEF AtLeastOne
  <2>5. (100 * risk) * q <= (100 * outlay) * q
    BY Scales
  <2>6. (100 * outlay) * q <= money
    BY <2>3
  <2>7. (100 * risk) * q \in Int /\ (100 * outlay) * q \in Int
    OBVIOUS
  <2>8. (100 * risk) * q <= money
    BY <2>5, <2>6, <2>7
  <2> QED
    BY <2>4, <2>8
<1>2. CASE ~(100 * risk * first > 8 * capital * most)
  <2>1. n = first
    BY <1>2 DEF Capped
  <2>2. 100 * risk * first \in Int
    OBVIOUS
  <2> QED
    BY <1>2, <2>1, <2>2
<1> QED
  BY <1>1, <1>2

LEMMA SizeKeeps == ASSUME RInv, Size PROVE RInv'
<1>1. stage' = "sized" /\ UNCHANGED << template, chain, resolved, bounds >>
  BY DEF Size
<1> PICK capital \in Capitals, share \in RiskFractions, most \in MaxRisks :
      /\ limits' = [capital |-> capital, risk |-> share, most |-> most]
      /\ qty' = size_structure(capital, share, most)
  BY DEF Size
<1>2. capital \in Nat /\ share \in Nat /\ most \in Nat
  BY PercentAssumption
<1> PICK risk \in Int : risk = unit_risk
  BY UnitRiskIs DEF RInv
<1> PICK cost \in Nat : cost = stock_cost
  BY StockCostIs DEF RInv
<1>3. unit_risk' = risk /\ stock_cost' = cost
  BY <1>1, SameMeans
<1> PICK outlay \in Int : outlay = risk + cost
  OBVIOUS
<1> DEFINE first == AtLeastOne((8 * capital * share) \div (100 * outlay))
           n == Capped(first, outlay, risk, capital, most)
<1>4. qty' = IF outlay <= 0 THEN 1 ELSE IF 100 * outlay * n > 840 * capital THEN 0 ELSE n
  BY DEF size_structure
<1>5. SizedWithinMeans'
  <2> SUFFICES ASSUME qty' > 0
               PROVE  /\ outlay > 0 => 100 * outlay * qty' <= 840 * capital
                      /\ qty' > 1 => 100 * risk * qty' <= 8 * capital * most
      BY <1>3 DEF SizedWithinMeans
  <2>1. CASE outlay <= 0
    BY <1>4, <2>1
  <2>2. CASE outlay > 0
    <3>1. 8 * capital * share \in Nat /\ 100 * outlay \in Nat \ {0}
      BY <1>2, <2>2
    <3>2. (8 * capital * share) \div (100 * outlay) \in Nat
      BY <3>1, Quotients
    <3>3. first \in Nat
      BY <3>2 DEF AtLeastOne
    <3>4. n \in Nat
      <4> PICK f \in Nat : f = first
        BY <3>3
      <4> HIDE DEF first
      <4>1. 8 * capital * most \in Nat
        BY <1>2
      <4>2. (8 * capital * most) \div (100 * outlay) \in Nat
        BY <3>1, <4>1, Quotients
      <4> QED
        BY <4>2 DEF Capped, AtLeastOne
    <3> HIDE DEF first
    <3> PICK k \in Nat : k = n
      BY <3>4
    <3>5. k > 1 => 100 * risk * k <= 8 * capital * most
      <4> PICK f \in Nat : f = first
        BY <3>3
      <4>1. k = Capped(f, risk + cost, risk, capital, most) /\ risk + cost > 0
        BY <2>2
      <4> HIDE DEF n
      <4> QED
        BY <1>2, <4>1, WithinMeans
    <3> HIDE DEF n
    <3>6. qty' = k /\ ~(100 * outlay * k > 840 * capital)
      BY <1>4, <2>2
    <3>7. 100 * outlay * k \in Int /\ 840 * capital \in Int
      BY <1>2
    <3> QED
      BY <3>5, <3>6, <3>7
  <2> QED
    BY <2>1, <2>2
<1>6. bounds'.loss \in Int
  BY <1>1 DEF RInv
<1> QED
  BY <1>1, <1>5, <1>6, Unmoved

LEMMA RInvInit == ASSUME Init PROVE RInv
<1>1. Legs = {} /\ resolved \in Seq(ResolvedLeg) /\ Len(resolved) = 0
  BY DEF Init, Legs
<1>2. template.legs \in Seq(TemplateLeg)
  BY TemplatesAre DEF Init
<1>3. Len(template.legs) \in Nat
  BY <1>2
<1> QED
  BY <1>1, <1>3 DEF Init, RInv, Known, Unknown, SizedWithinMeans

LEMMA RInvNext == ASSUME RInv, [Next]_vars PROVE RInv'
<1>1. CASE ResolveStock
  BY <1>1, ResolveStockKeeps
<1>2. CASE ResolveLeg
  BY <1>2, ResolveLegKeeps
<1>3. CASE ResolutionError
  BY <1>3, Unmoved DEF ResolutionError, RInv, SizedWithinMeans
<1>4. CASE Resolve
  <2>1. _payoff_bounds.loss \in Int
    BY BoundsAre DEF RInv
  <2> QED
    BY <1>4, <2>1, Unmoved DEF Resolve, SizedWithinMeans
<1>5. CASE Size
  BY <1>5, SizeKeeps
<1>6. CASE UNCHANGED vars
  <2>1. unit_risk' = unit_risk /\ stock_cost' = stock_cost
    BY <1>6, SameMeans DEF vars
  <2>2. SizedWithinMeans'
    BY <1>6, <2>1 DEF vars, RInv, SizedWithinMeans
  <2> QED
    BY <1>6, <2>2, Unmoved DEF vars, RInv
<1> QED
  BY <1>1, <1>2, <1>3, <1>4, <1>5, <1>6 DEF Next

\* Every leg that is resolved is its template's, at its rule's strike of its expiry.
THEOREM ResolverInvariant == Spec => []RInv
<1>1. Init => RInv
  BY RInvInit
<1>2. RInv /\ [Next]_vars => RInv'
  BY RInvNext
<1> QED
  BY <1>1, <1>2, PTL DEF Spec

----------------------------------------------------------------------------
(* The properties                                                          *)

\* No slot trades more units than its capital can pay for, to 5%, nor more than one
\* whose risk is above its cap: size_structure, for any quotes and any limits.
THEOREM WithinMeansAlways == Spec => []SizedWithinMeans
<1>1. RInv => SizedWithinMeans
  BY DEF RInv
<1> QED
  BY <1>1, ResolverInvariant, PTL

\* A leg out of the money or in it, as _resolve_strike places it.
LEMMA BeyondIs ==
  ASSUME RInv, NEW i \in Legs, NEW a, a = template.legs[i], a.instrument # "stock", Beyond(a)
  PROVE  /\ a \in TemplateLeg /\ Known /\ ~NoStrike(a, GridOf(a))
         /\ resolved[i].strike = BeyondStrike(a, GridOf(a))
         /\ _strike_grid(resolved[i].dte, resolved[i].instrument) = GridOf(a)
<1>1. a \in TemplateLeg /\ Placed(a, resolved[i])
  BY TemplateLegs
<1>2. resolved[i].dte = ExpiryOf(a) /\ resolved[i].instrument = a.instrument
  BY <1>1 DEF Placed
<1> QED
  BY <1>1, <1>2 DEF Placed, GridOf, RInv

LEMMA SameSide ==
  ASSUME NEW a, NEW b, a.instrument = b.instrument, a.expiry = b.expiry,
         b.strike.kind = a.strike.kind
  PROVE  /\ Direction(b) = Direction(a) /\ GridOf(b) = GridOf(a) /\ (Beyond(a) => Beyond(b))
  BY DEF Direction, GridOf, ExpiryOf, Beyond

\* The strikes of a structure keep the order of its rules, on the side of the spot
\* they name, whatever strikes are listed; and never meet on a grid that is dense as
\* far as they aim.
THEOREM StrikesOrderedAlways == Spec => []StrikesOrdered
<1>1. ASSUME RInv PROVE StrikesOrdered
  <2> SUFFICES ASSUME NEW i \in Legs, NEW j \in Legs,
                      NEW a, a = template.legs[i], a.instrument # "stock", Beyond(a),
                      NEW b, b = template.legs[j],
                      NEW grid, grid = _strike_grid(resolved[i].dte, resolved[i].instrument)
               PROVE  /\ Direction(a) * (resolved[i].strike - Atm(grid)) > 0
                      /\ /\ i # j /\ a.instrument = b.instrument /\ a.expiry = b.expiry
                         /\ b.strike.kind = a.strike.kind /\ b.strike.n > a.strike.n
                         => /\ Direction(a) * (resolved[j].strike - resolved[i].strike) >= 0
                            /\ Dense(grid) /\ Covering(grid, b) =>
                                 Direction(a) * (resolved[j].strike - resolved[i].strike) > 0
      BY DEF StrikesOrdered, Beyond
  <2>1. a \in TemplateLeg /\ Known /\ ~NoStrike(a, grid) /\ GridOf(a) = grid
    BY <1>1, BeyondIs
  <2> PICK x : x = resolved[i].strike /\ x = BeyondStrike(a, grid)
    BY <1>1, <2>1, BeyondIs
  <2>2. grid \in SUBSET Nat /\ IsFiniteSet(grid)
    BY <2>1, GridIs
  <2>3. Direction(a) * (x - Atm(grid)) > 0
    BY <2>1, <2>2, StrikeIs
  <2>4. ASSUME i # j, a.instrument = b.instrument, a.expiry = b.expiry,
               b.strike.kind = a.strike.kind, b.strike.n > a.strike.n
        PROVE  /\ Direction(a) * (resolved[j].strike - x) >= 0
               /\ Dense(grid) /\ Covering(grid, b) => Direction(a) * (resolved[j].strike - x) > 0
    <3>1. Direction(b) = Direction(a) /\ GridOf(b) = grid /\ Beyond(b) /\ b.instrument # "stock"
      BY <2>1, <2>4, SameSide
    <3>2. b \in TemplateLeg /\ ~NoStrike(b, grid) /\ resolved[j].strike = BeyondStrike(b, grid)
      BY <1>1, <3>1, BeyondIs
    <3> PICK y : y = resolved[j].strike /\ y = BeyondStrike(b, grid)
      BY <3>2
    <3>3. Direction(a) * (y - x) >= 0
      BY <2>1, <2>2, <2>4, <3>1, <3>2, StrikesRise
    <3>4. Dense(grid) /\ Covering(grid, b) => Direction(a) * (y - x) > 0
      BY <2>1, <2>2, <2>4, <3>1, <3>2, StrikesApart
    <3> QED
      BY <3>3, <3>4
  <2> QED
    BY <2>3, <2>4
<1> QED
  BY <1>1, ResolverInvariant, PTL

\* No bid is above its ask; the code takes such a quote for a liquid one.
Uncrossed ==
  \A ch \in DOMAIN Chains : \A c \in Chains[ch].contracts : c.bid > 0 /\ c.ask > 0 => c.bid <= c.ask

LEMMA HalfSpreads == \A p, d \in Nat : 2 * p * d \in Nat
  OBVIOUS

\* Quotes of a leg: not crossed, and a share's bid and ask are one.
Quoted(r, q) ==
  /\ q.bid \in Nat /\ q.ask \in Nat /\ q.bid <= q.ask
  /\ r.instrument = "stock" => q.bid \in {0, q.ask}

\* What a leg counts for in the fill and in the value of a unit.
Filled(r, q, pct, closing) == Sign(r) * FillPrice(r, q, pct, closing) * Units(r)
Valued(r, q) == Sign(r) * (200 * Mid2(q)) * Units(r)

\* A buy is no cheaper than mid, a sale no dearer.
LEMMA FillIs ==
  ASSUME NEW r \in ResolvedLeg, NEW q, Quoted(r, q), NEW pct \in Nat, NEW closing \in BOOLEAN
  PROVE  /\ Mid2(q) \in Nat /\ FillPrice(r, q, pct, closing) \in Int
         /\ Side(r, closing) \in {1, -1}
         /\ Side(r, closing) = 1 => FillPrice(r, q, pct, closing) >= 200 * Mid2(q)
         /\ Side(r, closing) = -1 => FillPrice(r, q, pct, closing) <= 200 * Mid2(q)
<1> PICK bid \in Nat : bid = q.bid
  BY DEF Quoted
<1> PICK ask \in Nat : ask = q.ask
  BY DEF Quoted
<1>1. bid <= ask /\ (r.instrument = "stock" => bid \in {0, ask})
  BY DEF Quoted
<1>2. Side(r, closing) \in {1, -1}
  BY TermsAre DEF Side
<1> PICK s \in {1, -1} : s = Side(r, closing)
  BY <1>2
<1>3. Mid2(q) \in Nat /\ (bid > 0 => Mid2(q) = bid + ask) /\ (bid = 0 => Mid2(q) = 2 * ask)
  BY <1>1 DEF Mid2
<1>4. CASE r.instrument = "stock"
  <2> PICK w \in Nat : w = 8 * pct * ask
    OBVIOUS
  <2>1. Mid2(q) = 2 * ask
    BY <1>1, <1>3, <1>4
  <2>2. FillPrice(r, q, pct, closing) = 400 * ask + (w * s) \div 10000
    BY <1>4 DEF FillPrice
  <2>3. s = 1 => w * s = w
    OBVIOUS
  <2>4. s = -1 => w * s = -w
    OBVIOUS
  <2>5. w \div 10000 \in Nat /\ (-w) \div 10000 \in Int /\ (-w) \div 10000 <= 0
    OBVIOUS
  <2> QED
    BY <1>2, <2>1, <2>2, <2>3, <2>4, <2>5
<1>5. CASE r.instrument # "stock" /\ bid > 0
  <2> PICK w \in Nat : w = 2 * pct * (ask - bid)
    BY <1>1, HalfSpreads
  <2>1. FillPrice(r, q, pct, closing) = 200 * Mid2(q) + w * s
    BY <1>5 DEF FillPrice
  <2> QED
    BY <1>2, <1>3, <2>1
<1>6. CASE r.instrument # "stock" /\ ~(bid > 0)
  <2>1. FillPrice(r, q, pct, closing) = IF s = 1 THEN 400 * ask ELSE 0
    BY <1>6 DEF FillPrice
  <2> QED
    BY <1>2, <1>3, <1>6, <2>1
<1> QED
  BY <1>4, <1>5, <1>6

LEMMA Scaled == \A x, y \in Int, n \in Nat : x <= y => x * n \in Int /\ y * n \in Int /\ x * n <= y * n
  OBVIOUS

\* What is bought counts up, what is sold down.
LEMMA SignedCosts ==
  ASSUME NEW s \in {1, -1}, NEW side \in {1, -1}, NEW price \in Int, NEW mid \in Int, NEW n \in Nat,
         side = 1 => price >= mid, side = -1 => price <= mid
  PROVE  /\ (s * price) * n \in Int /\ (s * mid) * n \in Int
         /\ side = s => (s * mid) * n <= (s * price) * n
         /\ side = -s => (s * price) * n <= (s * mid) * n
<1> PICK x \in Int : x = s * price
  OBVIOUS
<1> PICK y \in Int : y = s * mid
  OBVIOUS
<1>1. (side = s => y <= x) /\ (side = -s => x <= y)
  <2>1. CASE s = 1
    BY <2>1
  <2>2. CASE s = -1
    BY <2>2
  <2> QED
    BY <2>1, <2>2
<1>2. x * n \in Int /\ y * n \in Int
  OBVIOUS
<1> QED
  BY <1>1, <1>2, Scaled

LEMMA LegFills ==
  ASSUME NEW r \in ResolvedLeg, NEW q, Quoted(r, q), NEW pct \in Nat, NEW closing \in BOOLEAN
  PROVE  /\ Filled(r, q, pct, closing) \in Int /\ Valued(r, q) \in Int
         /\ ~closing => Valued(r, q) <= Filled(r, q, pct, closing)
         /\ closing => Filled(r, q, pct, closing) <= Valued(r, q)
<1>1. /\ Mid2(q) \in Nat /\ FillPrice(r, q, pct, closing) \in Int
      /\ Side(r, closing) \in {1, -1}
      /\ Side(r, closing) = 1 => FillPrice(r, q, pct, closing) >= 200 * Mid2(q)
      /\ Side(r, closing) = -1 => FillPrice(r, q, pct, closing) <= 200 * Mid2(q)
  BY FillIs
<1> PICK price \in Int : price = FillPrice(r, q, pct, closing)
  BY <1>1
<1> PICK mid \in Int : mid = 200 * Mid2(q)
  BY <1>1
<1> PICK n \in Nat : n = Units(r)
  BY TermsAre
<1> PICK s \in {1, -1} : s = Sign(r)
  BY TermsAre
<1> PICK side \in {1, -1} : side = Side(r, closing)
  BY <1>1
<1>2. (side = 1 => price >= mid) /\ (side = -1 => price <= mid)
  BY <1>1
<1>3. /\ (s * price) * n \in Int /\ (s * mid) * n \in Int
      /\ side = s => (s * mid) * n <= (s * price) * n
      /\ side = -s => (s * price) * n <= (s * mid) * n
  BY <1>2, SignedCosts
<1>4. Filled(r, q, pct, closing) = (s * price) * n /\ Valued(r, q) = (s * mid) * n
  BY Zenon DEF Filled, Valued
<1>5. (~closing => side = s) /\ (closing => side = -s)
  BY DEF Side
<1> PICK f \in Int : f = (s * price) * n
  BY <1>3
<1> PICK v \in Int : v = (s * mid) * n
  BY <1>3
<1>6. Filled(r, q, pct, closing) = f /\ Valued(r, q) = v
  BY <1>4
<1>7. (side = s => v <= f) /\ (side = -s => f <= v)
  BY <1>3, Zenon
<1> QED
  BY <1>5, <1>6, <1>7

LEMMA PackageFills ==
  ASSUME resolved \in Seq(ResolvedLeg), NEW quotes, \A i \in Legs : Quoted(resolved[i], quotes[i]),
         NEW pct \in Nat, NEW closing \in BOOLEAN
  PROVE  /\ ~closing => structure_value(quotes) <= fill_value(quotes, pct, closing)
         /\ closing => fill_value(quotes, pct, closing) <= structure_value(quotes)
<1> DEFINE f == [i \in Legs |-> Filled(resolved[i], quotes[i], pct, closing)]
           g == [i \in Legs |-> Valued(resolved[i], quotes[i])]
<1>1. ASSUME NEW i \in Legs
      PROVE  /\ f[i] \in Int /\ g[i] \in Int
             /\ ~closing => g[i] <= f[i]
             /\ closing => f[i] <= g[i]
  <2>1. resolved[i] \in ResolvedLeg /\ Quoted(resolved[i], quotes[i])
    BY LegsAre
  <2>2. f[i] = Filled(resolved[i], quotes[i], pct, closing) /\ g[i] = Valued(resolved[i], quotes[i])
    OBVIOUS
  <2> HIDE DEF f, g
  <2> QED
    BY <2>1, <2>2, LegFills, Zenon
<1>2. f = [i \in Legs |-> f[i]] /\ g = [i \in Legs |-> g[i]]
  OBVIOUS
<1>3. fill_value(quotes, pct, closing) = SumOf(f) /\ structure_value(quotes) = SumOf(g)
  BY TotalIsSum, Zenon DEF fill_value, structure_value, Filled, Valued
<1> HIDE DEF f, g
<1>4. f \in [Legs -> Int] /\ g \in [Legs -> Int] /\ IsFiniteSet(Legs)
  BY <1>1, <1>2, LegsAre
<1>5. (~closing => SumOf(g) <= SumOf(f)) /\ (closing => SumOf(f) <= SumOf(g))
  BY <1>1, <1>4, SumMonotone
<1> QED
  BY <1>3, <1>5, Zenon

\* A round trip at one set of quotes never earns, with bids missing at the close or
\* not: fill_value against structure_value, for any legs and any percentages.
THEOREM FillsCostAlways == ASSUME Uncrossed PROVE Spec => []FillsCost
<1>1. ASSUME RInv PROVE FillsCost
  <2> DEFINE seen == [i \in Legs |-> [bid |-> resolved[i].bid, ask |-> resolved[i].ask]]
             Later(unbid) == [i \in Legs |->
                                IF i \in unbid THEN [seen[i] EXCEPT !.bid = 0] ELSE seen[i]]
  <2>1. resolved \in Seq(ResolvedLeg)
    BY <1>1 DEF RInv
  <2>2. ASSUME NEW i \in Legs
        PROVE  /\ resolved[i].bid \in Nat /\ resolved[i].ask \in Nat
               /\ resolved[i].bid <= resolved[i].ask
               /\ resolved[i].instrument = "stock" => resolved[i].bid = resolved[i].ask
    <3>1. resolved[i] \in ResolvedLeg /\ Placed(template.legs[i], resolved[i])
      BY <1>1, TemplateLegs
    <3>2. \A c \in contracts : c.bid > 0 /\ c.ask > 0 => c.bid <= c.ask
      BY <1>1 DEF Uncrossed, contracts, RInv, Known
    <3>3. resolved[i].bid \in Nat /\ resolved[i].ask \in Nat
      BY <3>1 DEF ResolvedLeg
    <3>4. CASE resolved[i].instrument = "stock"
      BY <3>1, <3>3, <3>4 DEF Placed
    <3>5. CASE resolved[i].instrument # "stock"
      BY <3>1, <3>2, <3>3, <3>5 DEF Placed
    <3> QED
      BY <3>3, <3>4, <3>5
  <2>3. ASSUME NEW pct \in SpreadFractions, NEW unbid \in SUBSET Legs
        PROVE  /\ fill_value(seen, pct, FALSE) >= structure_value(seen)
               /\ fill_value(Later(unbid), pct, TRUE) <= structure_value(Later(unbid))
    <3>1. pct \in Nat
      BY PercentAssumption
    <3>2. \A i \in Legs : Quoted(resolved[i], seen[i])
      BY <2>2 DEF Quoted
    <3>3. \A i \in Legs : Quoted(resolved[i], Later(unbid)[i])
      <4>1. \A i \in Legs : /\ Later(unbid)[i].bid \in {0, resolved[i].bid}
                            /\ Later(unbid)[i].ask = resolved[i].ask
        OBVIOUS
      <4> HIDE DEF Later
      <4> QED
        BY <2>2, <4>1 DEF Quoted
    <3> PICK now : now = seen
      OBVIOUS
    <3> PICK later : later = Later(unbid)
      OBVIOUS
    <3> HIDE DEF seen, Later
    <3>4. structure_value(now) <= fill_value(now, pct, FALSE)
      BY <2>1, <3>1, <3>2, PackageFills
    <3>5. fill_value(later, pct, TRUE) <= structure_value(later)
      BY <2>1, <3>1, <3>3, PackageFills
    <3> QED
      BY <3>4, <3>5
  <2> QED
    BY <2>3 DEF FillsCost
<1> QED
  BY <1>1, ResolverInvariant, PTL

----------------------------------------------------------------------------
(* What a template's legs add up to                                        *)

Part(leg, instrument, side) == IF leg.instrument = instrument /\ leg.side = side THEN leg.ratio ELSE 0
Count(legs, instrument, side) == SumOf([i \in DOMAIN legs |-> Part(legs[i], instrument, side)])

\* What a leg gives to, or takes from, the cover of the calls, of the puts, and of a rise.
CallCover(leg) == Part(leg, C, "buy") + Part(leg, "stock", "buy") - Part(leg, C, "sell")
PutCover(leg) == Part(leg, P, "buy") + Part(leg, "stock", "sell") - Part(leg, P, "sell")
RiseCover(leg) == CallCover(leg) - Part(leg, "stock", "sell")
SoldNear(leg) == leg.side = "sell" => leg.expiry = "near"

CallsCovered(legs) == Count(legs, C, "sell") <= Count(legs, C, "buy") + Count(legs, "stock", "buy")
PutsCovered(legs) == Count(legs, P, "sell") <= Count(legs, P, "buy") + Count(legs, "stock", "sell")
RiseCovered(legs) ==
  Count(legs, C, "sell") + Count(legs, "stock", "sell")
    <= Count(legs, C, "buy") + Count(legs, "stock", "buy")
AllSoldNear(legs) == \A i \in DOMAIN legs : SoldNear(legs[i])

LEMMA PartIs ==
  ASSUME NEW leg \in TemplateLeg, NEW x, NEW y
  PROVE  Part(leg, x, y) \in Nat
  BY DEF Part, TemplateLeg

LEMMA OneMoreIsFinite ==
  ASSUME NEW S, IsFiniteSet(S), NEW x PROVE IsFiniteSet(S \cup {x})
  BY FS_AddElement, Zenon

LEMMA SmallSets ==
  ASSUME NEW x, NEW y, NEW z, NEW w
  PROVE  IsFiniteSet({x, y}) /\ IsFiniteSet({x, y, z}) /\ IsFiniteSet({x, y, z, w})
<1>1. IsFiniteSet({x})
  BY FS_Singleton, Zenon
<1>2. IsFiniteSet({x} \cup {y})
  BY <1>1, OneMoreIsFinite, Zenon
<1>3. {x} \cup {y} = {x, y}
  BY Zenon
<1>4. IsFiniteSet({x, y} \cup {z})
  BY <1>2, <1>3, OneMoreIsFinite, Zenon
<1>5. {x, y} \cup {z} = {x, y, z}
  BY Zenon
<1>6. IsFiniteSet({x, y, z} \cup {w})
  BY <1>4, <1>5, OneMoreIsFinite, Zenon
<1>7. {x, y, z} \cup {w} = {x, y, z, w}
  BY Zenon
<1> QED
  BY <1>2, <1>3, <1>4, <1>5, <1>6, <1>7, Zenon

LEMMA PairCounts ==
  ASSUME NEW a \in TemplateLeg, NEW b \in TemplateLeg, NEW x, NEW y
  PROVE  Count(<< a, b >>, x, y) = Part(a, x, y) + Part(b, x, y)
<1> DEFINE S == DOMAIN << a, b >>
           f == [i \in S |-> Part(<< a, b >>[i], x, y)]
<1>1. 1 \in S /\ 2 \in S /\ S = {1, 2}
  OBVIOUS
<1>2. IsFiniteSet(S)
  <2>1. IsFiniteSet({1, 2})
    BY SmallSets
  <2> HIDE DEF S
  <2> QED
    BY <1>1, <2>1
<1>3. f \in [S -> Int] /\ f[1] = Part(a, x, y) /\ f[2] = Part(b, x, y)
  BY <1>1, PartIs
<1> HIDE DEF f, S
<1>4. SumOf(f) = f[1] + f[2]
  BY <1>1, <1>2, <1>3, SumOfTwo
<1> QED
  BY <1>3, <1>4 DEF Count, f, S

LEMMA TripleCounts ==
  ASSUME NEW a \in TemplateLeg, NEW b \in TemplateLeg, NEW c \in TemplateLeg, NEW x, NEW y
  PROVE  Count(<< a, b, c >>, x, y) = Part(a, x, y) + Part(b, x, y) + Part(c, x, y)
<1> DEFINE S == DOMAIN << a, b, c >>
           f == [i \in S |-> Part(<< a, b, c >>[i], x, y)]
<1>1. 1 \in S /\ 2 \in S /\ 3 \in S /\ S = {1, 2, 3}
  OBVIOUS
<1>2. IsFiniteSet(S)
  <2>1. IsFiniteSet({1, 2, 3})
    BY SmallSets
  <2> HIDE DEF S
  <2> QED
    BY <1>1, <2>1
<1>3. /\ f \in [S -> Int] /\ f[1] = Part(a, x, y) /\ f[2] = Part(b, x, y)
      /\ f[3] = Part(c, x, y)
  BY <1>1, PartIs
<1> HIDE DEF f, S
<1>4. SumOf(f) = f[1] + f[2] + f[3]
  BY <1>1, <1>2, <1>3, SumOfThree
<1> QED
  BY <1>3, <1>4 DEF Count, f, S

LEMMA QuadCounts ==
  ASSUME NEW a \in TemplateLeg, NEW b \in TemplateLeg, NEW c \in TemplateLeg, NEW d \in TemplateLeg,
         NEW x, NEW y
  PROVE  Count(<< a, b, c, d >>, x, y) = Part(a, x, y) + Part(b, x, y) + Part(c, x, y) + Part(d, x, y)
<1> DEFINE S == DOMAIN << a, b, c, d >>
           f == [i \in S |-> Part(<< a, b, c, d >>[i], x, y)]
<1>1. 1 \in S /\ 2 \in S /\ 3 \in S /\ 4 \in S /\ S = {1, 2, 3, 4}
  OBVIOUS
<1>2. IsFiniteSet(S)
  <2>1. IsFiniteSet({1, 2, 3, 4})
    BY SmallSets
  <2> HIDE DEF S
  <2> QED
    BY <1>1, <2>1
<1>3. /\ f \in [S -> Int] /\ f[1] = Part(a, x, y) /\ f[2] = Part(b, x, y)
      /\ f[3] = Part(c, x, y) /\ f[4] = Part(d, x, y)
  BY <1>1, PartIs
<1> HIDE DEF f, S
<1>4. SumOf(f) = f[1] + f[2] + f[3] + f[4]
  BY <1>1, <1>2, <1>3, SumOfFour
<1> QED
  BY <1>3, <1>4 DEF Count, f, S

LEMMA PairCovers ==
  ASSUME NEW a \in TemplateLeg, NEW b \in TemplateLeg
  PROVE  /\ CallsCovered(<< a, b >>) <=> CallCover(a) + CallCover(b) >= 0
         /\ PutsCovered(<< a, b >>) <=> PutCover(a) + PutCover(b) >= 0
         /\ RiseCovered(<< a, b >>) <=> RiseCover(a) + RiseCover(b) >= 0
         /\ AllSoldNear(<< a, b >>) <=> SoldNear(a) /\ SoldNear(b)
<1> PICK legs : legs = << a, b >>
  OBVIOUS
<1>1. \A x, y : Count(legs, x, y) = Part(a, x, y) + Part(b, x, y)
  BY PairCounts
<1>2. \A x, y : Part(a, x, y) \in Int /\ Part(b, x, y) \in Int
  BY PartIs
<1>3. CallsCovered(legs) <=> CallCover(a) + CallCover(b) >= 0
  BY <1>1, <1>2 DEF CallsCovered, CallCover
<1>4. PutsCovered(legs) <=> PutCover(a) + PutCover(b) >= 0
  BY <1>1, <1>2 DEF PutsCovered, PutCover
<1>5. RiseCovered(legs) <=> RiseCover(a) + RiseCover(b) >= 0
  BY <1>1, <1>2 DEF RiseCovered, RiseCover, CallCover
<1>6. AllSoldNear(legs) <=> SoldNear(a) /\ SoldNear(b)
  BY DEF AllSoldNear
<1> QED
  BY <1>3, <1>4, <1>5, <1>6

LEMMA TripleCovers ==
  ASSUME NEW a \in TemplateLeg, NEW b \in TemplateLeg, NEW c \in TemplateLeg
  PROVE  /\ CallsCovered(<< a, b, c >>) <=> CallCover(a) + CallCover(b) + CallCover(c) >= 0
         /\ PutsCovered(<< a, b, c >>) <=> PutCover(a) + PutCover(b) + PutCover(c) >= 0
         /\ RiseCovered(<< a, b, c >>) <=> RiseCover(a) + RiseCover(b) + RiseCover(c) >= 0
         /\ AllSoldNear(<< a, b, c >>) <=> SoldNear(a) /\ SoldNear(b) /\ SoldNear(c)
<1> PICK legs : legs = << a, b, c >>
  OBVIOUS
<1>1. \A x, y : Count(legs, x, y) = Part(a, x, y) + Part(b, x, y) + Part(c, x, y)
  BY TripleCounts
<1>2. \A x, y : Part(a, x, y) \in Int /\ Part(b, x, y) \in Int /\ Part(c, x, y) \in Int
  BY PartIs
<1>3. CallsCovered(legs) <=> CallCover(a) + CallCover(b) + CallCover(c) >= 0
  BY <1>1, <1>2 DEF CallsCovered, CallCover
<1>4. PutsCovered(legs) <=> PutCover(a) + PutCover(b) + PutCover(c) >= 0
  BY <1>1, <1>2 DEF PutsCovered, PutCover
<1>5. RiseCovered(legs) <=> RiseCover(a) + RiseCover(b) + RiseCover(c) >= 0
  BY <1>1, <1>2 DEF RiseCovered, RiseCover, CallCover
<1>6. AllSoldNear(legs) <=> SoldNear(a) /\ SoldNear(b) /\ SoldNear(c)
  BY DEF AllSoldNear
<1> QED
  BY <1>3, <1>4, <1>5, <1>6

LEMMA QuadCovers ==
  ASSUME NEW a \in TemplateLeg, NEW b \in TemplateLeg, NEW c \in TemplateLeg, NEW d \in TemplateLeg
  PROVE  /\ CallsCovered(<< a, b, c, d >>)
              <=> CallCover(a) + CallCover(b) + CallCover(c) + CallCover(d) >= 0
         /\ PutsCovered(<< a, b, c, d >>)
              <=> PutCover(a) + PutCover(b) + PutCover(c) + PutCover(d) >= 0
         /\ RiseCovered(<< a, b, c, d >>)
              <=> RiseCover(a) + RiseCover(b) + RiseCover(c) + RiseCover(d) >= 0
         /\ AllSoldNear(<< a, b, c, d >>) <=> SoldNear(a) /\ SoldNear(b) /\ SoldNear(c) /\ SoldNear(d)
<1> PICK legs : legs = << a, b, c, d >>
  OBVIOUS
<1>1. \A x, y : Count(legs, x, y) = Part(a, x, y) + Part(b, x, y) + Part(c, x, y) + Part(d, x, y)
  BY QuadCounts
<1>2. \A x, y : /\ Part(a, x, y) \in Int /\ Part(b, x, y) \in Int
                /\ Part(c, x, y) \in Int /\ Part(d, x, y) \in Int
  BY PartIs
<1>3. CallsCovered(legs) <=> CallCover(a) + CallCover(b) + CallCover(c) + CallCover(d) >= 0
  BY <1>1, <1>2 DEF CallsCovered, CallCover
<1>4. PutsCovered(legs) <=> PutCover(a) + PutCover(b) + PutCover(c) + PutCover(d) >= 0
  BY <1>1, <1>2 DEF PutsCovered, PutCover
<1>5. RiseCovered(legs) <=> RiseCover(a) + RiseCover(b) + RiseCover(c) + RiseCover(d) >= 0
  BY <1>1, <1>2 DEF RiseCovered, RiseCover, CallCover
<1>6. AllSoldNear(legs) <=> SoldNear(a) /\ SoldNear(b) /\ SoldNear(c) /\ SoldNear(d)
  BY DEF AllSoldNear
<1> QED
  BY <1>3, <1>4, <1>5, <1>6

\* The cover of the legs the templates are made of.
Gives(leg, calls, puts, rise) ==
  /\ leg \in TemplateLeg /\ SoldNear(leg)
  /\ CallCover(leg) = calls /\ PutCover(leg) = puts /\ RiseCover(leg) = rise

LEMMA LegsGive ==
  ASSUME NEW rule \in StrikeRule
  PROVE  /\ Gives(Buy(C, rule), 1, 0, 1) /\ Gives(Sell(C, rule), -1, 0, -1)
         /\ Gives(Buy(P, rule), 0, 1, 0) /\ Gives(Sell(P, rule), 0, -1, 0)
         /\ Gives(Twice(Buy(C, rule)), 2, 0, 2) /\ Gives(Twice(Sell(C, rule)), -2, 0, -2)
         /\ Gives(Twice(Buy(P, rule)), 0, 2, 0) /\ Gives(Twice(Sell(P, rule)), 0, -2, 0)
         /\ Gives(Far(Buy(C, rule)), 1, 0, 1) /\ Gives(Far(Buy(P, rule)), 0, 1, 0)
         /\ Gives(BuyStock, 1, 0, 1) /\ Gives(SellStock, 0, 1, -1)
<1>1. ASSUME NEW leg \in TemplateLeg
      PROVE  /\ leg.instrument = C /\ leg.side = "buy" => 
                  CallCover(leg) = leg.ratio /\ PutCover(leg) = 0 /\ RiseCover(leg) = leg.ratio
             /\ leg.instrument = C /\ leg.side = "sell" => 
                  CallCover(leg) = -leg.ratio /\ PutCover(leg) = 0 /\ RiseCover(leg) = -leg.ratio
             /\ leg.instrument = P /\ leg.side = "buy" => 
                  CallCover(leg) = 0 /\ PutCover(leg) = leg.ratio /\ RiseCover(leg) = 0
             /\ leg.instrument = P /\ leg.side = "sell" => 
                  CallCover(leg) = 0 /\ PutCover(leg) = -leg.ratio /\ RiseCover(leg) = 0
             /\ leg.instrument = "stock" /\ leg.side = "buy" => 
                  CallCover(leg) = leg.ratio /\ PutCover(leg) = 0 /\ RiseCover(leg) = leg.ratio
             /\ leg.instrument = "stock" /\ leg.side = "sell" => 
                  CallCover(leg) = 0 /\ PutCover(leg) = leg.ratio /\ RiseCover(leg) = -leg.ratio
  <2>1. leg.ratio \in Int
    BY DEF TemplateLeg
  <2> QED
    BY <2>1 DEF CallCover, PutCover, RiseCover, Part, C, P
<1>2. ASSUME NEW right \in {C, P}
      PROVE  LET b == Buy(right, rule)
                 s == Sell(right, rule)
             IN  /\ b.instrument = right /\ b.side = "buy" /\ b.ratio = 1 /\ b.expiry = "near"
                 /\ s.instrument = right /\ s.side = "sell" /\ s.ratio = 1 /\ s.expiry = "near"
  BY DEF Buy, Sell, Leg
<1>3. /\ BuyStock.instrument = "stock" /\ BuyStock.side = "buy" /\ BuyStock.ratio = 1
      /\ SellStock.instrument = "stock" /\ SellStock.side = "sell" /\ SellStock.ratio = 1
      /\ BuyStock.expiry = "near" /\ SellStock.expiry = "near"
  BY DEF BuyStock, SellStock, Leg
<1>4. ASSUME NEW leg \in TemplateLeg
      PROVE  LET t == Twice(leg)
                 f == Far(leg)
             IN  /\ t.instrument = leg.instrument /\ t.side = leg.side
                 /\ t.ratio = 2 /\ t.expiry = leg.expiry
                 /\ f.instrument = leg.instrument /\ f.side = leg.side /\ f.ratio = leg.ratio
  BY DEF TemplateLeg, Twice, Far
<1>5. C \in {C, P} /\ P \in {C, P}
  OBVIOUS
<1>6. /\ Gives(Buy(C, rule), 1, 0, 1) /\ Gives(Sell(C, rule), -1, 0, -1)
      /\ Gives(Buy(P, rule), 0, 1, 0) /\ Gives(Sell(P, rule), 0, -1, 0)
  BY <1>1, <1>2, <1>5, LegIs DEF Gives, SoldNear
<1>7. ASSUME NEW right \in {C, P}
      PROVE  LET b == Twice(Buy(right, rule))
                 s == Twice(Sell(right, rule))
                 f == Far(Buy(right, rule))
             IN  /\ b.instrument = right /\ b.side = "buy" /\ b.ratio = 2 /\ b \in TemplateLeg
                 /\ s.instrument = right /\ s.side = "sell" /\ s.ratio = 2 /\ s.expiry = "near"
                 /\ s \in TemplateLeg
                 /\ f.instrument = right /\ f.side = "buy" /\ f.ratio = 1 /\ f \in TemplateLeg
  <2> PICK b \in TemplateLeg : b = Buy(right, rule)
    BY LegIs
  <2> PICK s \in TemplateLeg : s = Sell(right, rule)
    BY LegIs
  <2>1. Twice(b) \in TemplateLeg /\ Twice(s) \in TemplateLeg /\ Far(b) \in TemplateLeg
    BY LegIs
  <2>2. /\ b.instrument = right /\ b.side = "buy" /\ b.ratio = 1
        /\ s.instrument = right /\ s.side = "sell" /\ s.expiry = "near"
    BY <1>2
  <2>3. /\ Twice(b).instrument = right /\ Twice(b).side = "buy" /\ Twice(b).ratio = 2
        /\ Far(b).instrument = right /\ Far(b).side = "buy" /\ Far(b).ratio = 1
    BY <1>4, <2>2
  <2>4. /\ Twice(s).instrument = right /\ Twice(s).side = "sell" /\ Twice(s).ratio = 2
        /\ Twice(s).expiry = "near"
    BY <1>4, <2>2
  <2> QED
    BY <2>1, <2>3, <2>4
<1>8. /\ Gives(Twice(Buy(C, rule)), 2, 0, 2) /\ Gives(Twice(Sell(C, rule)), -2, 0, -2)
      /\ Gives(Twice(Buy(P, rule)), 0, 2, 0) /\ Gives(Twice(Sell(P, rule)), 0, -2, 0)
      /\ Gives(Far(Buy(C, rule)), 1, 0, 1) /\ Gives(Far(Buy(P, rule)), 0, 1, 0)
  BY <1>1, <1>5, <1>7 DEF Gives, SoldNear
<1>9. Gives(BuyStock, 1, 0, 1) /\ Gives(SellStock, 0, 1, -1)
  BY <1>1, <1>3, LegIs DEF Gives, SoldNear
<1> QED
  BY <1>6, <1>8, <1>9

\* What the flags of a template say of its legs.
Told(t) ==
  /\ t.alpaca_placeable <=> CallsCovered(t.legs) /\ PutsCovered(t.legs)
  /\ t.defined_risk => t.alpaca_placeable /\ RiseCovered(t.legs)
  /\ AllSoldNear(t.legs)

LEMMA FlagsTold ==
  ASSUME NEW id, NEW legs, AllSoldNear(legs)
  PROVE  /\ CallsCovered(legs) /\ PutsCovered(legs) /\ RiseCovered(legs) => Told(Safe(id, legs))
         /\ CallsCovered(legs) /\ PutsCovered(legs) => Told(Unlimited(id, legs))
         /\ ~(CallsCovered(legs) /\ PutsCovered(legs)) => Told(Naked(id, legs))
  BY DEF Told, Safe, Unlimited, Naked, StructureTemplate

LEMMA PairTold ==
  \A id, a, b :
    a \in TemplateLeg /\ SoldNear(a) /\ b \in TemplateLeg /\ SoldNear(b) =>
      LET calls == CallCover(a) + CallCover(b)
          puts == PutCover(a) + PutCover(b)
          rise == RiseCover(a) + RiseCover(b)
      IN  /\ calls >= 0 /\ puts >= 0 /\ rise >= 0 => Told(Safe(id, << a, b >>))
          /\ calls >= 0 /\ puts >= 0 => Told(Unlimited(id, << a, b >>))
          /\ ~(calls >= 0 /\ puts >= 0) => Told(Naked(id, << a, b >>))
  BY PairCovers, FlagsTold

LEMMA TripleTold ==
  \A id, a, b, c :
    a \in TemplateLeg /\ SoldNear(a) /\ b \in TemplateLeg /\ SoldNear(b)
    /\ c \in TemplateLeg /\ SoldNear(c) =>
      LET calls == CallCover(a) + CallCover(b) + CallCover(c)
          puts == PutCover(a) + PutCover(b) + PutCover(c)
          rise == RiseCover(a) + RiseCover(b) + RiseCover(c)
      IN  /\ calls >= 0 /\ puts >= 0 /\ rise >= 0 => Told(Safe(id, << a, b, c >>))
          /\ calls >= 0 /\ puts >= 0 => Told(Unlimited(id, << a, b, c >>))
          /\ ~(calls >= 0 /\ puts >= 0) => Told(Naked(id, << a, b, c >>))
  BY TripleCovers, FlagsTold

LEMMA QuadTold ==
  \A id, a, b, c, d :
    a \in TemplateLeg /\ SoldNear(a) /\ b \in TemplateLeg /\ SoldNear(b)
    /\ c \in TemplateLeg /\ SoldNear(c) /\ d \in TemplateLeg /\ SoldNear(d) =>
      LET calls == CallCover(a) + CallCover(b) + CallCover(c) + CallCover(d)
          puts == PutCover(a) + PutCover(b) + PutCover(c) + PutCover(d)
          rise == RiseCover(a) + RiseCover(b) + RiseCover(c) + RiseCover(d)
      IN  /\ calls >= 0 /\ puts >= 0 /\ rise >= 0 => Told(Safe(id, << a, b, c, d >>))
          /\ calls >= 0 /\ puts >= 0 => Told(Unlimited(id, << a, b, c, d >>))
          /\ ~(calls >= 0 /\ puts >= 0) => Told(Naked(id, << a, b, c, d >>))
  BY QuadCovers, FlagsTold

LEMMA TemplatesTold ==
  ASSUME NEW t \in TEMPLATES PROVE Told(t)
<1>1. ASSUME NEW u \in Covered PROVE Told(u)
  BY RulesUsed, LegsGive, PairTold, TripleTold, QuadTold DEF Covered, Gives
<1>2. ASSUME NEW u \in Verticals PROVE Told(u)
  BY RulesUsed, LegsGive, PairTold, TripleTold, QuadTold DEF Verticals, Gives
<1>3. ASSUME NEW u \in Synthetics PROVE Told(u)
  BY RulesUsed, LegsGive, PairTold, TripleTold, QuadTold DEF Synthetics, Gives
<1>4. ASSUME NEW u \in Ladders PROVE Told(u)
  BY RulesUsed, LegsGive, PairTold, TripleTold, QuadTold DEF Ladders, Gives
<1>5. ASSUME NEW u \in Calendars PROVE Told(u)
  BY RulesUsed, LegsGive, PairTold, TripleTold, QuadTold DEF Calendars, Gives
<1>6. ASSUME NEW u \in LongVolatility PROVE Told(u)
  BY RulesUsed, LegsGive, PairTold, TripleTold, QuadTold DEF LongVolatility, Gives
<1>7. ASSUME NEW u \in ShortVolatility PROVE Told(u)
  BY RulesUsed, LegsGive, PairTold, TripleTold, QuadTold DEF ShortVolatility, Gives
<1>8. ASSUME NEW u \in SyntheticStraddles PROVE Told(u)
  BY RulesUsed, LegsGive, PairTold, TripleTold, QuadTold DEF SyntheticStraddles, Gives
<1>9. ASSUME NEW u \in StrapsAndStrips PROVE Told(u)
  BY RulesUsed, LegsGive, PairTold, TripleTold, QuadTold DEF StrapsAndStrips, Gives
<1>10. ASSUME NEW u \in RatioSpreads PROVE Told(u)
  BY RulesUsed, LegsGive, PairTold, TripleTold, QuadTold DEF RatioSpreads, Gives
<1>11. ASSUME NEW u \in Butterflies PROVE Told(u)
  BY RulesUsed, LegsGive, PairTold, TripleTold, QuadTold DEF Butterflies, Gives
<1>12. ASSUME NEW u \in IronsAndCondors PROVE Told(u)
  BY RulesUsed, LegsGive, PairTold, TripleTold, QuadTold DEF IronsAndCondors, Gives
<1>13. ASSUME NEW u \in CollarAndSeagulls PROVE Told(u)
  BY RulesUsed, LegsGive, PairTold, TripleTold, QuadTold DEF CollarAndSeagulls, Gives
<1> QED
  BY <1>1, <1>2, <1>3, <1>4, <1>5, <1>6, <1>7, <1>8, <1>9, <1>10, <1>11, <1>12, <1>13 DEF TEMPLATES

----------------------------------------------------------------------------
(* What the legs that are resolved add up to                               *)

Whole == Len(resolved) = Len(template.legs)

LEMMA UnitsAre ==
  ASSUME NEW leg \in TemplateLeg, NEW r, Placed(leg, r)
  PROVE  Units(r) = leg.ratio
<1>1. leg.ratio \in {1, 2} /\ r.instrument = leg.instrument /\ r.ratio = Ratio(leg)
  BY DEF TemplateLeg, Placed
<1> QED
  BY <1>1 DEF Units, Ratio

LEMMA CountIs ==
  ASSUME NEW t \in TEMPLATES, NEW x, NEW y
  PROVE  /\ IsFiniteSet(DOMAIN t.legs)
         /\ [i \in DOMAIN t.legs |-> Part(t.legs[i], x, y)] \in [DOMAIN t.legs -> Int]
         /\ Count(t.legs, x, y) \in Nat
         /\ (\A i \in DOMAIN t.legs : t.legs[i].instrument = x => t.legs[i].side # y)
              => Count(t.legs, x, y) = 0
<1> DEFINE S == DOMAIN t.legs
           f == [i \in S |-> Part(t.legs[i], x, y)]
           z == [i \in S |-> 0]
<1>1. t.legs \in Seq(TemplateLeg)
  BY TemplatesAre
<1>2. S = 1 .. Len(t.legs) /\ Len(t.legs) \in Nat /\ \A i \in S : t.legs[i] \in TemplateLeg
  BY <1>1
<1>3. IsFiniteSet(S)
  BY <1>2, FS_Interval
<1>4. \A i \in S : Part(t.legs[i], x, y) \in Nat
  <2> SUFFICES ASSUME NEW i \in S PROVE Part(t.legs[i], x, y) \in Nat
      OBVIOUS
  <2> QED
    BY <1>2, PartIs
<1>5. f \in [S -> Int] /\ z \in [S -> Int] /\ \A i \in S : z[i] <= f[i]
  <2> HIDE DEF S
  <2> QED
    BY <1>4
<1>6. (\A i \in S : t.legs[i].instrument = x => t.legs[i].side # y) => f = z
  <2> SUFFICES ASSUME \A i \in S : t.legs[i].instrument = x => t.legs[i].side # y
               PROVE  f = z
      OBVIOUS
  <2>1. \A i \in S : Part(t.legs[i], x, y) = 0
    BY DEF Part
  <2> HIDE DEF S
  <2> QED
    BY <2>1
<1>7. SumOf(z) = 0
  BY <1>3, SumOfZeros
<1> HIDE DEF f, z, S
<1>8. SumOf(f) \in Int /\ SumOf(z) <= SumOf(f)
  BY <1>3, <1>5, SumType, SumMonotone
<1>9. Count(t.legs, x, y) = SumOf(f)
  BY DEF Count, f, S
<1> QED
  BY <1>3, <1>5, <1>6, <1>7, <1>8, <1>9 DEF f, S

LEMMA LegSumIs ==
  ASSUME RInv, Whole, NEW x, NEW y, NEW d,
         \A i \in Legs : resolved[i].instrument = x /\ resolved[i].side = y => resolved[i].dte >= d
  PROVE  LegSum(x, y, d) = Count(template.legs, x, y)
<1> DEFINE S == DOMAIN template.legs
           f == [i \in S |-> Part(template.legs[i], x, y)]
           which == {i \in Legs : /\ resolved[i].instrument = x /\ resolved[i].side = y
                                  /\ resolved[i].dte >= d}
           u == [i \in which |-> Units(resolved[i])]
<1>1. S = Legs
  <2>1. template.legs \in Seq(TemplateLeg)
    BY TemplatesAre DEF RInv
  <2> QED
    BY <2>1, TemplateLegs DEF Whole
<1>2. \A i \in S : /\ template.legs[i] \in TemplateLeg /\ Placed(template.legs[i], resolved[i])
                   /\ resolved[i].instrument = template.legs[i].instrument
                   /\ resolved[i].side = template.legs[i].side
                   /\ Units(resolved[i]) = template.legs[i].ratio
  BY <1>1, TemplateLegs, UnitsAre DEF Placed
<1>3. which \in SUBSET S /\ \A i \in S \ which : f[i] = 0
  BY <1>1, <1>2 DEF Part
<1>4. \A i \in which : f[i] = Units(resolved[i])
  BY <1>1, <1>2 DEF Part
<1>5. [i \in which |-> f[i]] = u
  BY <1>4
<1>6. IsFiniteSet(S) /\ f \in [S -> Int]
  BY CountIs DEF RInv
<1> HIDE DEF f, which, S
<1>7. SumOf(f) = SumOf([i \in which |-> f[i]])
  BY <1>3, <1>6, SumOnPart
<1>8. LegSum(x, y, d) = SumOf(u)
  BY TotalIsSum DEF LegSum, u, which
<1> QED
  BY <1>5, <1>7, <1>8 DEF Count, f, S

LEMMA ExpiriesRise ==
  ASSUME Known, contracts # {}
  PROVE  near_expiry \in Nat /\ far_expiry \in Nat /\ near_expiry <= far_expiry
<1>1. expiries \in SUBSET Nat /\ expiries # {}
  BY ContractsAre DEF expiries
<1>2. TargetDte \in Int /\ TargetDte + FarOffset \in Int /\ TargetDte <= TargetDte + FarOffset
  BY PercentAssumption
<1>3. Nearest(expiries, TargetDte) \in expiries /\ Nearest(expiries, TargetDte + FarOffset) \in expiries
  BY <1>1, <1>2, NearestIs
<1>4. Nearest(expiries, TargetDte) <= Nearest(expiries, TargetDte + FarOffset)
  BY <1>1, <1>2, NearestRises
<1> QED
  BY <1>1, <1>3, <1>4 DEF near_expiry, far_expiry, _pick_expiry

LEMMA WholeLegs ==
  ASSUME RInv, Whole
  PROVE  /\ DOMAIN template.legs = Legs /\ Told(template)
         /\ \A i \in Legs :
              LET leg == template.legs[i]
                  r == resolved[i]
              IN  /\ leg \in TemplateLeg /\ r \in ResolvedLeg /\ Placed(leg, r)
                  /\ r.instrument = leg.instrument /\ r.side = leg.side /\ Units(r) = leg.ratio
                  /\ r.instrument \in {"stock", C, P} /\ r.side \in {"buy", "sell"} /\ r.dte >= 0
<1>1. template.legs \in Seq(TemplateLeg)
  BY TemplatesAre DEF RInv
<1>2. DOMAIN template.legs = Legs
  BY <1>1, TemplateLegs DEF Whole
<1>3. Told(template)
  BY TemplatesTold DEF RInv
<1>4. \A r \in ResolvedLeg : r.instrument \in {"stock", C, P} /\ r.side \in {"buy", "sell"} /\ r.dte >= 0
  BY DEF ResolvedLeg
<1> QED
  BY <1>2, <1>3, <1>4, TemplateLegs, UnitsAre DEF Placed

\* What is sold expires first.
LEMMA SoldFirst ==
  ASSUME RInv, Whole, NEW i \in OptionLegs, resolved[i].side = "sell"
  PROVE  \A j \in OptionLegs : resolved[j].dte >= resolved[i].dte
<1>1. ASSUME NEW j \in OptionLegs
      PROVE  /\ resolved[j].dte = ExpiryOf(template.legs[j]) /\ contracts # {} /\ j \in Legs
             /\ template.legs[j].side = resolved[j].side
  BY WholeLegs DEF OptionLegs, Placed
<1>2. near_expiry \in Nat /\ far_expiry \in Nat /\ near_expiry <= far_expiry
  BY <1>1, ExpiriesRise DEF RInv
<1>3. template.legs[i].expiry = "near"
  BY <1>1, WholeLegs DEF Told, AllSoldNear, SoldNear
<1> QED
  BY <1>1, <1>2, <1>3 DEF ExpiryOf

LEMMA CoversIs ==
  ASSUME RInv, Whole
  PROVE  Covers <=> CallsCovered(template.legs) /\ PutsCovered(template.legs)
<1>1. \A y : LegSum("stock", y, 0) = Count(template.legs, "stock", y)
  BY LegSumIs, WholeLegs
<1>2. ASSUME NEW i \in OptionLegs, resolved[i].side = "sell", NEW y
      PROVE  LegSum(resolved[i].instrument, y, resolved[i].dte)
               = Count(template.legs, resolved[i].instrument, y)
  <2>1. \A j \in Legs : resolved[j].instrument = resolved[i].instrument => j \in OptionLegs
    BY DEF OptionLegs
  <2>2. \A j \in Legs : resolved[j].instrument = resolved[i].instrument /\ resolved[j].side = y
          => resolved[j].dte >= resolved[i].dte
    BY <1>2, <2>1, SoldFirst
  <2> QED
    BY <2>2, LegSumIs
<1> DEFINE Owed(right, y) ==
             Count(template.legs, right, "sell")
               <= Count(template.legs, right, "buy") + Count(template.legs, "stock", y)
<1>3. Covers <=> \A i \in OptionLegs : resolved[i].side = "sell" =>
                   Owed(resolved[i].instrument, IF resolved[i].instrument = C THEN "buy" ELSE "sell")
  BY <1>1, <1>2 DEF Covers
<1>4. ASSUME NEW right \in {C, P}, NEW y,
             \A i \in OptionLegs : ~(resolved[i].instrument = right /\ resolved[i].side = "sell")
      PROVE  Owed(right, y)
  <2>1. \A i \in DOMAIN template.legs :
          template.legs[i].instrument = right => template.legs[i].side # "sell"
    BY <1>4, WholeLegs DEF OptionLegs, C, P
  <2>2. Count(template.legs, right, "sell") = 0
    BY <2>1, CountIs DEF RInv
  <2>3. Count(template.legs, right, "buy") \in Nat /\ Count(template.legs, "stock", y) \in Nat
    BY CountIs DEF RInv
  <2> QED
    BY <2>2, <2>3
<1>5. \A i \in OptionLegs : resolved[i].instrument \in {C, P}
  BY WholeLegs DEF OptionLegs
<1>6. C # P
  BY DEF C, P
<1> HIDE DEF Owed
<1>7. Covers <=> Owed(C, "buy") /\ Owed(P, "sell")
  BY <1>3, <1>4, <1>5, <1>6
<1> QED
  BY <1>7 DEF Owed, CallsCovered, PutsCovered

LEMMA UpsideIs ==
  ASSUME RInv, Whole
  PROVE  UpsideCovered <=> RiseCovered(template.legs)
<1>1. \A x, y : LegSum(x, y, 0) = Count(template.legs, x, y)
  BY LegSumIs, WholeLegs
<1> QED
  BY <1>1 DEF UpsideCovered, RiseCovered

----------------------------------------------------------------------------
(* What a unit may lose                                                    *)

Earned(r, s) == Sign(r) * r.ratio * Exercise(r, s)
Earnings(s) == [i \in Legs |-> Earned(resolved[i], s)]
UnitsOf == [i \in Legs |-> Units(resolved[i])]

LEMMA EarningsAre ==
  ASSUME resolved \in Seq(ResolvedLeg), NEW s \in Int
  PROVE  /\ Earnings(s) \in [Legs -> Int] /\ UnitsOf \in [Legs -> Int]
         /\ SumOf(Earnings(s)) \in Int /\ SumOf(UnitsOf) \in Int
         /\ Net2 \in Int
         /\ Payoff(s) = 400 * Net2 + SumOf(Earnings(s))
<1> DEFINE n == [i \in Legs |-> Sign(resolved[i]) * Mid2(resolved[i]) * Units(resolved[i])]
<1>1. \A i \in Legs : /\ Earned(resolved[i], s) \in Int /\ Units(resolved[i]) \in Int
                      /\ Sign(resolved[i]) * Mid2(resolved[i]) * Units(resolved[i]) \in Int
  <2>1. ASSUME NEW r \in ResolvedLeg
        PROVE  /\ Earned(r, s) \in Int /\ Units(r) \in Int
               /\ Sign(r) * Mid2(r) * Units(r) \in Int
    <3>1. /\ Sign(r) \in {1, -1} /\ Mid2(r) \in Nat /\ Units(r) \in Nat /\ r.ratio \in Nat
          /\ Exercise(r, s) \in Int
      BY TermsAre
    <3> QED
      BY <3>1, ProductsAre DEF Earned
  <2> QED
    BY <2>1, LegsAre
<1>2. Earnings(s) \in [Legs -> Int] /\ UnitsOf \in [Legs -> Int] /\ n \in [Legs -> Int]
  BY <1>1 DEF Earnings, UnitsOf
<1> HIDE DEF n
<1>3. SumOf(Earnings(s)) \in Int /\ SumOf(UnitsOf) \in Int /\ Total(n) \in Int
  BY <1>2, LegsAre, SumType, TotalIs
<1>4. Net2 = -Total(n)
  BY DEF Net2, n
<1>5. Payoff(s) = 400 * Net2 + Total(Earnings(s))
  BY DEF Payoff, Earnings, Earned
<1> QED
  BY <1>2, <1>3, <1>4, <1>5, TotalIsSum

\* Where the risk is bounded every leg is an option, and counts for what it trades.
LEMMA BoundedLegs ==
  ASSUME RInv, Whole, Bounded
  PROVE  /\ OptionLegs = Legs
         /\ \A i \in Legs : resolved[i].instrument \in {C, P} /\ Units(resolved[i]) = resolved[i].ratio
         /\ Count(template.legs, "stock", "buy") = 0 /\ Count(template.legs, "stock", "sell") = 0
<1>1. \A i \in Legs : template.legs[i].instrument # "stock"
  BY WholeLegs DEF Bounded, has_stock_leg
<1>2. \A i \in Legs : resolved[i].instrument # "stock" /\ resolved[i].instrument \in {"stock", C, P}
  BY <1>1, WholeLegs
<1>3. OptionLegs = Legs
  BY <1>2 DEF OptionLegs
<1>4. \A i \in Legs : resolved[i].instrument \in {C, P} /\ Units(resolved[i]) = resolved[i].ratio
  BY <1>2 DEF Units
<1>5. Count(template.legs, "stock", "buy") = 0 /\ Count(template.legs, "stock", "sell") = 0
  <2>1. \A i \in DOMAIN template.legs : template.legs[i].instrument # "stock"
    BY <1>1, WholeLegs
  <2> QED
    BY <2>1, CountIs DEF RInv
<1> QED
  BY <1>3, <1>4, <1>5

LEMMA IntrinsicIs ==
  ASSUME RInv, Whole, Bounded, NEW s \in Int
  PROVE  400 * Net2 + intrinsic_value(s) = Payoff(s)
<1> DEFINE f == [i \in Legs |->
                   Sign(resolved[i]) * Units(resolved[i]) *
                     (IF i \in OptionLegs THEN Exercise(resolved[i], s) ELSE s)]
<1>1. \A i \in Legs : i \in OptionLegs /\ Units(resolved[i]) = resolved[i].ratio
  BY BoundedLegs
<1>2. f = Earnings(s)
  BY <1>1 DEF Earnings, Earned
<1>3. intrinsic_value(s) = Total(f)
  BY DEF intrinsic_value
<1>4. Payoff(s) = 400 * Net2 + Total(Earnings(s))
  BY DEF Payoff, Earnings, Earned
<1> QED
  BY <1>2, <1>3, <1>4

\* A leg earns no more over a move of the underlying than the move times what it trades.
LEMMA EarnedNear ==
  ASSUME NEW r \in ResolvedLeg, NEW s \in Int, NEW g \in Int, NEW d \in Nat, s - g <= d, g - s <= d
  PROVE  Earned(r, g) <= Earned(r, s) + d * r.ratio
<1> PICK n \in Nat : n = r.ratio
  BY TermsAre
<1> PICK x \in Int : x = Exercise(r, g)
  BY TermsAre
<1> PICK y \in Int : y = Exercise(r, s)
  BY TermsAre
<1>1. x <= y + d /\ y <= x + d
  <2>1. r.strike \in Nat
    BY DEF ResolvedLeg
  <2> QED
    BY <2>1 DEF Exercise, Positive
<1>2. n * x <= n * (y + d) /\ n * y <= n * (x + d)
  <2>1. \A a, b \in Int : a <= b => a * n <= b * n
    BY Scaled
  <2>2. y + d \in Int /\ x + d \in Int
    OBVIOUS
  <2>3. x * n <= (y + d) * n /\ y * n <= (x + d) * n
    BY <1>1, <2>1, <2>2
  <2> QED
    BY <2>2, <2>3
<1> PICK a \in Int : a = n * x
  OBVIOUS
<1> PICK b \in Int : b = n * y
  OBVIOUS
<1> PICK e \in Int : e = d * n
  OBVIOUS
<1>3. n * (y + d) = b + e /\ n * (x + d) = a + e
  OBVIOUS
<1>4. a <= b + e /\ b <= a + e
  BY <1>2, <1>3
<1>5. Sign(r) \in {1, -1}
  BY TermsAre
<1>6. CASE Sign(r) = 1
  <2>1. Earned(r, g) = a /\ Earned(r, s) = b
    BY <1>6 DEF Earned
  <2> QED
    BY <1>4, <2>1
<1>7. CASE Sign(r) = -1
  <2>1. Earned(r, g) = -a /\ Earned(r, s) = -b
    BY <1>7 DEF Earned
  <2> QED
    BY <1>4, <2>1
<1> QED
  BY <1>5, <1>6, <1>7

LEMMA PayoffNear ==
  ASSUME RInv, Whole, Bounded, NEW s \in Int, NEW g \in Int, NEW d \in Nat, s - g <= d, g - s <= d
  PROVE  Payoff(s) >= Payoff(g) - d * SumOf(UnitsOf)
<1> DEFINE u == [i \in Legs |-> d * UnitsOf[i]]
           h == [i \in Legs |-> Earnings(s)[i] + u[i]]
<1>1. resolved \in Seq(ResolvedLeg)
  BY DEF RInv
<1>2. /\ Earnings(s) \in [Legs -> Int] /\ Earnings(g) \in [Legs -> Int] /\ UnitsOf \in [Legs -> Int]
      /\ IsFiniteSet(Legs)
  BY <1>1, EarningsAre, LegsAre
<1>3. u \in [Legs -> Int] /\ h \in [Legs -> Int] /\ \A i \in Legs : h[i] = Earnings(s)[i] + u[i]
  BY <1>2
<1>4. \A i \in Legs : Earnings(g)[i] <= h[i]
  <2> SUFFICES ASSUME NEW i \in Legs PROVE Earnings(g)[i] <= h[i]
      OBVIOUS
  <2>1. resolved[i] \in ResolvedLeg /\ Units(resolved[i]) = resolved[i].ratio
    BY <1>1, LegsAre, BoundedLegs
  <2>2. Earned(resolved[i], g) <= Earned(resolved[i], s) + d * resolved[i].ratio
    BY <2>1, EarnedNear
  <2> QED
    BY <2>1, <2>2 DEF Earnings, UnitsOf
<1>5. SumOf(u) = d * SumOf(UnitsOf)
  BY <1>2, SumScaled
<1> HIDE DEF h
<1>6. SumOf(h) = SumOf(Earnings(s)) + SumOf(u)
  <2> HIDE DEF u
  <2> QED
    BY <1>2, <1>3, SumAdded
<1>7. SumOf(Earnings(g)) <= SumOf(h)
  BY <1>2, <1>3, <1>4, SumMonotone
<1> HIDE DEF u
<1>8. /\ SumOf(Earnings(g)) \in Int /\ SumOf(Earnings(s)) \in Int /\ SumOf(u) \in Int /\ Net2 \in Int
      /\ Payoff(s) = 400 * Net2 + SumOf(Earnings(s)) /\ Payoff(g) = 400 * Net2 + SumOf(Earnings(g))
  BY <1>1, <1>2, <1>3, EarningsAre, SumType
<1> QED
  BY <1>5, <1>6, <1>7, <1>8

\* What the bought options of a right trade less what the sold ones do.
NetTraded(right) ==
  [i \in Legs |-> IF resolved[i].instrument = right THEN Sign(resolved[i]) * resolved[i].ratio ELSE 0]

LEMMA NetIs ==
  ASSUME RInv, Whole, Bounded, NEW right \in {C, P}
  PROVE  /\ NetTraded(right) \in [Legs -> Int]
         /\ SumOf(NetTraded(right))
              = Count(template.legs, right, "buy") - Count(template.legs, right, "sell")
<1> DEFINE B == [i \in DOMAIN template.legs |-> Part(template.legs[i], right, "buy")]
           S == [i \in DOMAIN template.legs |-> Part(template.legs[i], right, "sell")]
<1>1. /\ B \in [Legs -> Int] /\ S \in [Legs -> Int] /\ IsFiniteSet(Legs)
      /\ Count(template.legs, right, "buy") = SumOf(B) /\ Count(template.legs, right, "sell") = SumOf(S)
  <2>1. template \in TEMPLATES
    BY DEF RInv
  <2>2. B \in [DOMAIN template.legs -> Int] /\ S \in [DOMAIN template.legs -> Int]
    BY <2>1, CountIs
  <2>3. DOMAIN template.legs = Legs /\ IsFiniteSet(Legs)
    BY WholeLegs, TemplateLegs
  <2> QED
    BY <2>2, <2>3 DEF Count
<1>2. \A i \in Legs : /\ NetTraded(right)[i] \in Int
                      /\ B[i] = NetTraded(right)[i] + S[i]
  <2> SUFFICES ASSUME NEW i \in Legs
               PROVE  /\ NetTraded(right)[i] \in Int
                      /\ Part(template.legs[i], right, "buy")
                           = NetTraded(right)[i] + Part(template.legs[i], right, "sell")
      BY WholeLegs
  <2>1. /\ template.legs[i].instrument = resolved[i].instrument
        /\ template.legs[i].side = resolved[i].side /\ resolved[i].side \in {"buy", "sell"}
        /\ template.legs[i].ratio = resolved[i].ratio
    BY WholeLegs, BoundedLegs
  <2>2. resolved[i].ratio \in Nat
    BY WholeLegs, TermsAre
  <2> QED
    BY <2>1, <2>2 DEF NetTraded, Part, Sign
<1>3. NetTraded(right) \in [Legs -> Int]
  BY <1>2 DEF NetTraded
<1> HIDE DEF B, S
<1>4. SumOf(B) = SumOf(NetTraded(right)) + SumOf(S)
  BY <1>1, <1>2, <1>3, SumAdded
<1>5. SumOf(B) \in Int /\ SumOf(S) \in Int /\ SumOf(NetTraded(right)) \in Int
  BY <1>1, <1>3, SumType
<1> QED
  BY <1>1, <1>3, <1>4, <1>5

\* Where only the options of one right move, and they rise, a unit that has bought as many as
\* it has sold earns no less.
LEMMA PayoffBeyond ==
  ASSUME RInv, Whole, Bounded, NEW right \in {C, P}, NEW s \in Int, NEW g \in Int, NEW w \in Nat,
         \A i \in Legs : Exercise(resolved[i], s)
           = Exercise(resolved[i], g) + (IF resolved[i].instrument = right THEN w ELSE 0),
         Count(template.legs, right, "sell") <= Count(template.legs, right, "buy")
  PROVE  Payoff(s) >= Payoff(g)
<1> PICK net : net = NetTraded(right)
  OBVIOUS
<1> DEFINE u == [i \in Legs |-> w * net[i]]
<1>1. resolved \in Seq(ResolvedLeg) /\ IsFiniteSet(Legs)
  BY LegsAre DEF RInv
<1>2. Earnings(s) \in [Legs -> Int] /\ Earnings(g) \in [Legs -> Int] /\ net \in [Legs -> Int]
  BY <1>1, EarningsAre, NetIs
<1>3. u \in [Legs -> Int]
  BY <1>2
<1>4. ASSUME NEW i \in Legs PROVE Earnings(s)[i] = Earnings(g)[i] + u[i]
  <2> PICK n \in Nat : n = resolved[i].ratio
    BY <1>1, LegsAre, TermsAre
  <2> PICK x \in Int : x = Exercise(resolved[i], g)
    BY <1>1, LegsAre, TermsAre
  <2> PICK a \in {1, -1} : a = Sign(resolved[i])
    BY DEF Sign
  <2>1. Earnings(s)[i] = a * n * Exercise(resolved[i], s) /\ Earnings(g)[i] = a * n * x
    BY DEF Earnings, Earned
  <2>2. CASE resolved[i].instrument = right
    <3>1. u[i] = w * (a * n) /\ Exercise(resolved[i], s) = x + w
      BY <2>2 DEF NetTraded
    <3>2. a * n * (x + w) = a * n * x + w * (a * n)
      OBVIOUS
    <3> QED
      BY <2>1, <3>1, <3>2
  <2>3. CASE resolved[i].instrument # right
    <3>1. net[i] = 0
      BY <2>3 DEF NetTraded
    <3>2. u[i] = 0 /\ Exercise(resolved[i], s) = x
      BY <2>3, <3>1
    <3>3. a * n * x \in Int
      OBVIOUS
    <3> QED
      BY <2>1, <3>2, <3>3
  <2> QED
    BY <2>2, <2>3
<1>5. SumOf(u) = w * SumOf(net)
  BY <1>1, <1>2, SumScaled
<1> HIDE DEF u
<1>6. SumOf(Earnings(s)) = SumOf(Earnings(g)) + SumOf(u)
  <2> PICK before : before = Earnings(g)
    OBVIOUS
  <2> PICK after : after = Earnings(s)
    OBVIOUS
  <2>1. \A i \in Legs : after[i] = before[i] + u[i]
    BY <1>4
  <2>2. before \in [Legs -> Int] /\ after \in [Legs -> Int]
    BY <1>2
  <2>3. IsFiniteSet(Legs) /\ u \in [Legs -> Int]
    BY <1>1, <1>3
  <2>4. SumOf(after) = SumOf(before) + SumOf(u)
    BY <2>1, <2>2, <2>3, SumAdded
  <2> QED
    BY <2>4
<1>7. SumOf(net) \in Nat
  <2>1. Count(template.legs, right, "buy") \in Nat /\ Count(template.legs, right, "sell") \in Nat
    BY CountIs DEF RInv
  <2> QED
    BY <2>1, NetIs
<1>8. SumOf(u) \in Nat
  BY <1>5, <1>7
<1>9. /\ SumOf(Earnings(g)) \in Int /\ SumOf(Earnings(s)) \in Int /\ Net2 \in Int
      /\ Payoff(s) = 400 * Net2 + SumOf(Earnings(s)) /\ Payoff(g) = 400 * Net2 + SumOf(Earnings(g))
  <2>1. \A x \in Int : /\ SumOf(Earnings(x)) \in Int /\ Net2 \in Int
                       /\ Payoff(x) = 400 * Net2 + SumOf(Earnings(x))
    BY <1>1, EarningsAre
  <2> QED
    BY <2>1
<1> QED
  BY <1>6, <1>8, <1>9

GridPoint(i) == 400 * Min(Strikes) + GridStep * i

LEMMA OnTheGrid ==
  ASSUME NEW i \in Nat, i <= 400
  PROVE  GridPoint(i) \in Grid
<1> PICK steps \in Nat : steps = GridSteps
  BY DEF GridSteps
<1>1. i \in 0 .. steps
  BY DEF GridSteps
<1> QED
  BY <1>1 DEF Grid, GridPoint

\* The multiple of b below a.
Below(a, b, q) == b * q <= a /\ a < b * q + b

LEMMA Remainders ==
  ASSUME NEW a \in Nat, NEW b \in Nat, b > 0
  PROVE  \E q \in Nat : Below(a, b, q)
<1>1. a \div b \in Nat /\ b * (a \div b) <= a /\ a < b * (a \div b) + b
  OBVIOUS
<1> QED
  BY <1>1 DEF Below

\* A point of the grid from low, in steps, that is at s or below, and nearer than a step.
PointAt(low, step, s, i, g) == i <= 400 /\ g = 400 * low + step * i /\ g <= s /\ s - g <= step

Spans(low, high, step, s) ==
  low <= high /\ step = 3 * high - low /\ 400 * low <= s /\ s <= 1200 * high

LEMMA PointBelow ==
  ASSUME NEW low \in Nat, NEW high \in Nat, NEW step \in Nat, NEW s \in Nat, Spans(low, high, step, s)
  PROVE  \E i \in Nat : \E g \in Nat : PointAt(low, step, s, i, g)
<1> USE DEF Spans
<1>1. CASE step = 0
  <2>1. high = 0 /\ low = 0
    BY <1>1
  <2>2. s = 0 /\ 400 * low + step * 0 = 0
    BY <1>1, <2>1
  <2>3. PointAt(low, step, s, 0, 0)
    BY <1>1, <2>2 DEF PointAt
  <2> QED
    BY <2>3
<1>2. CASE step > 0
  <2> PICK room \in Nat : room = s - 400 * low
    OBVIOUS
  <2> PICK i \in Nat : Below(room, step, i)
    BY <1>2, Remainders
  <2> PICK part \in Nat : part = step * i
    OBVIOUS
  <2>3. part <= room /\ room < part + step
    BY DEF Below
  <2>1. room <= 400 * step
    OBVIOUS
  <2>2. i <= 400
    <3> SUFFICES ASSUME i >= 401 PROVE FALSE
        OBVIOUS
    <3>1. 401 * step <= i * step
      BY Scaled
    <3>2. i * step = part
      OBVIOUS
    <3> QED
      BY <1>2, <2>1, <2>3, <3>1, <3>2
  <2> PICK g \in Nat : g = 400 * low + part
    OBVIOUS
  <2>4. g <= s /\ s - g <= step
    BY <2>3
  <2>5. PointAt(low, step, s, i, g)
    BY <2>2, <2>4 DEF PointAt
  <2> QED
    BY <2>5
<1> QED
  BY <1>1, <1>2

\* Between the ends of the grid a point of it is no further than a step.
LEMMA NearTheGrid ==
  ASSUME RInv, Bounded, NEW s \in Nat, 400 * Min(Strikes) <= s, s <= 1200 * Max(Strikes)
  PROVE  GridStep \in Nat /\ \E g \in Grid : g \in Int /\ s - g <= GridStep /\ g - s <= GridStep
<1> PICK low \in Nat : low = Min(Strikes)
  BY StrikesAre DEF RInv
<1> PICK high \in Nat : high = Max(Strikes)
  BY StrikesAre DEF RInv
<1>1. low <= high
  BY StrikesAre DEF RInv
<1> PICK step \in Nat : step = 3 * high - low
  BY <1>1
<1>2. GridStep = step
  BY DEF GridStep
<1>3. Spans(low, high, step, s)
  BY <1>1 DEF Spans
<1> PICK i \in Nat : \E g \in Nat : PointAt(low, step, s, i, g)
  BY <1>3, PointBelow, Zenon
<1> PICK g \in Nat : PointAt(low, step, s, i, g)
  OBVIOUS
<1>4. i <= 400 /\ g = 400 * low + step * i /\ g <= s /\ s - g <= step
  BY DEF PointAt
<1>5. GridPoint(i) \in Grid
  BY <1>4, OnTheGrid
<1>6. GridPoint(i) = 400 * low + i * step
  BY <1>2 DEF GridPoint
<1>7. GridPoint(i) = g
  <2>1. step * i = i * step
    OBVIOUS
  <2> QED
    BY <1>4, <1>6, <2>1
<1>8. s - g <= step /\ g - s <= step
  BY <1>4
<1>9. g \in Grid /\ g \in Int
  BY <1>5, <1>7
<1> QED
  BY <1>2, <1>8, <1>9

\* The price the strikes do not reach: below them the puts that are sold are covered by bought
\* ones, above them the calls are.
LEMMA BeyondTheGrid ==
  ASSUME RInv, Whole, Bounded, NEW s \in Nat, s < 400 * Min(Strikes) \/ s > 1200 * Max(Strikes)
  PROVE  \E g \in Grid : Payoff(s) >= Payoff(g)
<1> PICK low \in Nat : low = Min(Strikes)
  BY StrikesAre DEF RInv
<1> PICK high \in Nat : high = Max(Strikes)
  BY StrikesAre DEF RInv
<1> PICK step \in Int : step = GridStep
  BY StrikesAre DEF RInv
<1>1. \A i \in Legs : /\ resolved[i].instrument \in {C, P} /\ resolved[i].strike \in Nat
                      /\ low <= resolved[i].strike /\ resolved[i].strike <= high
  <2>1. resolved \in Seq(ResolvedLeg)
    BY DEF RInv
  <2>2. \A x \in Strikes : low <= x /\ x <= high
    BY <2>1, StrikesAre
  <2>3. \A i \in Legs : resolved[i].strike \in Strikes /\ resolved[i].instrument \in {C, P}
    BY BoundedLegs DEF Strikes
  <2>4. \A i \in Legs : resolved[i].strike \in Nat
    <3>1. Strikes \subseteq Nat
      BY <2>1, StrikesAre
    <3> QED
      BY <2>3, <3>1
  <2>5. \A i \in Legs : low <= resolved[i].strike /\ resolved[i].strike <= high
    BY <2>2, <2>3, Zenon
  <2> QED
    BY <2>3, <2>4, <2>5
<1>2. template.defined_risk
  BY DEF Bounded
<1>3. /\ Count(template.legs, C, "sell") <= Count(template.legs, C, "buy")
      /\ Count(template.legs, P, "sell") <= Count(template.legs, P, "buy")
  <2>1. CallsCovered(template.legs) /\ PutsCovered(template.legs)
    BY <1>2, WholeLegs DEF Told
  <2>2. Count(template.legs, "stock", "buy") = 0 /\ Count(template.legs, "stock", "sell") = 0
    BY BoundedLegs
  <2>3. /\ Count(template.legs, C, "buy") \in Nat /\ Count(template.legs, P, "buy") \in Nat
    BY CountIs DEF RInv
  <2> QED
    BY <2>1, <2>2, <2>3 DEF CallsCovered, PutsCovered
<1>4. C # P
  BY DEF C, P
<1>5. CASE s < 400 * low
  <2> PICK g \in Nat : g = 400 * low
    OBVIOUS
  <2>1. GridPoint(0) = g
    BY DEF GridPoint
  <2>2. g \in Grid
    BY <2>1, OnTheGrid
  <2> PICK w \in Nat : w = g - s
    BY <1>5
  <2>3. \A i \in Legs : Exercise(resolved[i], s)
          = Exercise(resolved[i], g) + (IF resolved[i].instrument = P THEN w ELSE 0)
    BY <1>1, <1>4, <1>5 DEF Exercise, Positive
  <2>4. Payoff(s) >= Payoff(g)
    BY <1>3, <2>3, PayoffBeyond
  <2> QED
    BY <2>2, <2>4
<1>6. CASE s > 1200 * high
  <2> PICK g \in Nat : g = 1200 * high
    OBVIOUS
  <2>1. GridPoint(400) = g
    <3>1. step = 3 * high - low
      BY DEF GridStep
    <3> QED
      BY <3>1 DEF GridPoint
  <2>2. g \in Grid
    BY <2>1, OnTheGrid
  <2> PICK w \in Nat : w = s - g
    BY <1>6
  <2>3. \A i \in Legs : Exercise(resolved[i], s)
          = Exercise(resolved[i], g) + (IF resolved[i].instrument = C THEN w ELSE 0)
    BY <1>1, <1>4, <1>6 DEF Exercise, Positive
  <2>4. Payoff(s) >= Payoff(g)
    BY <1>3, <2>3, PayoffBeyond
  <2> QED
    BY <2>2, <2>4
<1> QED
  BY <1>5, <1>6

\* A unit that is opened at mid loses no more than max_loss and a step of the grid, whatever
\* the underlying's price, to one and a half times the highest strike and beyond.
LEMMA LossIsBounded ==
  ASSUME RInv, Whole, Bounded, NEW s \in Nat
  PROVE  Payoff(s) >= -_payoff_bounds.loss - SumOf(UnitsOf) * GridStep
<1>1. resolved \in Seq(ResolvedLeg)
  BY DEF RInv
<1> PICK loss \in Int : loss = _payoff_bounds.loss
  BY <1>1, BoundsAre
<1>2. \A g \in Grid : Payoff(g) \in Int /\ Payoff(g) >= -loss
  BY <1>1, BoundsAre
<1>3. Payoff(s) \in Int
  BY <1>1, PayoffIs
<1> PICK units \in Nat : units = SumOf(UnitsOf)
  <2> DEFINE z == [i \in Legs |-> 0]
  <2>1. UnitsOf \in [Legs -> Int] /\ SumOf(UnitsOf) \in Int /\ IsFiniteSet(Legs)
    BY <1>1, EarningsAre, LegsAre
  <2>2. SumOf(z) = 0
    BY <2>1, SumOfZeros
  <2>3. \A i \in Legs : Units(resolved[i]) \in Nat
    BY <1>1, LegsAre, TermsAre
  <2>4. z \in [Legs -> Int] /\ \A i \in Legs : z[i] <= UnitsOf[i]
    BY <2>3 DEF UnitsOf
  <2> HIDE DEF z
  <2>5. SumOf(z) <= SumOf(UnitsOf)
    BY <2>1, <2>4, SumMonotone
  <2> QED
    BY <2>1, <2>2, <2>5
<1>4. GridStep \in Nat
  <2>1. Min(Strikes) \in Nat /\ Max(Strikes) \in Nat /\ Min(Strikes) <= Max(Strikes)
    BY <1>1, StrikesAre
  <2> QED
    BY <2>1 DEF GridStep
<1> PICK step \in Nat : step = GridStep
  BY <1>4
<1> PICK slack \in Nat : slack = step * units
  OBVIOUS
<1>5. units * step = slack
  OBVIOUS
<1>6. CASE s < 400 * Min(Strikes) \/ s > 1200 * Max(Strikes)
  <2>1. PICK g \in Grid : Payoff(s) >= Payoff(g)
    BY <1>6, BeyondTheGrid
  <2>2. Payoff(g) \in Int /\ Payoff(g) >= -loss
    BY <1>2
  <2> QED
    BY <1>3, <1>5, <2>1, <2>2
<1>7. CASE 400 * Min(Strikes) <= s /\ s <= 1200 * Max(Strikes)
  <2>1. PICK g \in Grid : g \in Int /\ s - g <= step /\ g - s <= step
    BY <1>7, NearTheGrid
  <2>2. Payoff(s) >= Payoff(g) - step * units
    BY <2>1, PayoffNear
  <2>3. Payoff(g) \in Int /\ Payoff(g) >= -loss
    BY <1>2
  <2> QED
    BY <1>3, <1>5, <2>2, <2>3
<1>8. Min(Strikes) \in Nat /\ Max(Strikes) \in Nat
  BY <1>1, StrikesAre
<1> QED
  BY <1>6, <1>7, <1>8

\* The flags of a template are what its resolved legs are, and the loss a unit is sized by
\* (max_loss) is the most it can lose, to a step of the grid: for all templates, on any chain.
THEOREM RisksAreDeclared == Spec => []RiskAsDeclared
<1>1. RInv => RiskAsDeclared
  <2> SUFFICES ASSUME RInv, stage = "resolved" PROVE RiskAsDeclared
      BY DEF RiskAsDeclared
  <2>1. Whole /\ bounds = _payoff_bounds
    BY DEF RInv, Whole
  <2>2. Told(template)
    BY <2>1, WholeLegs
  <2>3. template.alpaca_placeable <=> Covers
    BY <2>1, <2>2, CoversIs DEF Told
  <2>4. template.defined_risk => UpsideCovered
    BY <2>1, <2>2, UpsideIs DEF Told
  <2>5. ASSUME Bounded, NEW s \in {800 * k : k \in Strikes} \cup {800}
        PROVE  400 * Net2 + intrinsic_value(s)
                 >= -bounds.loss - Total([i \in Legs |-> Units(resolved[i])]) * GridStep
    <3>1. s \in Nat
      <4>1. Strikes \subseteq Nat
        BY <2>5, StrikesAre DEF RInv
      <4> QED
        BY <4>1
    <3>2. 400 * Net2 + intrinsic_value(s) = Payoff(s)
      BY <2>1, <2>5, <3>1, IntrinsicIs
    <3>3. Total([i \in Legs |-> Units(resolved[i])]) = SumOf(UnitsOf)
      BY TotalIsSum DEF UnitsOf
    <3>4. Payoff(s) >= -_payoff_bounds.loss - SumOf(UnitsOf) * GridStep
      BY <2>1, <2>5, <3>1, LossIsBounded
    <3> QED
      BY <2>1, <3>2, <3>3, <3>4
  <2> QED
    BY <2>3, <2>4, <2>5 DEF RiskAsDeclared
<1> QED
  BY <1>1, ResolverInvariant, PTL
=============================================================================
