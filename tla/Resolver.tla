------------------------------ MODULE Resolver ------------------------------
(***************************************************************************)
(* options/resolver.py over the chain of options/chain.py, and the pure    *)
(* rules of options/lifecycle.py: a template becomes contracts, one leg at *)
(* a time, then it is sized, and filled against the quotes.                *)
(*                                                                         *)
(* Prices are in cents.  A mid is kept doubled, a payoff 800 times, a fill *)
(* value 400 times, so that they are whole numbers.                        *)
(***************************************************************************)
EXTENDS Structures, Integers, SequencesExt

CONSTANTS
  Chains,          \* function to snapshots: the spot and the contracts
  TargetDte, FarOffset,
  StepPct,         \* strike_step_pct
  Capitals,        \* in cents
  RiskFractions, MaxRisks, SpreadFractions  \* in percent

ASSUME PercentAssumption ==
  /\ TargetDte \in Nat /\ FarOffset \in Nat /\ StepPct \in Nat /\ Capitals \subseteq Nat
  /\ RiskFractions \cup MaxRisks \cup SpreadFractions \subseteq 0 .. 100

\* A quote that is missing is 0.  A contract is known by its OCC symbol, and the
\* symbols chain.py parses have one root for an underlying (those of an adjusted
\* contract end in a digit): no grid has a strike twice.
ASSUME ChainsAssumption ==
  \A ch \in DOMAIN Chains :
    /\ Chains[ch].spot \in Nat /\ IsFiniteSet(Chains[ch].contracts)
    /\ Chains[ch].contracts \subseteq
         [dte : Nat, right : {C, P}, strike : Nat, bid : Nat, ask : Nat]
    /\ \A c, d \in Chains[ch].contracts :
         c.dte = d.dte /\ c.right = d.right /\ c.strike = d.strike => c = d

VARIABLES
  template, chain,
  stage,     \* legs, failed, resolved, sized
  resolved,  \* the legs so far
  bounds,    \* max_profit and max_loss, 0 for None
  limits,    \* capital, risk_fraction, max_risk_pct
  qty        \* 0 for None
vars == << template, chain, stage, resolved, bounds, limits, qty >>

spot == Chains[chain].spot
contracts == Chains[chain].contracts

Unknown == [profit |-> 0, loss |-> 0]
NoLimits == [capital |-> 0, risk |-> 0, most |-> 0]
Abs(x) == IF x < 0 THEN -x ELSE x
Positive(x) == IF x > 0 THEN x ELSE 0
Sign(leg) == IF leg.side = "buy" THEN 1 ELSE -1
Total(f) == FoldFunction(LAMBDA x, y : x + y, 0, f)

Mid2(c) == IF c.bid > 0 /\ c.ask > 0 THEN c.bid + c.ask ELSE 2 * (IF c.bid > 0 THEN c.bid ELSE c.ask)
Units(leg) == IF leg.instrument = "stock" THEN leg.ratio \div 100 ELSE leg.ratio

Init ==
  /\ template \in TEMPLATES /\ chain \in DOMAIN Chains
  /\ stage = "legs" /\ resolved = << >> /\ bounds = Unknown /\ limits = NoLimits /\ qty = 0

----------------------------------------------------------------------------
(* Expiry and strikes                                                      *)

expiries == {c.dte : c \in contracts}

\* Of two as near, the first in order.
Nearest(S, x) ==
  CHOOSE a \in S : \A b \in S : Abs(a - x) < Abs(b - x) \/ (Abs(a - x) = Abs(b - x) /\ a <= b)

_pick_expiry(target_dte) == Nearest(expiries, target_dte)
near_expiry == _pick_expiry(TargetDte)
far_expiry == _pick_expiry(TargetDte + FarOffset)

ExpiryOf(leg) == IF leg.expiry = "far" THEN far_expiry ELSE near_expiry

\* A mid of 5 cents; a spread of a quarter of the mid, or 10 cents.
_liquid(c) ==
  /\ c.bid > 0 /\ c.ask > 0 /\ Mid2(c) >= 10
  /\ 8 * (c.ask - c.bid) <= Mid2(c) \/ c.ask - c.bid <= 10

Liquid(expiry, right) ==
  {c \in contracts : c.dte = expiry /\ c.right = right /\ _liquid(c)}

_strike_grid(expiry, right) == {c.strike : c \in Liquid(expiry, right)}

_nearest(grid, strike) == Nearest(grid, strike)
Atm(grid) == _nearest(grid, spot)

\* Out of the money is above the spot for calls, below for puts.
Direction(leg) == IF (leg.strike.kind = "otm") = (leg.instrument = C) THEN 1 ELSE -1

Target(leg) == spot + (Direction(leg) * leg.strike.n * StepPct * spot) \div 100

\* Where a target that has collapsed onto the money goes: to the next strike outward.
Outward(leg, grid) == {k \in grid : Direction(leg) * (k - Atm(grid)) > 0}

Collapsed(leg, grid) == leg.strike.n # 0 /\ _nearest(grid, Target(leg)) = Atm(grid)

NoStrike(leg, grid) ==
  grid # {} => /\ leg.strike.kind \in {"otm", "itm"} /\ Collapsed(leg, grid)
               /\ Outward(leg, grid) = {}

\* Mutant: a collapsed leg stays at the money.
_resolve_strike_Collapsed(leg, grid) ==
  CASE leg.strike.kind = "same" -> _nearest(grid, resolved[leg.strike.n].strike)
    [] leg.strike.kind = "atm" -> Atm(grid)
    [] OTHER -> _nearest(grid, Target(leg))

_resolve_strike(leg, grid) ==
  CASE leg.strike.kind = "same" -> _nearest(grid, resolved[leg.strike.n].strike)
    [] leg.strike.kind = "atm" -> Atm(grid)
    [] OTHER -> IF Collapsed(leg, grid) THEN Nearest(Outward(leg, grid), spot)
                                        ELSE _nearest(grid, Target(leg))

NextLeg == template.legs[Len(resolved) + 1]
MoreLegs == stage = "legs" /\ Len(resolved) < Len(template.legs)

NoFarExpiry ==
  (\E i \in DOMAIN template.legs : template.legs[i].expiry = "far") /\ far_expiry = near_expiry

\* Mutant: a leg is always traded once.
Ratio_One(leg) == IF leg.instrument = "stock" THEN 100 ELSE 1

Ratio(leg) == IF leg.instrument = "stock" THEN 100 * leg.ratio ELSE leg.ratio

ResolveStock ==
  /\ MoreLegs /\ expiries # {} /\ ~NoFarExpiry /\ NextLeg.instrument = "stock"
  /\ resolved' = Append(resolved,
       [instrument |-> "stock", side |-> NextLeg.side, ratio |-> Ratio(NextLeg), strike |-> 0,
        dte |-> 0, bid |-> spot, ask |-> spot])
  /\ UNCHANGED << template, chain, stage, bounds, limits, qty >>

ResolveLeg ==
  /\ MoreLegs /\ expiries # {} /\ ~NoFarExpiry /\ NextLeg.instrument # "stock"
  /\ LET leg == NextLeg
         grid == _strike_grid(ExpiryOf(leg), leg.instrument)
     IN  /\ ~NoStrike(leg, grid)
         /\ \E c \in Liquid(ExpiryOf(leg), leg.instrument) :
              /\ c.strike = _resolve_strike(leg, grid)
              /\ resolved' = Append(resolved,
                   [instrument |-> leg.instrument, side |-> leg.side, ratio |-> Ratio(leg),
                    strike |-> c.strike, dte |-> c.dte, bid |-> c.bid, ask |-> c.ask])
  /\ UNCHANGED << template, chain, stage, bounds, limits, qty >>

ResolutionError ==
  /\ MoreLegs
  /\ \/ expiries = {} \/ NoFarExpiry
     \/ /\ NextLeg.instrument # "stock"
        /\ NoStrike(NextLeg, _strike_grid(ExpiryOf(NextLeg), NextLeg.instrument))
  /\ stage' = "failed"
  /\ UNCHANGED << template, chain, resolved, bounds, limits, qty >>

----------------------------------------------------------------------------
(* Payoff and size                                                         *)

Legs == DOMAIN resolved
OptionLegs == {i \in Legs : resolved[i].instrument # "stock"}
Strikes == {resolved[i].strike : i \in OptionLegs}

\* Twice the net cash of one unit at mid: a credit is positive.
Net2 == -Total([i \in Legs |-> Sign(resolved[i]) * Mid2(resolved[i]) * Units(resolved[i])])

\* 800 times what exercising an option earns, with the underlying at s / 800.
Exercise(leg, s) ==
  Positive(IF leg.instrument = C THEN s - 800 * leg.strike ELSE 800 * leg.strike - s)

\* 800 times what one unit is worth at expiry.
Payoff(s) ==
  400 * Net2
    + Total([i \in Legs |-> Sign(resolved[i]) * resolved[i].ratio * Exercise(resolved[i], s)])

Bounded ==
  /\ ~has_stock_leg(template) /\ template.defined_risk
  /\ Cardinality({resolved[i].dte : i \in OptionLegs}) = 1

\* The points from half the lowest strike to one and a half times the highest, and
\* what is between two of them.
GridSteps == 400
GridStep == 3 * Max(Strikes) - Min(Strikes)
Grid == {400 * Min(Strikes) + GridStep * i : i \in 0 .. GridSteps}

_payoff_bounds ==
  LET payoffs == {Payoff(s) : s \in Grid}
  IN  IF Bounded THEN [profit |-> Max(payoffs), loss |-> -Min(payoffs)] ELSE Unknown

Resolve ==
  /\ stage = "legs" /\ Len(resolved) = Len(template.legs)
  /\ stage' = "resolved" /\ bounds' = _payoff_bounds
  /\ UNCHANGED << template, chain, resolved, limits, qty >>

\* In eighths of a cent.
unit_risk ==
  LET net_options ==
        Total([i \in OptionLegs |-> Sign(resolved[i]) * Mid2(resolved[i]) * resolved[i].ratio])
  IN  IF bounds.loss # 0 THEN bounds.loss
      ELSE IF net_options # 0 THEN 400 * Abs(net_options) ELSE 80000

stock_cost ==
  Total([i \in Legs |->
    IF resolved[i].instrument = "stock" /\ resolved[i].side = "buy"
    THEN 4 * Mid2(resolved[i]) * resolved[i].ratio ELSE 0])

AtLeastOne(x) == IF x > 1 THEN x ELSE 1

\* Mutant: the cap is a second fraction, applied to what is already sized.
Capped_Fraction(n, outlay, risk, capital, most) ==
  IF 100 * risk * n > 8 * capital * most THEN AtLeastOne((n * most) \div 50) ELSE n

Capped(n, outlay, risk, capital, most) ==
  IF 100 * risk * n > 8 * capital * most
  THEN AtLeastOne((8 * capital * most) \div (100 * outlay)) ELSE n

size_structure(capital, risk_fraction, max_risk_pct) ==
  LET risk == unit_risk
      outlay == risk + stock_cost
      first == AtLeastOne((8 * capital * risk_fraction) \div (100 * outlay))
      n == Capped(first, outlay, risk, capital, max_risk_pct)
  IN  IF outlay <= 0 THEN 1 ELSE IF 100 * outlay * n > 840 * capital THEN 0 ELSE n

Size ==
  /\ stage = "resolved"
  /\ \E capital \in Capitals, risk \in RiskFractions, most \in MaxRisks :
       /\ limits' = [capital |-> capital, risk |-> risk, most |-> most]
       /\ qty' = size_structure(capital, risk, most)
  /\ stage' = "sized"
  /\ UNCHANGED << template, chain, resolved, bounds >>

Next == ResolveStock \/ ResolveLeg \/ ResolutionError \/ Resolve \/ Size

Spec == Init /\ [][Next]_vars

----------------------------------------------------------------------------
(* Fills                                                                   *)

\* Mutant: a close takes the side of the opening.
Side_AsOpened(leg, closing) == Sign(leg)

\* The side of a leg's order: 1 for a buy.
Side(leg, closing) == IF closing THEN -Sign(leg) ELSE Sign(leg)

\* 400 times the price of a leg, q its quote: the mid, and pct of the half-spread
\* against the order.  A close with no bid pays the ask, or gets nothing.
FillPrice(leg, q, pct, closing) ==
  IF leg.instrument = "stock" THEN 400 * q.ask + (8 * pct * q.ask * Side(leg, closing)) \div 10000
  ELSE IF q.bid > 0
  THEN 200 * Mid2(q) + 2 * pct * (q.ask - q.bid) * Side(leg, closing)
  ELSE IF Side(leg, closing) = 1 THEN 400 * q.ask ELSE 0

\* Quotes is a function of the leg.
structure_value(quotes) ==
  Total([i \in Legs |-> Sign(resolved[i]) * (200 * Mid2(quotes[i])) * Units(resolved[i])])

fill_value(quotes, pct, closing) ==
  Total([i \in Legs |->
    Sign(resolved[i]) * FillPrice(resolved[i], quotes[i], pct, closing) * Units(resolved[i])])

\* 800 times the value of one unit if every option were worth its exercise value,
\* with the underlying at s / 800.
intrinsic_value(s) ==
  Total([i \in Legs |->
    Sign(resolved[i]) * Units(resolved[i]) *
      (IF i \in OptionLegs THEN Exercise(resolved[i], s) ELSE s)])

----------------------------------------------------------------------------
(* Properties                                                              *)

LegSum(instrument, side, days) ==
  LET which == {i \in Legs : /\ resolved[i].instrument = instrument /\ resolved[i].side = side
                             /\ resolved[i].dte >= days}
  IN  Total([i \in which |-> Units(resolved[i])])

\* Every short call has a long call as late or a share, every short put a long
\* put as late or a share sold.
Covers ==
  \A i \in OptionLegs :
    LET leg == resolved[i] IN
    leg.side = "sell" =>
      LegSum(leg.instrument, "sell", leg.dte)
        <= LegSum(leg.instrument, "buy", leg.dte)
           + LegSum("stock", IF leg.instrument = C THEN "buy" ELSE "sell", 0)

\* What no rise of the underlying can cost without bound.
UpsideCovered ==
  LegSum(C, "sell", 0) + LegSum("stock", "sell", 0)
    <= LegSum(C, "buy", 0) + LegSum("stock", "buy", 0)

\* The legs are what the template says of them: a naked short leg exactly where
\* alpaca_placeable is false, no unbounded loss where the risk is defined, and then
\* a unit opened at mid and closed at its exercise value, at any price, loses no more
\* than max_loss, to a step of the grid.
RiskAsDeclared ==
  stage = "resolved" =>
    /\ template.alpaca_placeable <=> Covers
    /\ template.defined_risk => UpsideCovered
    /\ Bounded =>
         \A s \in {800 * k : k \in Strikes} \cup {800} :
           400 * Net2 + intrinsic_value(s)
             >= -bounds.loss - Total([i \in Legs |-> Units(resolved[i])]) * GridStep

\* A strike rule is kept on any grid: a leg out of the money is beyond the strike
\* at the money on its side, one further out is not nearer, and on a grid as dense
\* as the steps, from the money to what the rule aims at, two rules never meet in one
\* contract.
Dense(grid) ==
  \A k \in grid : k = Max(grid) \/ \E m \in grid : k < m /\ 100 * (m - k) <= StepPct * spot

Covering(grid, leg) ==
  /\ \E k \in grid : Direction(leg) * (k - Target(leg)) >= 0
  /\ \E k \in grid : Direction(leg) * (k - spot) <= 0

StrikesOrdered ==
  stage = "resolved" =>
    \A i, j \in Legs :
      LET a == template.legs[i]
          b == template.legs[j]
          grid == _strike_grid(resolved[i].dte, resolved[i].instrument)
          Out(x, y) == Direction(a) * (resolved[y].strike - resolved[x].strike)
      IN  a.instrument # "stock" /\ a.strike.kind \in {"otm", "itm"} =>
            /\ Direction(a) * (resolved[i].strike - Atm(grid)) > 0
            /\ /\ i # j /\ a.instrument = b.instrument /\ a.expiry = b.expiry
               /\ b.strike.kind = a.strike.kind /\ b.strike.n > a.strike.n
               => /\ Out(i, j) >= 0
                  /\ Dense(grid) /\ Covering(grid, b) => Out(i, j) > 0

\* A slot that trades more than one unit risks no more of its capital than the cap,
\* and whatever it trades it can pay for, to 5%.
SizedWithinMeans ==
  stage = "sized" /\ qty > 0 =>
    /\ unit_risk + stock_cost > 0 => 100 * (unit_risk + stock_cost) * qty <= 840 * limits.capital
    /\ qty > 1 => 100 * unit_risk * qty <= 8 * limits.capital * limits.most

\* An opening is never better than mid, nor a close, with bids or without: what is
\* opened and closed at the same quotes never earns.
FillsCost ==
  stage = "resolved" =>
    LET seen == [i \in Legs |-> [bid |-> resolved[i].bid, ask |-> resolved[i].ask]]
    IN  \A pct \in SpreadFractions, unbid \in SUBSET Legs :
          LET later == [i \in Legs |->
                          IF i \in unbid THEN [seen[i] EXCEPT !.bid = 0] ELSE seen[i]]
          IN  /\ fill_value(seen, pct, FALSE) >= structure_value(seen)
              /\ fill_value(later, pct, TRUE) <= structure_value(later)
=============================================================================
