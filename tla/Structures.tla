----------------------------- MODULE Structures -----------------------------
(***************************************************************************)
(* options/structures.py: the 57 option structures as leg templates.  What *)
(* no code reads (names, notes, direction, volatility bias) is left out.   *)
(***************************************************************************)
EXTENDS Naturals, Sequences

C == "call"
P == "put"

\* Strike rules; the leg of a SAME is counted from 1.
ATM == [kind |-> "atm", n |-> 0]
OTM(n) == [kind |-> "otm", n |-> n]
ITM(n) == [kind |-> "itm", n |-> n]
SAME(i) == [kind |-> "same", n |-> i]

Leg(instrument, side, strike) ==
  [instrument |-> instrument, side |-> side, ratio |-> 1, strike |-> strike, expiry |-> "near"]

Buy(right, strike) == Leg(right, "buy", strike)
Sell(right, strike) == Leg(right, "sell", strike)
Twice(leg) == [leg EXCEPT !.ratio = 2]
Far(leg) == [leg EXCEPT !.expiry = "far"]
BuyStock == Leg("stock", "buy", ATM)
SellStock == Leg("stock", "sell", ATM)

StructureTemplate(id, legs, defined_risk, alpaca_placeable) ==
  [id |-> id, legs |-> legs, defined_risk |-> defined_risk,
   alpaca_placeable |-> alpaca_placeable]

Safe(id, legs) == StructureTemplate(id, legs, TRUE, TRUE)
Naked(id, legs) == StructureTemplate(id, legs, FALSE, FALSE)
Unlimited(id, legs) == StructureTemplate(id, legs, FALSE, TRUE)

Covered == {
  Safe("covered_call", << BuyStock, Sell(C, OTM(2)) >>),
  Unlimited("covered_put", << SellStock, Sell(P, OTM(2)) >>),
  Safe("protective_put", << BuyStock, Buy(P, OTM(2)) >>),
  Safe("protective_call", << SellStock, Buy(C, OTM(2)) >>)}

Verticals == {
  Safe("bull_call_spread", << Buy(C, ATM), Sell(C, OTM(2)) >>),
  Safe("bull_put_spread", << Sell(P, OTM(2)), Buy(P, OTM(4)) >>),
  Safe("bear_call_spread", << Sell(C, OTM(2)), Buy(C, OTM(4)) >>),
  Safe("bear_put_spread", << Buy(P, ATM), Sell(P, OTM(2)) >>)}

Synthetics == {
  Naked("long_synthetic_forward", << Buy(C, ATM), Sell(P, SAME(1)) >>),
  Naked("short_synthetic_forward", << Buy(P, ATM), Sell(C, SAME(1)) >>),
  Naked("long_combo", << Buy(C, OTM(2)), Sell(P, OTM(2)) >>),
  Naked("short_combo", << Buy(P, OTM(2)), Sell(C, OTM(2)) >>)}

Ladders == {
  Naked("bull_call_ladder", << Buy(C, ATM), Sell(C, OTM(2)), Sell(C, OTM(4)) >>),
  Safe("bull_put_ladder", << Sell(P, ATM), Buy(P, OTM(2)), Buy(P, OTM(4)) >>),
  Safe("bear_call_ladder", << Sell(C, ATM), Buy(C, OTM(2)), Buy(C, OTM(4)) >>),
  Naked("bear_put_ladder", << Buy(P, ATM), Sell(P, OTM(2)), Sell(P, OTM(4)) >>)}

Calendars == {
  Safe("calendar_call_spread", << Sell(C, ATM), Far(Buy(C, SAME(1))) >>),
  Safe("calendar_put_spread", << Sell(P, ATM), Far(Buy(P, SAME(1))) >>),
  Safe("diagonal_call_spread", << Sell(C, OTM(2)), Far(Buy(C, ITM(2))) >>),
  Safe("diagonal_put_spread", << Sell(P, OTM(2)), Far(Buy(P, ITM(2))) >>)}

LongVolatility == {
  Safe("long_straddle", << Buy(C, ATM), Buy(P, SAME(1)) >>),
  Safe("long_strangle", << Buy(C, OTM(2)), Buy(P, OTM(2)) >>),
  Safe("long_guts", << Buy(C, ITM(2)), Buy(P, ITM(2)) >>)}

ShortVolatility == {
  Naked("short_straddle", << Sell(C, ATM), Sell(P, SAME(1)) >>),
  Naked("short_strangle", << Sell(C, OTM(2)), Sell(P, OTM(2)) >>),
  Naked("short_guts", << Sell(C, ITM(2)), Sell(P, ITM(2)) >>)}

SyntheticStraddles == {
  Safe("long_call_synthetic_straddle", << SellStock, Twice(Buy(C, ATM)) >>),
  Safe("long_put_synthetic_straddle", << BuyStock, Twice(Buy(P, ATM)) >>),
  Naked("short_call_synthetic_straddle", << BuyStock, Twice(Sell(C, ATM)) >>),
  Naked("short_put_synthetic_straddle", << SellStock, Twice(Sell(P, ATM)) >>),
  Naked("covered_short_straddle", << BuyStock, Sell(C, ATM), Sell(P, SAME(2)) >>),
  Naked("covered_short_strangle", << BuyStock, Sell(C, OTM(2)), Sell(P, OTM(2)) >>)}

StrapsAndStrips == {
  Safe("strap", << Twice(Buy(C, ATM)), Buy(P, SAME(1)) >>),
  Safe("strip", << Buy(C, ATM), Twice(Buy(P, SAME(1))) >>)}

RatioSpreads == {
  Safe("call_ratio_backspread", << Sell(C, ATM), Twice(Buy(C, OTM(2))) >>),
  Safe("put_ratio_backspread", << Sell(P, ATM), Twice(Buy(P, OTM(2))) >>),
  Naked("ratio_call_spread", << Buy(C, ATM), Twice(Sell(C, OTM(2))) >>),
  Naked("ratio_put_spread", << Buy(P, ATM), Twice(Sell(P, OTM(2))) >>)}

Butterflies == {
  Safe("long_call_butterfly", << Buy(C, ITM(2)), Twice(Sell(C, ATM)), Buy(C, OTM(2)) >>),
  Safe("modified_call_butterfly", << Buy(C, ITM(2)), Twice(Sell(C, ATM)), Buy(C, OTM(1)) >>),
  Safe("long_put_butterfly", << Buy(P, ITM(2)), Twice(Sell(P, ATM)), Buy(P, OTM(2)) >>),
  Safe("modified_put_butterfly", << Buy(P, ITM(2)), Twice(Sell(P, ATM)), Buy(P, OTM(1)) >>),
  Safe("short_call_butterfly", << Sell(C, ITM(2)), Twice(Buy(C, ATM)), Sell(C, OTM(2)) >>),
  Safe("short_put_butterfly", << Sell(P, ITM(2)), Twice(Buy(P, ATM)), Sell(P, OTM(2)) >>)}

IronsAndCondors == {
  Safe("long_iron_butterfly", << Buy(P, OTM(2)), Sell(P, ATM), Sell(C, SAME(2)), Buy(C, OTM(2)) >>),
  Safe("short_iron_butterfly",
       << Sell(P, OTM(2)), Buy(P, ATM), Buy(C, SAME(2)), Sell(C, OTM(2)) >>),
  Safe("long_call_condor", << Buy(C, ITM(4)), Sell(C, ITM(2)), Sell(C, OTM(2)), Buy(C, OTM(4)) >>),
  Safe("long_put_condor", << Buy(P, ITM(4)), Sell(P, ITM(2)), Sell(P, OTM(2)), Buy(P, OTM(4)) >>),
  Safe("short_call_condor", << Sell(C, ITM(4)), Buy(C, ITM(2)), Buy(C, OTM(2)), Sell(C, OTM(4)) >>),
  Safe("short_put_condor", << Sell(P, ITM(4)), Buy(P, ITM(2)), Buy(P, OTM(2)), Sell(P, OTM(4)) >>),
  Safe("long_iron_condor", << Buy(P, OTM(4)), Sell(P, OTM(2)), Sell(C, OTM(2)), Buy(C, OTM(4)) >>),
  Safe("short_iron_condor", << Sell(P, OTM(4)), Buy(P, OTM(2)), Buy(C, OTM(2)), Sell(C, OTM(4)) >>)}

CollarAndSeagulls == {
  Safe("collar", << BuyStock, Buy(P, OTM(2)), Sell(C, OTM(2)) >>),
  Naked("bullish_short_seagull", << Sell(P, OTM(2)), Buy(C, ATM), Sell(C, OTM(2)) >>),
  Safe("bearish_long_seagull", << Buy(P, OTM(2)), Sell(C, ATM), Buy(C, OTM(2)) >>),
  Naked("bearish_short_seagull", << Sell(C, OTM(2)), Buy(P, ATM), Sell(P, OTM(2)) >>),
  Safe("bullish_long_seagull", << Buy(C, OTM(2)), Sell(P, ATM), Buy(P, OTM(2)) >>)}

TEMPLATES ==
  Covered \cup Verticals \cup Synthetics \cup Ladders \cup Calendars \cup LongVolatility
  \cup ShortVolatility \cup SyntheticStraddles \cup StrapsAndStrips \cup RatioSpreads
  \cup Butterflies \cup IronsAndCondors \cup CollarAndSeagulls

has_stock_leg(template) ==
  \E i \in DOMAIN template.legs : template.legs[i].instrument = "stock"
=============================================================================
