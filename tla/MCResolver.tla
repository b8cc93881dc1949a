----------------------------- MODULE MCResolver -----------------------------
(***************************************************************************)
(* Resolver over chains with strikes as dense as the steps, denser,        *)
(* coarser and with gaps, the spot on, between and below strikes, one or   *)
(* two expiries, far options nearly worthless or without a bid.            *)
(***************************************************************************)
EXTENDS Resolver

\* Fair value in cents: the exercise value and a time value that fades.
Fair(s, right, k, dte) ==
  Positive(IF right = C THEN s - k ELSE k - s)
    + Positive(150 + 5 * dte - Abs(s - k) \div 4)

Quote(fair, half) ==
  [bid |-> IF fair > half THEN fair - half ELSE 0, ask |-> fair + half]

Contract(s, right, k, dte, half) ==
  LET q == Quote(Fair(s, right, k, dte), half)
  IN  [dte |-> dte, right |-> right, strike |-> k, bid |-> q.bid, ask |-> q.ask]

Chain(s, calls, puts, dtes, half) ==
  [spot |-> s,
   contracts |-> {Contract(s, C, k, d, half) : k \in calls, d \in dtes}
                 \cup {Contract(s, P, k, d, half) : k \in puts, d \in dtes}]

Strikes1(gap) == {k \in 9400 .. 10600 : k % gap = 0}

Dense1 == Strikes1(100)
Denser == Strikes1(50)
Coarse == Strikes1(300)
Gaps == Dense1 \ {10000, 10200, 10300, 9800}

Spaced == [spot : {9960, 10050}, calls : {Dense1, Gaps}, puts : {Dense1, Coarse},
           dtes : {{30}, {30, 60}}, half : {2, 30}]

Odd == {[spot |-> 10000, calls |-> Denser, puts |-> Denser, dtes |-> {24, 34, 64}, half |-> 2],
        [spot |-> 10000, calls |-> {}, puts |-> Dense1, dtes |-> {30, 60}, half |-> 2],
        [spot |-> 9050, calls |-> Denser, puts |-> Dense1, dtes |-> {30, 60}, half |-> 2]}

SomeChains ==
  [p \in Spaced \cup Odd |-> Chain(p.spot, p.calls, p.puts, p.dtes, p.half)]
=============================================================================
