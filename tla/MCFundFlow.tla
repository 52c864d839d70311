----------------------------- MODULE MCFundFlow -----------------------------
(* Instances of FundFlow for TLC: ledgers, policies and endpoint labels. *)
EXTENDS FundFlow, TLC

CONSTANTS w0, w1, w2, w3    \* wallets, w0 the seed wallet

Move(s, d, n, time) == [source |-> s, destination |-> d, amount |-> n, at |-> time]

\* Every history of three transfers, sent by w0 or w1 to any of three wallets,
\* before (0), with (1) or after (2) the seed, the first one with it by w0.
Moves == {Move(s, d, n, time) : s \in {w0, w1}, d \in {w0, w1, w2}, n \in {1, 2}, time \in 0 .. 2}
SmallLedgers == {l \in [1 .. 3 -> Moves] : l[1].source = w0 /\ l[1].at = SeedTime}

\* Five transfers in the shapes that merge, return and mix: a diamond that
\* comes back to the seed wallet, a walk that revisits w0 and w1, and an inflow
\* from outside before two disputed ones.
Diamond == <<<<w0, w1>>, <<w0, w2>>, <<w1, w3>>, <<w2, w3>>, <<w3, w0>>>>
Revisit == <<<<w0, w1>>, <<w1, w0>>, <<w0, w2>>, <<w2, w1>>, <<w1, w3>>>>
Mixing  == <<<<w3, w1>>, <<w0, w1>>, <<w0, w1>>, <<w1, w2>>, <<w1, w3>>>>
Times == {<<1, 1, 1, 1, 1>>, <<1, 2, 2, 3, 3>>, <<2, 1, 3, 2, 3>>, <<0, 1, 2, 2, 3>>}
Shape(edges, amounts, times) ==
  [t \in 1 .. 5 |-> Move(edges[t][1], edges[t][2], amounts[t], times[t])]
ShapedLedgers ==
  {Shape(edges, amounts, times) :
     edges \in {Diamond, Revisit, Mixing}, amounts \in [1 .. 5 -> {1, 3}], times \in Times}

Far == 9    \* no bound: past every time, count and depth of these instances
Policy(hops, wallets_, edges, least, end, delta) ==
  [max_hops |-> hops, max_nodes |-> wallets_, max_edges |-> edges,
   floor |-> least, end_time |-> end, max_delta |-> delta]

Unlimited == {Policy(Far, Far, Far, 0, Far, Far)}
Limits == {Policy(h, n, e, f, end, delta) :
             h \in {2, Far}, n \in {2, Far}, e \in {3, Far}, f \in {0, 2},
             end \in {0, 2, Far}, delta \in {1, Far}}
TightEdges == {Policy(Far, Far, 1, 0, Far, Far)}

NoEndpoints == [x \in Address |-> "NONE"]
OneVasp == [NoEndpoints EXCEPT ![w2] = "VERIFIED_VASP"]
=============================================================================
