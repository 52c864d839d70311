---------------------------- MODULE MCConclusions ----------------------------
(* Instances of Conclusions: evidence with a deposit wallet that sweeps to a    *)
(* labelled collector, seen by several runs and cases.                          *)
EXTENDS Conclusions

CONSTANTS r1, r2, r3, k1, k2, acme, zeta, pool, wallet, deposit, collector, other

T(tx, source, destination, amount) == [tx |-> tx, source |-> source, destination |-> destination, amount |-> amount]
Of(c, transfers) == [case |-> c, root |-> wallet, seed |-> 6, transfers |-> transfers]

MCEntityType == [e \in {acme, zeta, pool} |-> IF e = pool THEN "MIXER" ELSE "VASP"]

Asserted(address, entity, type, role, state) ==
  [address |-> address, entity |-> entity, type |-> type, role |-> role, state |-> state, stale |-> Never,
   source |-> "DATASET", signals |-> {}, mark |-> << >>]
Collector == Asserted(collector, acme, "VERIFIED", "VASP_COLLECTOR", "REVIEWED")
Second(l) == [l EXCEPT !.source = "OTHER"]
Expires(l, at) == [l EXCEPT !.stale = at]
Signalled(l) == [l EXCEPT !.source = "RULE_ENGINE", !.signals = {"direct_verified_collector", "outflow_concentration"}]

\* The wallet pays through the deposit wallet to the collector, and the collector itself.
Sweep == <<T(1, wallet, deposit, 3), T(2, deposit, collector, 3), T(3, wallet, collector, 2)>>
Direct == <<T(3, wallet, collector, 2)>>
Longer == Direct \o <<T(4, wallet, other, 1)>>
Sweeps == <<T(1, wallet, deposit, 2), T(2, deposit, collector, 2), T(3, wallet, deposit, 2), T(4, deposit, collector, 2)>>
Split == <<T(1, wallet, deposit, 4), T(2, deposit, collector, 2), T(3, deposit, other, 2)>>
Chain == <<T(1, wallet, other, 4), T(2, other, deposit, 4), T(3, deposit, collector, 4)>>
\* Half of the deposit wallet's money goes to the collector, over three receivers.
Half == <<T(1, wallet, deposit, 6), T(2, deposit, collector, 3), T(3, deposit, other, 3)>>

Real == [c \in {k1, k2} |-> "RECORDED_REAL"]
Synthetic == [c \in {k1, k2} |-> IF c = k1 THEN "SYNTHETIC" ELSE "LIVE"]
One(x) == [r \in {r1} |-> x]
Two(x, y) == [r \in {r1, r2} |-> IF r = r1 THEN x ELSE y]
Three(x, y, z) == [r \in {r1, r2, r3} |-> IF r = r1 THEN x ELSE IF r = r2 THEN y ELSE z]
S(mode, evidence, assertions, changes) ==
  [mode |-> mode, evidence |-> evidence, assertions |-> assertions, posted |-> {}, changes |-> changes]
Posting(scene_, labels) == [scene_ EXCEPT !.posted = labels]
Unreviewed(l) == [l EXCEPT !.state = "UNREVIEWED"]

MCScenes == {
  S(Real, Two(Of(k1, Sweep), Of(k1, Sweep)), <<Collector>>, 1),
  S(Real, Three(Of(k1, Direct), Of(k1, Longer), Of(k2, Longer)), <<Collector>>, 0),
  S(Real, One(Of(k1, Chain)), <<Collector>>, 2),
  Posting(S(Real, Two(Of(k1, Sweep), Of(k2, Direct)), <<Unreviewed(Second(Collector))>>, 1), {Collector}),
  Posting(S(Real, One(Of(k1, Chain)), <<Collector>>, 2),
          {Second(Collector), Asserted(other, zeta, "VERIFIED", "VASP_HOT_WALLET", "UNREVIEWED")}),
  S(Synthetic, Two(Of(k1, Sweeps), Of(k2, Chain)), <<Collector, Asserted(other, pool, "VERIFIED", "OTHER", "REVIEWED")>>, 1),
  S(Real, One(Of(k1, Half)), <<Collector, Second(Collector), Asserted(other, zeta, "RULE_INFERRED", "VASP_DEPOSIT", "REVIEWED")>>, 2),
  S(Real, Two(Of(k1, Split), Of(k2, Direct)),
    <<Asserted(collector, zeta, "VERIFIED", "OTHER", "REVIEWED"), Collector,
      Signalled(Asserted(other, zeta, "RULE_INFERRED", "VASP_DEPOSIT", "UNREVIEWED"))>>, 1),
  S(Real, Two(Of(k1, Chain), Of(k1, Sweep)),
    <<Expires(Collector, 5), Signalled(Asserted(deposit, zeta, "RULE_INFERRED", "VASP_DEPOSIT", "REVIEWED"))>>, 1) }
=============================================================================
