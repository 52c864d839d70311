---------------------------- MODULE MCLegacyTrace ----------------------------
(* Instances of LegacyTrace.  Histories longer than a page, two traces on one   *)
(* client, a graph with a cycle, a merge and a transaction that pays one        *)
(* address twice.                                                               *)
EXTENDS LegacyTrace

CONSTANTS c1, c2, suspect, mule, blender, exchange

R(tx, source, destination, amount) ==
  [tx |-> tx, source |-> source, destination |-> destination, amount |-> amount, token |-> TRUE]
Other(tx, source, destination) == [R(tx, source, destination, 1) EXCEPT !.token = FALSE]

Ask1(limit, hops, wallets, disputed) ==
  [case |-> 1, root |-> suspect, limit |-> limit, hops |-> hops, wallets |-> wallets, disputed |-> disputed, from |-> 1, until |-> 9]

\* The suspect pays the exchange and the blender over several pages, among records that do not count.
Long == <<R(1, suspect, exchange, 2), Other(2, suspect, mule), R(3, suspect, exchange, 1),
          R(4, suspect, blender, 2), R(5, suspect, exchange, 1)>>
\* A diamond to the exchange with a way back to the suspect, and one transaction that
\* pays the exchange twice.
Diamond == <<R(1, suspect, mule, 2), R(1, suspect, blender, 2), R(2, mule, suspect, 1),
             R(3, blender, exchange, 1), R(3, blender, exchange, 1), R(4, mule, exchange, 2)>>

\* One page holds all there is, and not all of it counts.
Full == <<R(1, suspect, exchange, 1), Other(2, suspect, mule)>>
\* The exchange is paid at once, and again at the second hop.
Return == <<R(1, suspect, exchange, 2), R(2, suspect, mule, 2), R(3, mule, exchange, 1), R(4, exchange, blender, 1)>>

One(x) == [c \in {c1} |-> x]
Both(x, y) == [c \in {c1, c2} |-> IF c = c1 THEN x ELSE y]
Case2(ask) == [ask EXCEPT !.case = 2]

MCScenes == {
  [client |-> "evm", pages |-> 3, ledger |-> Long, known |-> 4, changes |-> 0, asks |-> Both(Ask1(3, 1, 2, 3), Case2(Ask1(3, 1, 2, -1)))],
  [client |-> "evm", pages |-> 2, ledger |-> Long, known |-> 5, changes |-> 0, asks |-> Both(Ask1(4, 1, 2, 4), Ask1(2, 1, 2, -1))],
  [client |-> "tron", pages |-> 2, ledger |-> Long, known |-> 4, changes |-> 0, asks |-> Both(Ask1(3, 1, 2, 3), Ask1(3, 1, 2, -1))],
  [client |-> "evm", pages |-> 3, ledger |-> Diamond, known |-> 6, changes |-> 1, asks |-> One(Ask1(2, 3, 3, 3))],
  [client |-> "tron", pages |-> 2, ledger |-> Diamond, known |-> 5, changes |-> 1, asks |-> One([Ask1(2, 3, 4, 4) EXCEPT !.from = 2])],
  [client |-> "tron", pages |-> 2, ledger |-> Diamond, known |-> 6, changes |-> 1, asks |-> One(Ask1(4, 2, 1, 4))],
  [client |-> "tron", pages |-> 2, ledger |-> Diamond, known |-> 6, changes |-> 0,
   asks |-> Both(Ask1(4, 2, 2, 4), [Case2(Ask1(4, 1, 1, -1)) EXCEPT !.root = blender])],
  [client |-> "evm", pages |-> 3, ledger |-> Full, known |-> 1, changes |-> 0, asks |-> One(Ask1(2, 1, 2, 3))],
  [client |-> "tron", pages |-> 3, ledger |-> Return, known |-> 4, changes |-> 1, asks |-> One(Ask1(4, 3, 5, 3))],
  [client |-> "unavailable", pages |-> 3, ledger |-> Diamond, known |-> 6, changes |-> 1, asks |-> One(Ask1(3, 2, 4, 4))] }

MCSeedLabels == [x \in {mule, blender, exchange} |->
  CASE x = exchange -> <<[status |-> "APPROVED", kind |-> "vasp", expiry |-> "ahead"]>>
    [] x = blender -> <<[status |-> "REJECTED", kind |-> "bridge", expiry |-> "never"], [status |-> "APPROVED", kind |-> "mixer", expiry |-> "never"]>>
    [] x = mule -> <<[status |-> "CONFLICT", kind |-> "vasp", expiry |-> "past"]>>]

MCPostedLabels == {[address |-> suspect, kind |-> "vasp", expiry |-> "never"],
                   [address |-> blender, kind |-> "vasp", expiry |-> "ahead"]}
=============================================================================
