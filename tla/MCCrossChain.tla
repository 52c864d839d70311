---------------------------- MODULE MCCrossChain ----------------------------
(* An instance of CrossChain: two transfers into a bridge and two out of it on  *)
(* the other chain, and evidence that tells more or less of them.               *)
EXTENDS CrossChain, Sequences

CONSTANTS eth, bsc, vault, mint, hub, dex, w, x, y, usdt, usdc, s1, s2, e1, e2, e3

T(id, tx, chain, source, destination, asset, amount, time) ==
  [id |-> id, tx |-> tx, chain |-> chain, source |-> source, destination |-> destination, asset |-> asset,
   amount |-> amount, time |-> time]

In1 == T("in1", "t1", eth, w, vault, usdt, 4, 1)
In2 == T("in2", "t1", eth, w, vault, usdt, 3, 1)
Out1 == T("out1", "t2", bsc, mint, x, usdc, 3, 2)
Out2 == T("out2", "t3", bsc, mint, y, usdc, 4, 0)
Out3 == T("out3", "t2", bsc, mint, y, usdc, 2, 2)
MCTransfer == {In1, In2, Out1, Out2, Out3}

Says(id, message, direction, tx, transfer) ==
  [id |-> id, logs |-> << >>,
   envelope |-> [protocol |-> "WORMHOLE", message |-> message, direction |-> direction, tx |-> tx, hash |-> Absent,
                 transfer |-> transfer]]
Hashed(a, transactions) == [a EXCEPT !.envelope.hash = transactions]
\* One message under two chain ids, and another.
m1 == <<2, s1>>
m3 == <<4, s1>>
m2 == <<2, s2>>
Log(contract, published) == [contract |-> contract, published |-> published]
Receipt(id, logs) == [id |-> id, envelope |-> Absent, logs |-> logs]

Direct(source, destination, evidence) ==
  [source |-> source, destination |-> destination, message |-> m1, evidence |-> evidence]
MCSupplied == {Direct(In2, Out3, <<e1, e2>>), Direct(In1, Out2, <<e1, e2>>)}

MCArtifact == {
  Says(e1, m1, "SOURCE", "t1", "in1"),
  Says(e1, m2, "SOURCE", "t1", Absent),
  Says(e2, m1, Absent, "t2", "out1"),
  Hashed(Says(e2, m3, "DESTINATION", Absent, Absent), {"t2", "t3"}),
  [Says(e3, m2, "SOURCE", "t1", "in1") EXCEPT !.logs = <<Log(hub, s1)>>],
  Receipt(e3, <<Log(dex, Absent), Log(hub, s1), Log(hub, s2)>>) }

Side(chain, bridge, asset) == [chain |-> chain, bridge |-> bridge, asset |-> asset]
Bridge(state, asset) ==
  [entity |-> "bridge", protocol |-> "WORMHOLE", state |-> state,
   source |-> Side(eth, vault, asset), destination |-> Side(bsc, mint, usdc)]
MCRoute == {Bridge("REVIEWED", Absent), Bridge("UNREVIEWED", usdt)}
=============================================================================
