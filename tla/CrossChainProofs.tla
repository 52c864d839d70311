-------------------------- MODULE CrossChainProofs --------------------------
(***************************************************************************)
(* Bridge links for any evidence, routes and requests: nothing a link      *)
(* rests on is taken back.  An artifact is never replaced, so what an      *)
(* event was read from can be read again; a route never changes its review *)
(* state; and a continuation looks only at a link that is kept.            *)
(***************************************************************************)
EXTENDS CrossChain, TLAPS

\* The artifact says what the event says, in its envelope or, but for the chain id, in a log.
Bears(a, e) ==
  \/ /\ a.envelope # Absent /\ a.envelope.message = e.message
     /\ Records(a.envelope.direction, e.direction) /\ Records(a.envelope.transfer, e.transfer.id)
  \/ e.direction = "SOURCE" /\ Publishes(a, e.message)

OneArtifact == \A a, b \in artifacts : a.id = b.id => a = b

EventsBorne ==
  \A e \in events : e.transfer \in Transfer /\ \E a \in artifacts : a.id = e.artifact /\ Bears(a, e)

\* A link leads forward and passes on no more than it took in.
LinksForward ==
  \A l \in links : /\ l.source \in Transfer /\ l.destination \in Transfer
                   /\ l.source.time <= l.destination.time /\ l.destination.amount <= l.source.amount

ProvenByEvents ==
  \A l \in proven :
    /\ l \in links /\ l.route \in routes /\ l.route.state = "REVIEWED"
    /\ \E x, y \in events :
         /\ x.direction = "SOURCE" /\ y.direction = "DESTINATION"
         /\ x.message = l.message /\ y.message = l.message
         /\ x.transfer = l.source /\ y.transfer = l.destination
         /\ l.evidence = <<x.artifact, y.artifact>>

ContinuesLink ==
  \A c \in continuations :
    /\ c.link \in links /\ c.asked \in Nat /\ c.time = c.link.destination.time
    /\ c.amount = (c.asked * c.link.destination.amount) \div c.link.source.amount

BridgeInv == OneArtifact /\ EventsBorne /\ LinksForward /\ ProvenByEvents /\ ContinuesLink

LEMMA BridgeInit == Init => BridgeInv
BY DEF Init, BridgeInv, OneArtifact, EventsBorne, LinksForward, ProvenByEvents, ContinuesLink

LEMMA SaveArtifactKeeps ==
  ASSUME BridgeInv, NEW a, SaveArtifact(a)
  PROVE  BridgeInv'
<1>1. OneArtifact'
  BY DEF BridgeInv, SaveArtifact, OneArtifact
<1>2. EventsBorne'
  <2>1. artifacts \subseteq artifacts' /\ events' = events
    BY DEF SaveArtifact
  <2> QED BY <2>1 DEF BridgeInv, EventsBorne
<1>3. LinksForward' /\ ProvenByEvents' /\ ContinuesLink'
  BY DEF BridgeInv, SaveArtifact, LinksForward, ProvenByEvents, ContinuesLink
<1> QED BY <1>1, <1>2, <1>3 DEF BridgeInv

LEMMA RegisterRouteKeeps ==
  ASSUME BridgeInv, NEW r, RegisterRoute(r)
  PROVE  BridgeInv'
<1>1. routes \subseteq routes' /\ UNCHANGED <<artifacts, events, links, proven, continuations>>
  BY DEF RegisterRoute
<1>2. OneArtifact' /\ EventsBorne' /\ LinksForward' /\ ContinuesLink'
  BY <1>1 DEF BridgeInv, OneArtifact, EventsBorne, LinksForward, ContinuesLink
<1>3. ProvenByEvents'
  BY <1>1 DEF BridgeInv, ProvenByEvents
<1> QED BY <1>2, <1>3 DEF BridgeInv

\* An event that its artifact bears is kept with it.
LEMMA SaveEventKeeps ==
  ASSUME BridgeInv, NEW e, e.transfer \in Transfer, NEW a \in artifacts, a.id = e.artifact, Bears(a, e),
         SaveEvent(e)
  PROVE  BridgeInv'
<1>1. events' = events \cup {e} /\ UNCHANGED <<artifacts, routes, links, proven, continuations>>
  BY DEF SaveEvent
<1>2. OneArtifact' /\ LinksForward' /\ ContinuesLink'
  BY <1>1 DEF BridgeInv, OneArtifact, LinksForward, ContinuesLink
<1>3. EventsBorne'
  BY <1>1 DEF BridgeInv, EventsBorne
<1>4. ProvenByEvents'
  BY <1>1 DEF BridgeInv, ProvenByEvents
<1> QED BY <1>2, <1>3, <1>4 DEF BridgeInv

LEMMA ExtractKeeps ==
  ASSUME BridgeInv, NEW a \in artifacts, NEW p, NEW d, NEW t \in Transfer, ExtractEvent(a, p, d, t)
  PROVE  BridgeInv'
<1> DEFINE e == [protocol |-> a.envelope.protocol, direction |-> d, message |-> a.envelope.message,
                 transfer |-> t, artifact |-> a.id]
<1>1. Bears(a, e)
  BY DEF ExtractEvent, Matches, Bears
<1>2. SaveEvent(e) /\ e.transfer \in Transfer /\ a.id = e.artifact
  BY DEF ExtractEvent
<1> HIDE DEF e
<1> QED BY <1>1, <1>2, SaveEventKeeps

LEMMA ExtractWormholeKeeps ==
  ASSUME BridgeInv, NEW a \in artifacts, NEW contract, NEW c \in WormholeChain, NEW t \in Transfer,
         ExtractWormhole(a, contract, c, t)
  PROVE  BridgeInv'
<1>1. PICK i \in DOMAIN a.logs :
        SaveEvent([protocol |-> "WORMHOLE", direction |-> "SOURCE", message |-> <<c, a.logs[i].published>>,
                   transfer |-> t, artifact |-> a.id])
  BY DEF ExtractWormhole
<1> DEFINE e == [protocol |-> "WORMHOLE", direction |-> "SOURCE", message |-> <<c, a.logs[i].published>>,
                 transfer |-> t, artifact |-> a.id]
<1>2. Bears(a, e) /\ SaveEvent(e) /\ e.transfer \in Transfer /\ a.id = e.artifact
  BY <1>1 DEF Bears, Publishes
<1> HIDE DEF e
<1> QED BY <1>2, SaveEventKeeps

\* A link is only saved after both checks of its transfers.
LEMMA SaveLinkKeeps ==
  ASSUME BridgeInv, NEW l, l.source \in Transfer, l.destination \in Transfer,
         Resolvable(l.route, l.source, l.destination), SaveLink(l)
  PROVE  /\ OneArtifact' /\ EventsBorne' /\ LinksForward' /\ ContinuesLink'
         /\ links' = links \cup {l} /\ UNCHANGED <<artifacts, routes, events, continuations>>
<1>1. links' = links \cup {l} /\ UNCHANGED <<artifacts, routes, events, continuations>>
  BY DEF SaveLink
<1>2. l.source.time <= l.destination.time /\ l.destination.amount <= l.source.amount
  BY CrossChainAssumption DEF Resolvable
<1>3. OneArtifact' /\ EventsBorne' /\ ContinuesLink'
  BY <1>1 DEF BridgeInv, OneArtifact, EventsBorne, ContinuesLink
<1>4. LinksForward'
  BY <1>1, <1>2 DEF BridgeInv, LinksForward
<1> QED BY <1>1, <1>3, <1>4

LEMMA ResolveEventsKeeps ==
  ASSUME BridgeInv, NEW r \in routes, NEW x \in events, NEW y \in events, ResolveEvents(r, x, y)
  PROVE  BridgeInv'
<1> DEFINE l == [route |-> r, source |-> x.transfer, destination |-> y.transfer, message |-> x.message,
                 evidence |-> <<x.artifact, y.artifact>>]
<1>1. /\ x.direction = "SOURCE" /\ y.direction = "DESTINATION" /\ x.message = y.message
      /\ Resolvable(r, x.transfer, y.transfer) /\ SaveLink(l) /\ proven' = proven \cup {l}
  BY DEF ResolveEvents
<1>2. /\ l.route = r /\ l.source = x.transfer /\ l.destination = y.transfer
      /\ l.message = x.message /\ l.evidence = <<x.artifact, y.artifact>>
  OBVIOUS
<1> HIDE DEF l
<1>3. x.transfer \in Transfer /\ y.transfer \in Transfer
  BY DEF BridgeInv, EventsBorne
<1>4. /\ OneArtifact' /\ EventsBorne' /\ LinksForward' /\ ContinuesLink'
      /\ links' = links \cup {l} /\ UNCHANGED <<artifacts, routes, events, continuations>>
  BY <1>1, <1>2, <1>3, SaveLinkKeeps
<1>5. r.state = "REVIEWED"
  BY <1>1 DEF Resolvable
<1>6. ProvenByEvents'
  BY <1>1, <1>2, <1>4, <1>5 DEF BridgeInv, ProvenByEvents
<1> QED BY <1>4, <1>6 DEF BridgeInv

LEMMA ResolveLinkKeeps ==
  ASSUME BridgeInv, NEW r \in routes, NEW asked \in Supplied, ResolveLink(r, asked)
  PROVE  BridgeInv'
<1> DEFINE l == [route |-> r, source |-> asked.source, destination |-> asked.destination,
                 message |-> asked.message, evidence |-> asked.evidence]
<1>1. Resolvable(r, asked.source, asked.destination) /\ SaveLink(l) /\ proven' = proven
  BY DEF ResolveLink
<1>2. l.route = r /\ l.source = asked.source /\ l.destination = asked.destination
  OBVIOUS
<1> HIDE DEF l
<1>3. /\ OneArtifact' /\ EventsBorne' /\ LinksForward' /\ ContinuesLink'
      /\ links' = links \cup {l} /\ UNCHANGED <<artifacts, routes, events, continuations>>
  BY <1>1, <1>2, SaveLinkKeeps, CrossChainAssumption
<1>4. ProvenByEvents'
  BY <1>1, <1>3 DEF BridgeInv, ProvenByEvents
<1> QED BY <1>3, <1>4 DEF BridgeInv

LEMMA ContinueKeeps ==
  ASSUME BridgeInv, NEW l \in links, NEW asked \in Requested, Continue(l, asked)
  PROVE  BridgeInv'
<1> DEFINE c == [link |-> l, asked |-> asked, address |-> l.destination.destination,
                 amount |-> (asked * l.destination.amount) \div l.source.amount, time |-> l.destination.time]
<1>1. continuations' = continuations \cup {c} /\ UNCHANGED <<artifacts, routes, events, links, proven>>
  BY DEF Continue
<1>2. /\ c.link = l /\ c.asked = asked /\ c.time = l.destination.time
      /\ c.amount = (asked * l.destination.amount) \div l.source.amount
  OBVIOUS
<1> HIDE DEF c
<1>3. asked \in Nat
  BY CrossChainAssumption
<1>4. OneArtifact' /\ EventsBorne' /\ LinksForward' /\ ProvenByEvents'
  BY <1>1 DEF BridgeInv, OneArtifact, EventsBorne, LinksForward, ProvenByEvents
<1>5. ContinuesLink'
  BY <1>1, <1>2, <1>3 DEF BridgeInv, ContinuesLink
<1> QED BY <1>4, <1>5 DEF BridgeInv

LEMMA BridgeNext == BridgeInv /\ [Next]_vars => BridgeInv'
<1> SUFFICES ASSUME BridgeInv, [Next]_vars
             PROVE  BridgeInv'
  OBVIOUS
<1>1. CASE UNCHANGED vars
  BY <1>1 DEF vars, BridgeInv, OneArtifact, EventsBorne, LinksForward, ProvenByEvents, ContinuesLink
<1> QED BY <1>1, SaveArtifactKeeps, RegisterRouteKeeps, ExtractKeeps, ExtractWormholeKeeps,
           ResolveEventsKeeps, ResolveLinkKeeps, ContinueKeeps DEF Next

LEMMA BridgeInvariant == Spec => []BridgeInv
BY BridgeInit, BridgeNext, PTL DEF Spec

\* Whatever is imported later, a link resolved from two events is still borne out by the
\* retained evidence it names, but for the chain id a request gives to the message of a
\* receipt, and by a reviewed route (cross_chain_v2.py, resolve; wormhole.py, extract;
\* storage.py, save_raw_evidence_artifact_v2).
THEOREM EvidenceRetained == Spec => []MessagesRetained
<1>1. ASSUME BridgeInv, NEW l \in proven
      PROVE  \E a, b \in artifacts : /\ <<a.id, b.id>> = l.evidence
                                     /\ Tells(a, l, "SOURCE") /\ Tells(b, l, "DESTINATION")
  <2>1. PICK x \in events, y \in events :
          /\ x.direction = "SOURCE" /\ y.direction = "DESTINATION"
          /\ x.message = l.message /\ y.message = l.message
          /\ l.evidence = <<x.artifact, y.artifact>>
    BY <1>1 DEF BridgeInv, ProvenByEvents
  <2>2. PICK a \in artifacts : a.id = x.artifact /\ Bears(a, x)
    BY <1>1 DEF BridgeInv, EventsBorne
  <2>3. PICK b \in artifacts : b.id = y.artifact /\ Bears(b, y)
    BY <1>1 DEF BridgeInv, EventsBorne
  <2> QED BY <2>1, <2>2, <2>3 DEF Bears, Tells
<1>2. BridgeInv => MessagesRetained
  BY <1>1 DEF MessagesRetained, BridgeInv, ProvenByEvents
<1> QED BY <1>2, BridgeInvariant, PTL

LEMMA DivBounds ==
  ASSUME NEW m \in Nat, NEW d \in Nat \ {0}
  PROVE  m \div d \in Nat /\ d * (m \div d) <= m
OBVIOUS

\* The amount of a bridge passes on at most what was asked for.
LEMMA ScaledBounded ==
  ASSUME NEW n \in Nat, NEW out \in Nat, NEW in \in Nat \ {0}, out <= in
  PROVE  (n * out) \div in <= n
<1> DEFINE m == n * out
           q == m \div in
<1>1. m \in Nat /\ m <= n * in
  OBVIOUS
<1>2. q \in Int /\ in * q <= m
  <2> HIDE DEF m
  <2> QED BY <1>1, DivBounds
<1>3. ASSUME q >= n + 1
      PROVE  FALSE
  <2> HIDE DEF q
  <2>1. in * q >= in * (n + 1)
    BY <1>2, <1>3
  <2>2. in * (n + 1) = in * n + in
    OBVIOUS
  <2> QED BY <1>1, <1>2, <2>1, <2>2
<1> QED BY <1>2, <1>3

\* Two links of one message on the same evidence are of the same source, and of the same
\* destination, or the evidence leaves that side open.
LEMMA SidesNamed ==
  ASSUME BridgeInv, NEW l \in proven, NEW k \in proven, l.message = k.message, l.evidence = k.evidence
  PROVE  /\ l.source.id = k.source.id \/ LeavesOpen(l.evidence[1], l, "SOURCE")
         /\ l.destination.id = k.destination.id \/ LeavesOpen(l.evidence[2], l, "DESTINATION")
<1>1. PICK x \in events, y \in events :
        /\ x.direction = "SOURCE" /\ y.direction = "DESTINATION"
        /\ x.message = l.message /\ y.message = l.message
        /\ x.transfer = l.source /\ y.transfer = l.destination
        /\ l.evidence = <<x.artifact, y.artifact>>
  BY DEF BridgeInv, ProvenByEvents
<1>2. PICK v \in events, w \in events :
        /\ v.direction = "SOURCE" /\ w.direction = "DESTINATION"
        /\ v.message = k.message /\ w.message = k.message
        /\ v.transfer = k.source /\ w.transfer = k.destination
        /\ k.evidence = <<v.artifact, w.artifact>>
  BY DEF BridgeInv, ProvenByEvents
<1>3. x.artifact = v.artifact /\ y.artifact = w.artifact
      /\ l.evidence[1] = x.artifact /\ l.evidence[2] = y.artifact
  <2>1. l.evidence[1] = x.artifact /\ l.evidence[2] = y.artifact
    BY <1>1
  <2>2. k.evidence[1] = v.artifact /\ k.evidence[2] = w.artifact
    BY <1>2
  <2> QED BY <2>1, <2>2
<1>4. PICK a \in artifacts : a.id = x.artifact /\ Bears(a, x) /\ Bears(a, v)
  BY <1>3 DEF BridgeInv, EventsBorne, OneArtifact
<1>5. PICK b \in artifacts : b.id = y.artifact /\ Bears(b, y) /\ Bears(b, w)
  BY <1>3 DEF BridgeInv, EventsBorne, OneArtifact
<1>6. l.source.id = k.source.id \/ LeavesOpen(l.evidence[1], l, "SOURCE")
  BY <1>1, <1>2, <1>3, <1>4 DEF Bears, Records, LeavesOpen
<1>7. l.destination.id = k.destination.id \/ LeavesOpen(l.evidence[2], l, "DESTINATION")
  BY <1>1, <1>2, <1>3, <1>5 DEF Bears, Records, LeavesOpen
<1> QED BY <1>6, <1>7

\* Continuations go forward in time and gain nothing, whatever amounts are asked for and
\* however often, and two of one message on the same evidence are of the same transfers
\* unless the evidence leaves one open (cross_chain_v2.py, continuation).
THEOREM CrossesOnce == Spec => []MoneyCrossesOnce
<1>1. ASSUME BridgeInv, NEW c \in continuations
      PROVE  c.time >= c.link.source.time /\ c.amount <= c.asked
  <2>1. /\ c.link \in links /\ c.asked \in Nat /\ c.time = c.link.destination.time
        /\ c.amount = (c.asked * c.link.destination.amount) \div c.link.source.amount
    BY <1>1 DEF BridgeInv, ContinuesLink
  <2>2. /\ c.link.source \in Transfer /\ c.link.destination \in Transfer
        /\ c.link.source.time <= c.link.destination.time
        /\ c.link.destination.amount <= c.link.source.amount
    BY <1>1, <2>1 DEF BridgeInv, LinksForward
  <2>3. /\ c.link.source.time \in Nat /\ c.link.destination.time \in Nat
        /\ c.link.source.amount \in Nat \ {0} /\ c.link.destination.amount \in Nat
    BY <2>2, CrossChainAssumption
  <2>4. c.amount <= c.asked
    BY <2>1, <2>2, <2>3, ScaledBounded
  <2> QED BY <2>1, <2>2, <2>3, <2>4
<1>2. BridgeInv => MoneyCrossesOnce
  BY <1>1, SidesNamed DEF MoneyCrossesOnce
<1> QED BY <1>2, BridgeInvariant, PTL
=============================================================================
