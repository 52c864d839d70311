----------------------------- MODULE CrossChain -----------------------------
(***************************************************************************)
(* How a trace is carried over a bridge: routes (cross_chain_v2.py), the   *)
(* bridge events extracted from retained evidence (bridge_events.py,       *)
(* wormhole.py), the links resolved from two events or from values a       *)
(* caller supplies, and the continuations that become seeds on the other   *)
(* chain.  A request that is refused changes nothing and is no step; each  *)
(* table keeps the first row of an identifier, and an identifier is a hash *)
(* of the row's contents, so that a table is a set (Desk has the steps of  *)
(* such an insert).                                                        *)
(***************************************************************************)
EXTENDS FiniteSets, Integers

CONSTANTS
  Transfer,     \* transfers: [id, tx, chain, source, destination, asset, amount, time]
  Artifact,     \* artifacts that may be imported: [id, envelope, logs]
  Route,        \* routes that may be registered: [entity, protocol, state, source, destination]
  BridgeEntity, \* registered entities of the type BRIDGE
  Protocol,     \* protocols named by requests
  WormholeChain,\* wormhole_chain_id of requests
  Absent,       \* a field the evidence does not record
  Supplied,     \* links callers ask for directly: [source, destination, message, evidence]
  Requested,    \* attributed amounts a continuation is asked for
  MaxEvents, MaxLinks   \* bounds: rows of the tables

\* An envelope is metadata.bridge_event [protocol, message, direction, tx, hash, transfer],
\* with hash the transaction identifiers that contain the recorded one; logs are a
\* receipt's [contract, published]: the emitter and the sequence of a Wormhole message,
\* Absent where they do not decode.  Of a Wormhole message the identifier is
\* <<chain id, emitter and sequence>>.  A route's sides are [chain, bridge, asset], the
\* asset Absent if any will do.
ASSUME CrossChainAssumption ==
  /\ \A t \in Transfer : t.amount \in Nat \ {0} /\ t.time \in Nat
  /\ \A r \in Route : r.source.chain # r.destination.chain
  /\ \A l \in Supplied : l.source \in Transfer /\ l.destination \in Transfer
  /\ Requested \subseteq Nat \ {0}
  /\ MaxEvents \in Nat /\ MaxLinks \in Nat

VARIABLES
  artifacts,     \* table raw_evidence_artifacts_v2
  routes,        \* table bridge_routes_v2
  events,        \* table bridge_events_v2: [protocol, direction, message, transfer, artifact]
  links,         \* table cross_chain_links_v2: [route, source, destination, message, evidence]
  proven,        \* history: links resolved from two events
  continuations  \* history: continuations returned: [link, asked, address, amount, time]

vars == <<artifacts, routes, events, links, proven, continuations>>

Init ==
  /\ artifacts = {} /\ routes = {} /\ events = {} /\ links = {}
  /\ proven = {} /\ continuations = {}

\* Slip: an import replaces the artifact of the same identifier.
SaveArtifactSlip(a) ==
  /\ artifacts' = {b \in artifacts : b.id # a.id} \cup {a}
  /\ UNCHANGED <<routes, events, links, proven, continuations>>

\* save_raw_evidence_artifact_v2: the first artifact of an identifier stays.
SaveArtifact(a) ==
  /\ \A b \in artifacts : b.id # a.id
  /\ artifacts' = artifacts \cup {a}
  /\ UNCHANGED <<routes, events, links, proven, continuations>>

\* create_bridge_route_v2: the review state is the one given, and never changes.
RegisterRoute(r) ==
  /\ r.entity \in BridgeEntity
  /\ routes' = routes \cup {r}
  /\ UNCHANGED <<artifacts, events, links, proven, continuations>>

Records(field, value) == field \in {Absent, value}

\* Slip: what the evidence records of the transaction is not compared.
MatchesSlip(e, protocol, direction, t) ==
  e.protocol = protocol /\ e.message # Absent /\ Records(e.direction, direction)

\* NormalizedBridgeEventExtractorV2.extract: every field the envelope records agrees with
\* the request; direction, transaction, its hash and the transfer may be missing.
Matches(e, protocol, direction, t) ==
  /\ e.protocol = protocol /\ e.message # Absent
  /\ Records(e.direction, direction) /\ Records(e.tx, t.tx) /\ Records(e.transfer, t.id)
  /\ e.hash # Absent => t.tx \in e.hash

SaveEvent(event) ==
  /\ Cardinality(events \cup {event}) <= MaxEvents
  /\ events' = events \cup {event}
  /\ UNCHANGED <<artifacts, routes, links, proven, continuations>>

ExtractEvent(a, protocol, direction, t) ==
  /\ a.envelope # Absent
  /\ Matches(a.envelope, protocol, direction, t)
  /\ SaveEvent([protocol |-> a.envelope.protocol, direction |-> direction, message |-> a.envelope.message,
                transfer |-> t, artifact |-> a.id])

\* WormholeEvmMessageCollectorV2.extract: the first message the named contract logged, under
\* whatever chain id and for whatever transfer the request supplies.
ExtractWormhole(a, contract, chain, t) ==
  \E i \in DOMAIN a.logs :
    /\ a.logs[i].contract = contract /\ \A k \in 1 .. i - 1 : a.logs[k].contract # contract
    /\ a.logs[i].published # Absent
    /\ SaveEvent([protocol |-> "WORMHOLE", direction |-> "SOURCE", message |-> <<chain, a.logs[i].published>>,
                  transfer |-> t, artifact |-> a.id])

----------------------------------------------------------------------------
AssetMatches(expected, actual) == expected \in {Absent, actual}

\* _validate_route.
OnRoute(r, s, d) ==
  /\ s.chain = r.source.chain /\ d.chain = r.destination.chain
  /\ s.destination = r.source.bridge /\ d.source = r.destination.bridge
  /\ AssetMatches(r.source.asset, s.asset) /\ AssetMatches(r.destination.asset, d.asset)

\* CrossChainResolverV2.resolve.
Resolvable(r, s, d) ==
  /\ r \in routes /\ r.entity \in BridgeEntity /\ r.state = "REVIEWED"
  /\ OnRoute(r, s, d)
  /\ d.time >= s.time /\ d.amount <= s.amount

SaveLink(link) ==
  /\ Cardinality(links \cup {link}) <= MaxLinks
  /\ links' = links \cup {link}
  /\ UNCHANGED <<artifacts, routes, events, continuations>>

\* resolve_cross_chain_events_v2: two stored events of one protocol and message.
ResolveEvents(r, x, y) ==
  /\ x.direction = "SOURCE" /\ y.direction = "DESTINATION"
  /\ x.protocol = y.protocol /\ x.message = y.message
  /\ Resolvable(r, x.transfer, y.transfer)
  /\ LET link == [route |-> r, source |-> x.transfer, destination |-> y.transfer, message |-> x.message,
                  evidence |-> <<x.artifact, y.artifact>>]
     IN  SaveLink(link) /\ proven' = proven \cup {link}

\* resolve_cross_chain_link_v2: transfers, message and evidence are the caller's.
ResolveLink(r, asked) ==
  /\ Resolvable(r, asked.source, asked.destination)
  /\ SaveLink([route |-> r, source |-> asked.source, destination |-> asked.destination,
               message |-> asked.message, evidence |-> asked.evidence])
  /\ UNCHANGED proven

\* continuation: the amount asked for, scaled by what the bridge passed on; only the
\* link's own transfers are looked at, not what was asked of it before.  The amount is
\* rounded down here and to 28 digits in the code.
Continue(link, asked) ==
  /\ link \in links
  /\ continuations' = continuations \cup
       {[link |-> link, asked |-> asked, address |-> link.destination.destination,
         amount |-> (asked * link.destination.amount) \div link.source.amount, time |-> link.destination.time]}
  /\ UNCHANGED <<artifacts, routes, events, links, proven>>

Next ==
  \/ \E a \in Artifact : SaveArtifact(a)
  \/ \E r \in Route : RegisterRoute(r)
  \/ \E a \in artifacts : \E p \in Protocol : \E d \in {"SOURCE", "DESTINATION"} : \E t \in Transfer :
       ExtractEvent(a, p, d, t)
  \/ \E a \in artifacts : \E l \in {a.logs[i] : i \in DOMAIN a.logs} : \E c \in WormholeChain : \E t \in Transfer :
       ExtractWormhole(a, l.contract, c, t)
  \/ \E r \in routes : \E x, y \in events : ResolveEvents(r, x, y)
  \/ \E r \in routes : \E asked \in Supplied : ResolveLink(r, asked)
  \/ \E l \in links : \E n \in Requested : Continue(l, n)

Spec == Init /\ [][Next]_vars
----------------------------------------------------------------------------
\* A receipt of the artifact has the message's emitter and sequence; its chain id is the
\* one that the request named.
Publishes(a, message) == \E i \in DOMAIN a.logs : \E c \in WormholeChain : message = <<c, a.logs[i].published>>

\* The artifact records the message, as an event of the direction or without a word of it.
Tells(a, link, direction) ==
  \/ a.envelope # Absent /\ a.envelope.message = link.message /\ Records(a.envelope.direction, direction)
  \/ direction = "SOURCE" /\ Publishes(a, link.message)

\* A link resolved from two events is borne out by the evidence as it is retained now: the
\* artifacts it names still record its message for its two sides, a receipt all of it but
\* the chain id, whatever was imported under their identifiers since, and its route is one
\* that was reviewed
\* (cross_chain_v2.py, resolve; bridge_events.py and wormhole.py, extract; storage.py,
\* save_raw_evidence_artifact_v2).
MessagesRetained ==
  \A l \in proven :
    /\ l \in links /\ l.route \in routes /\ l.route.state = "REVIEWED"
    /\ \E a, b \in artifacts : /\ <<a.id, b.id>> = l.evidence
                               /\ Tells(a, l, "SOURCE")
                               /\ Tells(b, l, "DESTINATION")

\* The evidence records the message of a link without the transfer that is its side: no
\* log of a receipt names one.
LeavesOpen(id, link, direction) ==
  \E a \in artifacts :
    /\ a.id = id
    /\ \/ a.envelope # Absent /\ a.envelope.message = link.message /\ a.envelope.transfer = Absent
       \/ direction = "SOURCE" /\ Publishes(a, link.message)

\* Money crosses a bridge once, forward and without gain: a continuation starts no earlier
\* than the transfer into the bridge and with no more than was asked for, and two
\* continuations of one message on the same evidence are of the same two transfers,
\* unless that evidence leaves a transfer open or a caller supplied the link.  A transfer
\* is the identifier it is supplied under (cross_chain_v2.py, continuation).
MoneyCrossesOnce ==
  \A c \in continuations :
    /\ c.time >= c.link.source.time /\ c.amount <= c.asked
    /\ \A d \in continuations :
         (/\ {c.link, d.link} \subseteq proven
          /\ c.link.message = d.link.message /\ c.link.evidence = d.link.evidence)
         => \/ /\ c.link.source.id = d.link.source.id
               /\ c.link.destination.id = d.link.destination.id
            \/ LeavesOpen(c.link.evidence[1], c.link, "SOURCE")
            \/ LeavesOpen(c.link.evidence[2], c.link, "DESTINATION")
=============================================================================
