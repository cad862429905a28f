--------------------------- MODULE Investigations ---------------------------
(***************************************************************************)
(* What to look at first: passive hints from availability timing           *)
(* (topology/passive_hints.py), shared availability events and observed    *)
(* router areas (decisions/), and the ranked investigation cards           *)
(* (topology/investigations.py) served with the evidence graph             *)
(* (services/evidence_graph.py).                                           *)
(*                                                                         *)
(* Data: rows maps the devices of the inventory to [type, power,           *)
(* availability, batt, seen]; events are the recorded offline transitions  *)
(* [at, dev] of the lookback, oldest first; an edge of the graph is a pair *)
(* <<kind, ends>>, ends a set, or an ordered pair for routes.              *)
(***************************************************************************)
EXTENDS TopologyEvidence

CONSTANTS EventGap,          \* PASSIVE_HINT_EVENT_WINDOW_MINUTES
          EventsPerDevice,   \* PASSIVE_HINT_MAX_EVENTS_PER_DEVICE
          StormSize,         \* PASSIVE_HINT_MAX_DEVICES_PER_WINDOW
          HintsPerNode,      \* MAX_PASSIVE_HINTS_PER_NODE
          HintsTotal,        \* MAX_PASSIVE_HINTS_TOTAL
          MissingEdges,      \* RECENT_MISSING_CLUSTER_MIN_EDGES
          LimitedDevices,    \* DIAGNOSTICS_LIMITED_MIN_DEVICES
          ReviewLinks,       \* ROUTER_REVIEW_MIN_LINKS
          ReviewMembers,     \* ROUTER_REVIEW_MULTI_SOURCE_MIN_MEMBERS
          CardLimit,         \* MAX_INVESTIGATION_CARDS
          DevicesPerCard     \* MAX_DEVICES_PER_CARD

ASSUME CardAssumption == EventGap \in Nat /\ StormSize \in Nat /\ CardLimit \in Nat

MinOf(S) == CHOOSE x \in S : \A y \in S : x <= y

----------------------------------------------------------------------------
(* passive_hints.py *)

\* _instability_events: the newest events of each known device.
instability_events(events, known) ==
    LET later(i) == {j \in DOMAIN events : j > i /\ events[j].dev = events[i].dev}
        kept == {i \in DOMAIN events : events[i].dev \in known
                                       /\ Cardinality(later(i)) < EventsPerDevice}
    IN SortedBy({events[i] : i \in kept}, LAMBDA e, f : LexLess(<<e.at, e.dev>>, <<f.at, f.dev>>))

\* _cluster_windows: consecutive events at most EventGap apart chain.
cluster_windows(ev) ==
    LET starts == {i \in DOMAIN ev : i = 1 \/ ev[i].at - ev[i - 1].at > EventGap}
        stop(i) == MinOf({j - 1 : j \in {k \in starts : k > i}} \cup {Len(ev)})
    IN {[start |-> ev[i].at, end |-> ev[stop(i)].at,
         devices |-> {ev[k].dev : k \in i .. stop(i)}] : i \in starts}

\* _topology_neighbourhoods: latest and recent previous snapshots.
Corroborated(snaps, now, pair) ==
    LET links == UNION {RealLinks(s.links) : s \in Latest(snaps) \cup RangeOf(RecentPrevious(snaps, now))}
        infra == {"Router", "Coordinator"}
        routersOf(d) == {l.target : l \in {k \in links : k.source = d /\ k.ttype \in infra}}
                        \cup {l.source : l \in {k \in links : k.target = d /\ k.stype \in infra}}
    IN pair \in {Ends(l) : l \in links} \/ \A a, b \in pair : a # b => routersOf(a) \cap routersOf(b) # {}

issue_device_ids(rows) == {d \in DOMAIN rows : rows[d].availability = "offline"}

hint_confidence(repeated, corroborated, issue) ==
    IF repeated /\ corroborated /\ issue THEN 2
    ELSE IF repeated \/ corroborated THEN 1
    ELSE 0

\* Two devices that went offline together in at least two windows, none of them
\* network-wide.  Topology and current issues raise the confidence only.
QualifyingHints(g) ==
    LET windows == {w \in cluster_windows(instability_events(g.events, DOMAIN g.rows)) :
                       Cardinality(w.devices) \in 2 .. StormSize}
        of(p)   == {w \in windows : p \subseteq w.devices}
        pairs   == {p \in UNION {kSubset(2, w.devices) : w \in windows} : Cardinality(of(p)) >= 2}
        issue(p) == p \cap issue_device_ids(g.rows) # {}
        corr(p)  == Corroborated(g.snaps, g.now, p)
    IN {[pair |-> p, count |-> Cardinality(of(p)), corroborated |-> corr(p), issue |-> issue(p),
         confidence |-> hint_confidence(Cardinality(of(p)) > 2, corr(p), issue(p)),
         at |-> MaxOf({w.end : w \in of(p)})] : p \in pairs}

\* _recency_ordered: confidence, issue relevance, recency, pair.
HintKey(h) == <<-h.confidence, IF h.issue THEN 0 ELSE 1, -h.at, MinOf(h.pair), MaxOf(h.pair)>>
HintBefore(h, k) == LexLess(HintKey(h), HintKey(k))

\* aggregate_passive_hints: taken in order, capped per device and in total.
aggregate_passive_hints(g) ==
    LET order == SortedBy(QualifyingHints(g), HintBefore)
        Take(kept, h) ==
            IF /\ Cardinality(kept) < HintsTotal
               /\ \A d \in h.pair : Cardinality({k \in kept : d \in k.pair}) < HintsPerNode
            THEN kept \cup {h} ELSE kept
        taken[i \in 0 .. Len(order)] == IF i = 0 THEN {} ELSE Take(taken[i - 1], order[i])
    IN taken[Len(order)]

MAX_SHARED_EVENTS == 20

\* availability_event_groups.py: the windows too wide for pairs, the latest of them.
shared_availability_events(g) ==
    LET wide == {w \in cluster_windows(instability_events(g.events, DOMAIN g.rows)) :
                    Cardinality(w.devices) >= StormSize + 1}
    IN {w \in wide : Cardinality({v \in wide : v.start > w.start}) < MAX_SHARED_EVENTS}

----------------------------------------------------------------------------
(* router_area.py.  e holds the evidence of one network: latest links,     *)
(* historical neighbours and routes, last known links, passive hints.      *)

is_infra(rows, d, linkType) ==
    (IF d \in DOMAIN rows THEN rows[d].type ELSE linkType) \in {"Router", "Coordinator"}

EvidenceOf(g) ==
    [links |-> LatestLinks(g.snaps), neighbours |-> historical_neighbors(g.snaps, g.now),
     routes |-> historical_routes(g.snaps, g.now), known |-> aggregate_last_known_links(g.snaps),
     hints |-> aggregate_passive_hints(g)]

InfraLinks(e, rows, r) ==
    {l \in RealLinks(e.links) : \/ l.source = r /\ is_infra(rows, r, l.stype)
                                \/ l.target = r /\ is_infra(rows, r, l.ttype)}

RouteEnds(x) == {x.key[1], x.key[2]}

build_observed_router_area(e, rows, r) ==
    LET infra == is_infra(rows, r, "None")
        latest == InfraLinks(e, rows, r)
        nb     == {x \in e.neighbours : infra /\ r \in x.key}
        rt     == {x \in e.routes : infra /\ r \in RouteEnds(x)}
        known  == {x \in e.known : infra /\ r \in x.pair}
        hints  == {x \in e.hints : infra /\ r \in x.pair}
        routed == {l \in latest : HasRoute(l)}
        others(S) == (UNION S) \ {r}
        times  == {x.last : x \in nb} \cup {x.last : x \in rt} \cup
                  {x.at : x \in known} \cup {x.at : x \in hints}
        Class(S, name) == IF S = {} THEN {} ELSE {name}
        members == others({Ends(l) : l \in latest} \cup {x.key : x \in nb}
                          \cup {RouteEnds(x) : x \in rt} \cup {x.pair : x \in known}
                          \cup {x.pair : x \in hints})
    IN [router |-> r, latest |-> others({Ends(l) : l \in latest}),
        missing |-> others({x.key : x \in nb} \cup {RouteEnds(x) : x \in rt}),
        known |-> others({x.pair : x \in known}), passive |-> others({x.pair : x \in hints}),
        routed |-> {<<l.source, l.target>> : l \in routed},
        members |-> members, issues |-> (members \cup {r}) \cap issue_device_ids(rows),
        classes |-> Class(latest, "latest_snapshot_neighbor") \cup Class(routed, "latest_snapshot_route")
                    \cup Class(nb, "historical_neighbor") \cup Class(rt, "historical_route")
                    \cup Class(known, "last_known_link"),
        at |-> IF times = {} THEN Missing ELSE MaxOf(times)]

observed_router_areas(e, rows) ==
    LET all == DOMAIN rows \cup LinkedIn(e.links)
               \cup (UNION {x.key : x \in e.neighbours}) \cup UNION {x.pair : x \in e.known}
    IN {a \in {build_observed_router_area(e, rows, r) : r \in all} : a.members # {}}

----------------------------------------------------------------------------
(* investigations.py *)

priority(score) == IF score >= 12 THEN "Review first"
                   ELSE IF score >= 6 THEN "Worth checking"
                   ELSE "Lower priority"
recency_boost(at, now) == IF at # Missing /\ now - at <= 24 * 60 THEN 1 ELSE 0
SortedPrefix(S) == TopOf(S, DevicesPerCard, <)

Card(type, id, score, devices, edges, at) ==
    [type |-> type, id |-> id, score |-> score, priority |-> priority(score),
     devices |-> devices, edges |-> edges, at |-> at]

\* _issue_cluster_cards: the routers with most issue neighbours claim first.
issue_cluster_cards(g, e) ==
    LET issues  == issue_device_ids(g.rows)
        near(r) == (UNION {Ends(l) : l \in InfraLinks(e, g.rows, r)}) \ {r}
        routers == {r \in LinkedIn(e.links) : near(r) # {}}
        cluster(r) == (near(r) \cup {r}) \cap issues
        key(r)  == <<-Cardinality(near(r) \cap issues), r>>
        order   == SortedBy(routers, LAMBDA a, b : LexLess(key(a), key(b)))
        Claim(kept, r) == IF \/ Cardinality(cluster(r)) < 2
                             \/ \E k \in kept : cluster(r) \subseteq cluster(k)
                          THEN kept ELSE kept \cup {r}
        claimed[i \in 0 .. Len(order)] == IF i = 0 THEN {} ELSE Claim(claimed[i - 1], order[i])
        at == IF Latest(g.snaps) = {} THEN Missing ELSE Usable(g.snaps)[1].at
    IN {Card("issue_cluster", r, 5 * Cardinality(cluster(r)) + 2 + recency_boost(at, g.now),
             SortedPrefix(cluster(r) \cup {r}),
             {<<"live-neighbor", Ends(l)>> :
                 l \in {k \in RealLinks(e.links) : Ends(k) \subseteq cluster(r) \cup {r}}}, at) :
           r \in claimed[Len(order)]}

HistEdge(x) == <<"hist-neighbor", x.key>>
HistRoute(x) == <<"hist-route", x.key>>

recent_missing_cluster_cards(g, e) ==
    LET nb(d) == {x \in e.neighbours : d \in x.key}
        rt(d) == {x \in e.routes : d \in RouteEnds(x)}
        n(d)  == Cardinality(nb(d)) + Cardinality(rt(d))
        at(d) == MaxOf({x.last : x \in nb(d)} \cup {x.last : x \in rt(d)})
        all   == UNION ({x.key : x \in e.neighbours} \cup {RouteEnds(x) : x \in e.routes})
    IN {Card("recent_missing_cluster", d,
             2 * n(d) + (IF d \in issue_device_ids(g.rows) THEN 5 ELSE 0) + recency_boost(at(d), g.now),
             SortedPrefix(UNION ({x.key : x \in nb(d)} \cup {RouteEnds(x) : x \in rt(d)})),
             {HistEdge(x) : x \in nb(d)} \cup {HistRoute(x) : x \in rt(d)}, at(d)) :
           d \in {x \in all : n(x) >= MissingEdges}}

\* _UnionFind: each union points the members of both groups at the smaller root.
HintGroups(hints) ==
    LET devices == UNION {h.pair : h \in hints}
        order   == SortedBy(hints, HintBefore)
        Union(root, h) ==
            LET roots == {root[d] : d \in h.pair} IN
            [d \in devices |-> IF root[d] \in roots THEN MinOf(roots) ELSE root[d]]
        joined[i \in 0 .. Len(order)] ==
            IF i = 0 THEN [d \in devices |-> d] ELSE Union(joined[i - 1], order[i])
    IN joined[Len(order)]

passive_group_cards(g, e) ==
    LET root    == HintGroups(e.hints)
        of(r)   == {h \in e.hints : \E d \in h.pair : root[d] = r}
        members(r) == UNION {h.pair : h \in of(r)}
        at(r)   == MaxOf({h.at : h \in of(r)})
        score(r) == SumOfCounts([h \in of(r) |-> h.confidence + 1])
                    + 5 * Cardinality(members(r) \cap issue_device_ids(g.rows))
                    + (IF \E h \in of(r) : h.corroborated THEN 2 ELSE 0) + recency_boost(at(r), g.now)
    IN {Card("passive_instability_group", r, score(r), SortedPrefix(members(r)),
             {<<"passive-hint", h.pair>> : h \in of(r)}, at(r)) :
           r \in {x \in RangeOf(root) : \/ Cardinality(of(x)) >= 2
                                        \/ \E h \in of(x) : h.confidence > 0}}

shared_availability_event_cards(g) ==
    {Card("shared_availability_event", w.start, 5 + recency_boost(w.end, g.now),
          SortedPrefix(w.devices), {}, w.end) : w \in shared_availability_events(g)}

\* The groups of devices of one model, several of which went offline.
model_pattern_cards(g) ==
    LET offline == {g.events[i].dev : i \in DOMAIN g.events} \cap DOMAIN g.rows
        hit     == {d \in DOMAIN g.models : qualifying_pattern_for_device(g.models, offline, d)}
        of(d)   == ModelGroup(g.models, d) \cap offline
        at(d)   == MaxOf({g.events[i].at : i \in {j \in DOMAIN g.events : g.events[j].dev \in of(d)}})
    IN {Card("model_pattern_review", MinOf(of(d)), 4 + recency_boost(at(d), g.now),
             SortedPrefix(of(d)), {}, at(d)) : d \in hit}

router_area_qualifies(a) ==
    LET near == a.issues \ {a.router} IN
    /\ a.classes # {}
    /\ Cardinality(near) >= 2 \/ (a.router \in a.issues /\ Cardinality(a.classes) >= 2)
    /\ \/ Cardinality(a.latest) >= ReviewLinks
       \/ /\ Cardinality(near) >= 2 /\ Cardinality(a.classes) >= 2
          /\ Cardinality(a.members) >= ReviewMembers

\* A bug that takes every missing member for a missing neighbour link.
Mut_router_area_edge_ids(a, e) ==
    {<<"live-neighbor", {a.router, d}>> : d \in a.latest}
    \cup {<<"hist-neighbor", {a.router, d}>> : d \in a.missing}
    \cup {<<"last-known", {a.router, d}>> : d \in a.known}
    \cup {<<"live-route", r>> : r \in a.routed}
    \cup {<<"passive-hint", h.pair>> : h \in {k \in e.hints : a.router \in k.pair}}

router_area_edge_ids(a, e) ==
    {<<"live-neighbor", {a.router, d}>> : d \in a.latest}
    \cup {HistEdge(x) : x \in {y \in e.neighbours :
                                    a.router \in y.key /\ y.key \ {a.router} \subseteq a.missing}}
    \cup {HistRoute(x) : x \in {y \in e.routes : a.router \in RouteEnds(y)
                                                 /\ RouteEnds(y) \ {a.router} \subseteq a.missing}}
    \cup {<<"last-known", {a.router, d}>> : d \in a.known}
    \cup {<<"live-route", r>> : r \in a.routed}
    \cup {<<"passive-hint", h.pair>> :
             h \in {k \in e.hints : a.router \in k.pair /\ k.pair \ {a.router} \subseteq a.passive}}

router_area_score(a, at, now) ==
    5 * Cardinality(a.issues \ {a.router}) + (IF Cardinality(a.classes) > 1 THEN 2 ELSE 0)
    + (IF a.router \in a.issues THEN 5 ELSE 0) + recency_boost(IF a.at = Missing THEN at ELSE a.at, now)

router_review_cards(g, e) ==
    LET at == IF Latest(g.snaps) = {} THEN Missing ELSE Usable(g.snaps)[1].at IN
    {Card("router_neighbourhood_review", a.router, router_area_score(a, at, g.now),
          {a.router} \cup TopOf(a.members, DevicesPerCard - 1,
                                LAMBDA x, y : \/ x \in a.issues /\ y \notin a.issues
                                              \/ (x \in a.issues <=> y \in a.issues) /\ x < y),
          router_area_edge_ids(a, e), IF a.at = Missing THEN at ELSE a.at) :
        a \in {x \in observed_router_areas(e, g.rows) : router_area_qualifies(x)}}

diagnostics_limited_card(g, e) ==
    LET absent == DOMAIN g.rows \ (LinkedIn(e.links) \cup UNION {s.nodes : s \in Latest(g.snaps)}) IN
    IF ~LatestLayout(g.snaps) \/ Cardinality(absent) < LimitedDevices THEN {}
    ELSE {[Card("diagnostics_limited_group", 0, Cardinality(absent), SortedPrefix(absent), {},
                Usable(g.snaps)[1].at) EXCEPT !.priority = "Lower priority"]}

CARD_TYPE_ORDER ==
    <<"issue_cluster", "recent_missing_cluster", "shared_availability_event", "model_pattern_review",
      "passive_instability_group", "router_neighbourhood_review", "diagnostics_limited_group">>
TypeRank(card) == CHOOSE i \in DOMAIN CARD_TYPE_ORDER : CARD_TYPE_ORDER[i] = card.type

CardKey(c) == <<-c.score, IF c.at = Missing THEN 0 ELSE -c.at, TypeRank(c), c.id>>
CardBefore(c, d) == LexLess(CardKey(c), CardKey(d))

\* _tailored_device_evidence: facts about one device, from recorded values only.
tailored_device_evidence(g, e, d) ==
    LET row == g.rows[d]
        lqi == {l.lqi : l \in {k \in RangeOf(e.links) : d \in Ends(k)}} \ {Missing}
        If(cond, fact) == IF cond THEN {<<d, fact>>} ELSE {}
    IN IF d \notin DOMAIN g.rows THEN {}
       ELSE If(row.batt # Missing /\ row.batt <= LOW_BATTERY_PERCENT, "low_battery")
            \cup If(row.availability = "offline", "offline")
            \cup If(Cardinality({i \in DOMAIN g.events : g.events[i].dev = d}) >= 2, "repeated_offline")
            \cup If(LastSeenStale(row, g.now), "quiet")
            \cup If(lqi # {} /\ MaxOf(lqi) < 50, "weak_link")

\* _apply_tailored_evidence: the primary device, then issue devices, three at most.
Tailored(g, e, card) ==
    LET issues == issue_device_ids(g.rows)
        rank(d) == IF card.type = "recent_missing_cluster" /\ d = card.id THEN 0
                   ELSE IF d \in issues THEN 1 ELSE 2
    IN IF card.type \in {"shared_availability_event", "router_neighbourhood_review", "model_pattern_review"}
       THEN {}
       ELSE UNION {tailored_device_evidence(g, e, d) :
                      d \in TopOf(card.devices \cup {x \in {card.id} : rank(x) = 0}, 3,
                                  LAMBDA x, y : rank(x) < rank(y) \/ (rank(x) = rank(y) /\ x < y))}

\* action_group_for_investigation_card (decisions/investigation_action_groups.py)
action_group(card) ==
    CASE card.type = "diagnostics_limited_group" -> "improve_data_coverage"
      [] card.type = "router_neighbourhood_review" -> "review_observed_router_area"
      [] card.type = "model_pattern_review" -> "review_model_pattern"
      [] card.type = "recent_missing_cluster" -> "check_power_reporting"
      [] card.type = "passive_instability_group" /\ card.priority = "Lower priority" -> "watch_only"
      [] OTHER -> "investigate_shared_event"

AllCards(g, e) ==
    issue_cluster_cards(g, e) \cup recent_missing_cluster_cards(g, e)
    \cup shared_availability_event_cards(g) \cup model_pattern_cards(g)
    \cup passive_group_cards(g, e) \cup router_review_cards(g, e)
    \cup diagnostics_limited_card(g, e)

build_investigations(g, e) ==
    LET full(c) == [card |-> c, facts |-> Tailored(g, e, c), group |-> action_group(c)]
        Served(all, top) == [available |-> Cardinality(all), cards |-> [i \in DOMAIN top |-> full(top[i])]]
        Ranked(all) == Served(all, NewestOf(SortedBy(all, CardBefore), CardLimit))
    IN Ranked(AllCards(g, e))

\* EvidenceGraphService.build: the evidence, its counts and the cards.
GraphOf(g, e) ==
    [evidence |-> e, layout |-> LatestLayout(g.snaps), investigations |-> build_investigations(g, e),
     counts |-> [neighbours |-> Cardinality(NeighbourPairs(e.links)),
                 routes |-> Cardinality({i \in DOMAIN e.links : HasRoute(e.links[i])}),
                 missing |-> Cardinality(e.neighbours) + Cardinality(e.routes),
                 lastKnown |-> Cardinality(e.known), hints |-> Cardinality(QualifyingHints(g))]]
evidence_graph(g) == GraphOf(g, EvidenceOf(g))

\* The edges the browser draws of such a graph (apps/ui/src/lib/meshEvidenceLive.ts).
DrawnEdges(e) ==
    {<<"live-neighbor", p>> : p \in NeighbourPairs(e.links)}
    \cup {<<"live-route", r>> : r \in RoutePairs(e.links)}
    \cup {HistEdge(x) : x \in e.neighbours} \cup {HistRoute(x) : x \in e.routes}
    \cup {<<"last-known", x.pair>> : x \in e.known} \cup {<<"passive-hint", h.pair>> : h \in e.hints}

----------------------------------------------------------------------------
\* Drawn hints that hold together: no part of them shares no device with the rest.
Connected(pairs) ==
    \A part \in SUBSET pairs :
       part # {} /\ part # pairs => \E p \in part, q \in pairs \ part : p \cap q # {}

\* What a served graph, the windows of the recorded events and all cards that
\* qualified must have in common.
StandOn(windows, cards, graph) ==
    LET e       == graph.evidence
        kept    == graph.investigations.cards
        card(i) == kept[i].card
        storm   == {w \in windows : Cardinality(w.devices) > StormSize}
        together(p) == {w \in windows : p \subseteq w.devices}
        groups  == {i \in DOMAIN kept : card(i).type = "passive_instability_group"}
        hinted(i) == {x[2] : x \in card(i).edges}
    IN /\ \A i \in DOMAIN kept : card(i).edges \subseteq DrawnEdges(e)
       /\ \A i \in groups : \A h \in e.hints :
             h.pair \cap UNION hinted(i) # {} => h.pair \in hinted(i)
       /\ \A i \in groups : Connected(hinted(i))
       /\ \A h \in e.hints : ~(together(h.pair) \subseteq storm)
       /\ \A i \in DOMAIN kept : i > 1 => card(i).score <= card(i - 1).score
       /\ \A i \in DOMAIN kept, c \in cards :
             (\A j \in DOMAIN kept : card(j) # c) => c.score <= card(i).score
       /\ Len(kept) = MinOf({CardLimit, graph.investigations.available})

(* The cards stand on the graph they are served with: an edge a card names *)
(* is drawn; a group of passive hints is a connected component of the      *)
(* drawn hints, nothing less and nothing more, so no device is in two      *)
(* groups; a pair that went offline together only in network-wide windows  *)
(* is not hinted; and the cards are ranked: no card of the network that is *)
(* left out scores more than one that is served.                           *)
CardsStandOnTheGraph(g) ==
    LET graph == evidence_graph(g) IN
    StandOn(cluster_windows(instability_events(g.events, DOMAIN g.rows)),
            AllCards(g, graph.evidence), graph)
=============================================================================
