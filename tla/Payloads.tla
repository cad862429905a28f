------------------------------ MODULE Payloads ------------------------------
(***************************************************************************)
(* What Core serves and what Home Assistant accepts: the dashboard and the *)
(* network pages (services/payload_builder.py, network_decision.py,        *)
(* dashboard_*.py, empty_state.py) and the integration's check of a        *)
(* dashboard (compatibility.py).                                           *)
(*                                                                         *)
(* A page is composed from separate reads of a changing database.  `r`     *)
(* holds what each read returned, in the order the code reads:             *)
(*   rows      devices [net, ieee, type, availability, seen, lqi, text,    *)
(*             badge]                                                      *)
(*   risk      the devices whose health has the router-risk flag           *)
(*   nets      networks, configured the networks of the configuration      *)
(*   unnamed   the networks whose configured name is only blanks           *)
(*   incidents active incidents [id, nets, open, severity, devices]        *)
(*   cards     network -> investigation cards [id, type, priority, score,  *)
(*             at, text]                                                   *)
(*   facts     network -> [facts, tracking, areas] behind its coverage     *)
(* and collected, whether any data was there at all.                       *)
(* seen and lqi are what the device's own payload said: seen "zoned" for   *)
(* an ISO time with a zone and "raw" for anything else, lqi any integer.   *)
(* text is "formed" where Home Assistant takes the addresses and names as  *)
(* they are and "odd" where it does not; Core stores any.  Counts are of   *)
(* sets; titles and wording are left out.                                  *)
(***************************************************************************)
EXTENDS TopologyEvidence

CONSTANTS PriorityLimit,   \* MAX_OVERVIEW_INVESTIGATION_PRIORITIES
          WarningLimit     \* MAX_OVERVIEW_COVERAGE_WARNINGS

ASSUME OverviewAssumption == PriorityLimit \in Nat /\ WarningLimit \in Nat
ASSUME TextAssumption == Missing \notin {"raw", "zoned", "critical", "incident", "watch"}

Diag == INSTANCE Diagnosis WITH NoTime <- Missing

Key(row) == <<row.net, row.ieee>>
RowsOf(rows, n) == {x \in rows : x.net = n}
Unavailable(rows) == Cardinality({x \in rows : x.availability = "offline"})

\* The badge of a row is what its Device Story says (DeviceStory).
device_decision_badges_for_devices(rows) ==
    [k \in {Key(x) : x \in rows} |-> (CHOOSE x \in rows : Key(x) = k).badge]

----------------------------------------------------------------------------
(* build_active_incident_read_context *)

IncidentContext(incidents) ==
    [affected |-> UNION {i.devices : i \in incidents},
     ids |-> [k \in UNION {i.devices : i \in incidents} |-> {i.id : i \in {j \in incidents : k \in j.devices}}],
     count |-> [n \in UNION {i.nets : i \in incidents} |-> Cardinality({i \in incidents : n \in i.nets})],
     severity |-> Diag!active_severity_by_network_id(incidents, UNION {i.nets : i \in incidents}),
     open |-> Cardinality({i \in incidents : i.open}), watching |-> Cardinality({i \in incidents : ~i.open})]

CountOf(f, k) == IF k \in DOMAIN f THEN f[k] ELSE 0

----------------------------------------------------------------------------
(* dashboard_investigation_priorities.py, topology_coverage.py and         *)
(* dashboard_coverage_warnings.py: flatten over the networks, sort, cut.   *)

compose_dashboard_investigation_priorities(nets, cards) ==
    LET all == UNION {{[net |-> n, card |-> c] : c \in cards[n]} : n \in nets}
        key(x) == <<x.card.score, IF x.card.at = Missing THEN -1 ELSE x.card.at, x.net, x.card.id>>
    IN TopOf(all, PriorityLimit, LAMBDA x, y : LexLess(key(y), key(x)))

build_network_topology_coverage(f, known) ==
    (IF f.tracking THEN {} ELSE {"availability_tracking_off"})
    \cup (IF "latest_snapshot_stale" \in f.facts THEN {"snapshot_stale"} ELSE {})
    \cup (IF "route_hints_unavailable" \in f.facts THEN {"route_hints_unavailable"} ELSE {})
    \cup (IF known /\ ~f.areas THEN {"ha_areas_not_linked"} ELSE {})

\* The allowed labels, worst state first.
WarningOrder == <<"availability_tracking_off", "snapshot_stale", "route_hints_unavailable">>
WarningRank(l) == CHOOSE i \in DOMAIN WarningOrder : WarningOrder[i] = l

compose_dashboard_coverage_warnings(nets, rows, facts, routeRelevant) ==
    LET labels(n) == build_network_topology_coverage(facts[n], RowsOf(rows, n) # {}) \cap ToSet(WarningOrder)
        shown(n)  == IF n \in routeRelevant THEN labels(n) ELSE labels(n) \ {"route_hints_unavailable"}
        all       == UNION {{[net |-> n, label |-> l] : l \in shown(n)} : n \in nets}
    IN TopOf(all, WarningLimit,
             LAMBDA x, y : LexLess(<<WarningRank(x.label), x.net>>, <<WarningRank(y.label), y.net>>))

----------------------------------------------------------------------------
(* network_decision.py *)

\* A bug that replaces the status by what the network signals.
Mut_compose_network_decision(summary, warnings, incident, reviewFirst) ==
    [status |-> IF reviewFirst THEN "review_first" ELSE IF incident THEN "worth_reviewing"
                ELSE IF warnings > 0 THEN "improve_data_coverage" ELSE summary.overall,
     priority |-> IF reviewFirst THEN "high" ELSE IF incident THEN "medium" ELSE summary.highest]

\* The pure fold of the devices' badges is kept; only the network's own badge
\* is promoted.
compose_network_decision(summary, warnings, incident, reviewFirst) ==
    LET signals == (IF incident THEN {<<"worth_reviewing", "medium">>} ELSE {})
                   \cup (IF reviewFirst THEN {<<"review_first", "high">>} ELSE {})
                   \cup (IF warnings > 0 THEN {<<"improve_data_coverage", "low">>} ELSE {})
    IN [status |-> FirstOf(DECISION_STATUS_ORDER, {summary.overall} \cup {s[1] : s \in signals}),
        priority |-> FirstOf(DECISION_PRIORITY_ORDER, {summary.highest} \cup {s[2] : s \in signals})]

compose_network_summary(n, mine, count, severity, warned, priorities) ==
    LET summary == decision_count_summary_from_badges(device_decision_badges_for_devices(mine), warned)
    IN [id |-> n, devices |-> Cardinality(mine), unavailable |-> Unavailable(mine),
        routers |-> Cardinality({x \in mine : x.type = "Router"}), incidents |-> count,
        severity |-> severity, summary |-> summary,
        decision |-> compose_network_decision(summary, warned, count > 0,
                        \E p \in priorities : p.net = n /\ p.card.priority = "Review first")]

\* build_network_summary: a severity only where an active incident is counted.
build_network_summary(n, rows, context, priorities, warnings) ==
    LET count == CountOf(context.count, n)
    IN compose_network_summary(n, RowsOf(rows, n), count,
           IF count = 0 THEN Missing ELSE context.severity[n],
           Cardinality({w \in warnings : w.net = n}), priorities)

----------------------------------------------------------------------------
(* payload_builder.py *)

\* _network_summaries_with_decisions: what the pages of the given networks show.
NetworkSummaries(r, nets, rows) ==
    LET priorities == compose_dashboard_investigation_priorities(nets, r.cards)
        warnings   == compose_dashboard_coverage_warnings(nets, rows, r.facts,
                         {p.net : p \in {q \in priorities : q.card.type = "router_neighbourhood_review"}})
    IN [priorities |-> priorities, warnings |-> warnings,
        networks |-> {build_network_summary(n, rows, IncidentContext(r.incidents), priorities, warnings) :
                         n \in nets}]

\* networks() and network(id)
networks(r) == NetworkSummaries(r, r.nets, r.rows).networks
network(r, n) == CHOOSE s \in NetworkSummaries(r, {n}, RowsOf(r.rows, n)).networks : TRUE

KNOWN_AVAILABILITIES == {"online", "offline", "unknown"}

\* routers(): routers at risk, with the number of active incidents that name them.
routers(rows, risk, context) ==
    {[key |-> Key(x), text |-> x.text, seen |-> x.seen, linkquality |-> x.lqi,
      availability |-> IF x.availability \in KNOWN_AVAILABILITIES THEN x.availability ELSE "unknown",
      correlated |-> Cardinality(
          IF Key(x) \in DOMAIN context.ids THEN context.ids[Key(x)] ELSE {})] :
        x \in {y \in rows : y.type = "Router" /\ Key(y) \in risk}}

device_summary(row, context) ==
    [key |-> Key(row), availability |-> row.availability, decision |-> row.badge,
     affected |-> Key(row) \in context.affected]

\* devices() and _devices_from_rows: the most urgent first, then by identity.
devices(rows, context) ==
    LET Rank(d) == CHOOSE i \in DOMAIN DECISION_STATUS_ORDER : DECISION_STATUS_ORDER[i] = d.decision.status
        Sort(d) == <<Rank(d), d.key[1], d.key[2]>>
    IN SortedBy({device_summary(x, context) : x \in rows}, LAMBDA d, e : LexLess(Sort(d), Sort(e)))

EmptySummary == decision_count_summary_from_badges(<<>>, 0)

\* The configured networks stand in for a table that is still empty.
NetworksKnown(r) == IF r.nets = {} THEN r.configured ELSE r.nets

build_empty_dashboard(nets, unnamed) ==
    [collected |-> FALSE, active |-> 0, watching |-> 0, network_count |-> Cardinality(nets), device_count |-> 0,
     unnamed |-> unnamed,
     unavailable |-> 0, risks |-> {}, summary |-> EmptySummary, priorities |-> {}, warnings |-> {},
     devices |-> <<>>,
     networks |-> {[id |-> n, devices |-> 0, unavailable |-> 0, routers |-> 0, incidents |-> 0,
                    severity |-> Missing, summary |-> EmptySummary,
                    decision |-> [status |-> "data_unavailable", priority |-> "none"]] : n \in nets}]

dashboard(r) ==
    LET context == IncidentContext(r.incidents)
        page    == NetworkSummaries(r, r.nets, r.rows)
    IN IF ~r.collected THEN build_empty_dashboard(NetworksKnown(r), r.unnamed)
       ELSE [collected |-> TRUE, unnamed |-> r.unnamed, active |-> context.open, watching |-> context.watching,
             network_count |-> Cardinality(page.networks), device_count |-> Cardinality(r.rows),
             unavailable |-> Unavailable(r.rows), networks |-> page.networks,
             devices |-> devices(r.rows, context),
             risks |-> routers(r.rows, r.risk, context),
             summary |-> decision_count_summary_from_badges(
                            device_decision_badges_for_devices(r.rows), Cardinality(page.warnings)),
             priorities |-> page.priorities, warnings |-> page.warnings]

----------------------------------------------------------------------------
(* compatibility.py of the integration *)

validate_decision_count_summary(s) ==
    /\ s.overall \in ToSet(DECISION_STATUS_ORDER) /\ s.highest \in ToSet(DECISION_PRIORITY_ORDER)
    /\ DOMAIN s.statuses \subseteq ToSet(DECISION_STATUS_ORDER)
    /\ DOMAIN s.priorities \subseteq ToSet(DECISION_PRIORITY_ORDER)
    /\ IF s.subjects = 0
       THEN s.statuses = <<>> /\ s.priorities = <<>> /\ s.overall = "data_unavailable" /\ s.highest = "none"
       ELSE /\ SumOfCounts(s.statuses) = s.subjects /\ SumOfCounts(s.priorities) = s.subjects
            /\ s.overall = FirstOf(DECISION_STATUS_ORDER, {k \in DOMAIN s.statuses : s.statuses[k] > 0})
            /\ s.highest = FirstOf(DECISION_PRIORITY_ORDER, {k \in DOMAIN s.priorities : s.priorities[k] > 0})

validate_decision_badge(b) ==
    b.status \in ToSet(DECISION_STATUS_ORDER) /\ b.priority \in ToSet(DECISION_PRIORITY_ORDER)

\* The IEEE address and the name of a router, and the numbers and the time
\* its device sent, are as Home Assistant counts on.
validate_router_risks(risks) ==
    \A x \in risks : /\ x.text = "formed" /\ x.availability \in KNOWN_AVAILABILITIES
                     /\ x.correlated \in Nat
                     /\ x.linkquality = Missing \/ x.linkquality >= 0
                     /\ x.seen \in {Missing, "zoned"}

\* The time of the evidence is of Core's own clock.
validate_investigation_priorities(priorities) ==
    \A p \in priorities : p.card.text = "formed" /\ p.card.score \in Int

validate_data_coverage_warnings(warnings) == \A w \in warnings : w.label \in ToSet(WarningOrder)

validate_network_decision_badges(shown, unnamed) ==
    \A n \in shown : /\ n.id \notin unnamed
                     /\ validate_decision_badge(n.decision) /\ validate_decision_count_summary(n.summary)
                     /\ {n.devices, n.unavailable, n.incidents} \subseteq Nat

dashboard_decision_payload_valid(d) ==
    /\ validate_investigation_priorities(d.priorities) /\ validate_data_coverage_warnings(d.warnings)
    /\ validate_decision_count_summary(d.summary) /\ validate_router_risks(d.risks)
    /\ {d.active, d.watching, d.network_count, d.device_count, d.unavailable} \subseteq Nat
    /\ validate_network_decision_badges(d.networks, d.unnamed)
    /\ d.network_count = Cardinality(d.networks)

\* The answer is a set of at most one dashboard.
classify_decision_payload(answer) ==
    IF answer = {} THEN "missing"
    ELSE IF \A d \in answer : dashboard_decision_payload_valid(d) THEN "valid" ELSE "malformed"

----------------------------------------------------------------------------
AtLeast(order, a, b) == FirstOf(order, {a, b}) = a

\* What Core stores as it was sent, and Home Assistant refuses.
WellFormed(x) == x.text = "formed" /\ x.seen # "raw" /\ (x.linkquality = Missing \/ x.linkquality >= 0)

\* What a dashboard d composed from the reads r must say.
AddsUp(r, d) ==
    LET Total(f(_)) == SumOfCounts([n \in d.networks |-> f(n)])
        AsUrgent(n, s, p) ==
            /\ AtLeast(DECISION_STATUS_ORDER, n.decision.status, s)
            /\ AtLeast(DECISION_PRIORITY_ORDER, n.decision.priority, p)
    IN /\ d.device_count = Total(LAMBDA n : n.devices)
       /\ d.unavailable = Total(LAMBDA n : n.unavailable)
       /\ d.summary.subjects = Total(LAMBDA n : n.summary.subjects)
       /\ d.summary.warnings = Total(LAMBDA n : n.summary.warnings)
       /\ d.collected => d.active + d.watching = Cardinality(r.incidents)
       /\ \A n \in d.networks :
             /\ n.severity # Missing <=> n.incidents > 0
             /\ n.incidents > 0 => AsUrgent(n, "worth_reviewing", "medium")
             /\ d.collected => /\ \A x \in RowsOf(r.rows, n.id) : AsUrgent(n, x.badge.status, x.badge.priority)
                               /\ LET own == network(r, n.id) IN
                                  AsUrgent(own, n.decision.status, n.decision.priority)
       /\ classify_decision_payload({d}) = "valid" <=>
             /\ \A x \in d.risks : WellFormed(x)
             /\ \A p \in d.priorities : p.card.text = "formed"
             /\ \A n \in d.networks : n.id \notin r.unnamed

(* A dashboard composed while the database changes under its reads is one  *)
(* statement all the same: the networks' devices, offline devices and      *)
(* decisions add up to the totals; a network is never shown calmer than    *)
(* one of its devices, nor than an active incident it counts; a severity   *)
(* is shown exactly where incidents are counted; what is cut from the      *)
(* overview's short lists makes the page of a network more urgent than the *)
(* overview, never calmer; and nothing Core computes makes Home Assistant  *)
(* refuse the dashboard, only what it passes on as it came: a router at    *)
(* risk with an odd address or name, a last_seen without a zone or a       *)
(* negative link quality, a finding on an address of blanks, a network     *)
(* with a name of blanks.                                                  *)
OneStatement(r) == AddsUp(r, dashboard(r))
=============================================================================
