------------------------------ MODULE Reports ------------------------------
(***************************************************************************)
(* Reports: what a request is about (report_scope.py) is decided before    *)
(* anything is composed, and the composition (report_composition.py,       *)
(* reports.py) then reads the database again, bit by bit.                  *)
(*                                                                         *)
(* A request is [scope, net, dev, incident], Missing where it says nothing.*)
(* `p` is what the plan's reads returned: nets, devices (keys), incidents  *)
(* [id, nets, devices], its networks and devices being two reads of their  *)
(* own.  `r` is what the later reads returned: as in Payloads, with        *)
(* incidents of every state [.., closed], cards [.., devices] and events,  *)
(* newest first, [net, dev, incident]; and, read after the incidents,      *)
(* refs and touched, the devices and the networks of each by its id.       *)
(* Between any two, an evaluation may have changed an incident, and the    *)
(* retention may have deleted a resolved one.  Redaction and rendering are *)
(* left out.                                                               *)
(***************************************************************************)
EXTENDS Payloads

CONSTANT EventLimit      \* reporting.max_recent_events

ASSUME ReportAssumption == /\ EventLimit \in Nat
                           /\ Missing \notin {"request", "not found", "ambiguous", "raised"}

----------------------------------------------------------------------------
(* report_scope.py *)

Refused(why) == [refused |-> why]
Plan(scope, nets, keys, net, dev, incident) ==
    [refused |-> Missing, scope |-> scope, nets |-> nets, keys |-> keys, net |-> net, dev |-> dev,
     incident |-> incident]

FullPlan(p) == Plan("full", p.nets, {}, Missing, Missing, Missing)

NetworkPlan(q, p) ==
    IF q.net = Missing THEN Refused("request")
    ELSE IF q.net \notin p.nets THEN Refused("not found")
    ELSE Plan("network", {q.net}, {}, q.net, Missing, Missing)

IncidentPlan(q, p) ==
    LET found == {i \in p.incidents : i.id = q.incident} IN
    IF q.incident = Missing THEN Refused("request")
    ELSE IF found = {} THEN Refused("not found")
    ELSE LET i == CHOOSE x \in found : TRUE IN
         Plan("incident", i.nets, i.devices, Missing, Missing, q.incident)

\* Without a network the address must be known on exactly one.
DevicePlan(q, p) ==
    LET matches == {k \in p.devices : k[2] = q.dev /\ q.net \in {Missing, k[1]}} IN
    IF q.dev = Missing THEN Refused("request")
    ELSE IF matches = {} THEN Refused("not found")
    ELSE IF Cardinality(matches) > 1 THEN Refused("ambiguous")
    ELSE LET k == CHOOSE x \in matches : TRUE IN Plan("device", {k[1]}, {k}, k[1], k[2], Missing)

resolve_report_scope_plan(q, p) ==
    CASE q.scope = "full" -> FullPlan(p)
      [] q.scope = "network" -> NetworkPlan(q, p)
      [] q.scope = "incident" -> IncidentPlan(q, p)
      [] q.scope = "device" -> DevicePlan(q, p)

----------------------------------------------------------------------------
(* report_composition.py *)

Target(plan) == <<plan.net, plan.dev>>

\* The raw rows of a scope: devices, and incidents of every state.
DeviceRows(plan, r) ==
    CASE plan.scope = "full" -> r.rows
      [] plan.scope = "network" -> RowsOf(r.rows, plan.net)
      [] OTHER -> {x \in r.rows : Key(x) \in plan.keys}
Selected(plan, r) ==
    CASE plan.scope = "full" -> r.incidents
      [] plan.scope = "network" -> {i \in r.incidents : plan.net \in i.nets}
      [] plan.scope = "incident" -> {i \in r.incidents : i.id = plan.incident}
      [] plan.scope = "device" -> {i \in r.incidents : Target(plan) \in i.devices}

\* A row was selected by the networks and devices the incident had then; the
\* report tells of those it has when they are read.
IncidentRows(plan, r) ==
    {[id |-> i.id, closed |-> i.closed, open |-> i.open, severity |-> i.severity,
      devices |-> r.refs[i.id], nets |-> r.touched[i.id]] : i \in Selected(plan, r)}

_projection_refs_for_scope(plan, i) ==
    CASE plan.scope \in {"full", "incident"} -> i.devices
      [] plan.scope = "network" -> {k \in i.devices : k[1] = plan.net}
      [] plan.scope = "device" -> {k \in i.devices : k = Target(plan)}

_build_scope_active_incident_context(plan, incidents) ==
    IncidentContext({i \in incidents :
        /\ ~i.closed
        /\ plan.scope = "device" => Target(plan) \in i.devices
        /\ plan.scope = "incident" => i.id = plan.incident})

\* _incident_from_row: a device the report has no story of has no decision, and
\* an incident without stored networks has those of its devices.
IncidentItem(plan, r, rows, timeline, i) ==
    LET badges == device_decision_badges_for_devices(rows)
        refs   == _projection_refs_for_scope(plan, i) IN
    [id |-> i.id, nets |-> IF i.nets = {} THEN {k[1] : k \in refs} ELSE i.nets, closed |-> i.closed,
     affected |-> [k \in refs |->
                      IF k \in DOMAIN badges THEN badges[k]
                      ELSE [status |-> "data_unavailable", priority |-> "none"]],
     timeline |-> IF timeline
                  THEN NewestOf(Kept(r.events, {k \in DOMAIN r.events : r.events[k].incident = i.id}),
                                EventLimit)
                  ELSE <<>>]

_filter_investigation_priorities(priorities, plan, affected) ==
    LET Narrowed(p, keep) == [p EXCEPT !.card.devices = {d \in @ : <<p.net, d>> \in keep}]
        Naming(keep) == {p \in {Narrowed(p, keep) : p \in priorities} : p.card.devices # {}} IN
    CASE plan.scope = "full" -> priorities
      [] plan.scope = "network" -> {p \in priorities : p.net = plan.net}
      [] plan.scope = "device" -> Naming({Target(plan)})
      [] plan.scope = "incident" -> Naming(affected)

_filter_coverage_warnings(warnings, plan) ==
    {w \in warnings : plan.scope = "full" \/ w.net \in plan.nets}

\* The report's own timeline.
TimelineOf(plan, r, incidents, timeline) ==
    LET Events(Test(_)) == NewestOf(Kept(r.events, {k \in DOMAIN r.events : Test(r.events[k])}), EventLimit) IN
    IF ~timeline THEN <<>>
    ELSE CASE plan.scope = "full" -> Events(LAMBDA e : TRUE)
           [] plan.scope = "network" -> Events(LAMBDA e : e.net = plan.net)
           [] plan.scope = "device" -> Events(LAMBDA e : <<e.net, e.dev>> = Target(plan))
           [] plan.scope = "incident" -> IF incidents = {} THEN <<>> ELSE (CHOOSE i \in incidents : TRUE).timeline

\* What the overview's priorities and warnings say in the scope.
ScopedFindings(plan, r, incidents, context) ==
    LET all      == compose_dashboard_investigation_priorities(plan.nets, r.cards)
        route    == {p.net : p \in {q \in all : q.card.type = "router_neighbourhood_review"}}
        affected == IF plan.scope = "incident" /\ incidents # {}
                    THEN UNION {DOMAIN i.affected : i \in incidents} ELSE context.affected
    IN [priorities |-> _filter_investigation_priorities(all, plan, affected),
        warnings |-> _filter_coverage_warnings(
                        compose_dashboard_coverage_warnings(plan.nets, r.rows, r.facts, route), plan)]

\* The composition raises for a device on a network the plan does not have.
compose_live_report_scope(plan, r, timeline) ==
    LET rows      == DeviceRows(plan, r)
        history   == IncidentRows(plan, r)
        context   == _build_scope_active_incident_context(plan, history)
        incidents == {IncidentItem(plan, r, rows, timeline, i) : i \in history}
        found     == ScopedFindings(plan, r, incidents, context)
    IN IF ~({x.net : x \in rows} \subseteq plan.nets) THEN Refused("raised")
       ELSE [refused |-> Missing, devices |-> devices(rows, context),
             details |-> IF plan.scope \in {"incident", "device"} THEN {Key(x) : x \in rows} ELSE {},
             incidents |-> incidents, timeline |-> TimelineOf(plan, r, incidents, timeline),
             risks |-> routers(rows, r.risk, context),
             priorities |-> found.priorities, warnings |-> found.warnings,
             badges |-> device_decision_badges_for_devices(rows),
             networks |-> {build_network_summary(n, rows, context, found.priorities, found.warnings) :
                              n \in plan.nets}]

\* project_report_detail and _with_timeline_limit: the counts, and every
\* timeline sealed to the limit once more.
project_report_detail(c, timeline) ==
    LET Cut(t) == NewestOf(t, IF timeline THEN EventLimit ELSE 0) IN
    [refused |-> Missing, devices |-> c.devices, details |-> c.details, risks |-> c.risks,
     priorities |-> c.priorities, warnings |-> c.warnings, networks |-> c.networks,
     timeline |-> Cut(c.timeline), incidents |-> {[i EXCEPT !.timeline = Cut(@)] : i \in c.incidents},
     summary |-> decision_count_summary_from_badges(c.badges, Cardinality(c.warnings)),
     counts |-> [events |-> Len(Cut(c.timeline)), devices |-> Len(c.devices),
                 incidents |-> Cardinality(c.incidents)]]

----------------------------------------------------------------------------
(* reports.py; the routes turn a refused plan into 422 or 404. *)

generate_report(q, p, r, timeline) ==
    LET plan == resolve_report_scope_plan(q, p) IN
    IF plan.refused # Missing THEN plan
    ELSE LET c == compose_live_report_scope(plan, r, timeline) IN
         IF c.refused # Missing THEN c ELSE project_report_detail(c, timeline)

----------------------------------------------------------------------------
Shown(report) == {report.devices[i] : i \in DOMAIN report.devices}

\* Whether a request may be refused so.
RightlyRefused(why, q, p) ==
    LET Named(k) == k[2] = q.dev /\ q.net \in {Missing, k[1]}
        torn(i) == \E k \in i.devices : k[1] \notin i.nets IN
    \/ /\ why = "request"
       /\ Missing = CASE q.scope = "network" -> q.net [] q.scope = "incident" -> q.incident
                      [] q.scope = "device" -> q.dev
       /\ q.scope # "full"
    \/ /\ why = "not found"
       /\ \/ q.scope = "network" /\ q.net \notin p.nets
          \/ q.scope = "incident" /\ \A i \in p.incidents : i.id # q.incident
          \/ q.scope = "device" /\ \A k \in p.devices : ~Named(k)
    \/ /\ why = "ambiguous" /\ q.scope = "device" /\ q.net = Missing
       /\ \E k, l \in p.devices : k # l /\ Named(k) /\ Named(l)
    \/ /\ why = "raised" /\ q.scope = "incident"
       /\ \E i \in p.incidents : i.id = q.incident /\ torn(i)

\* The incidents did not change between the later reads.
Calm(r) == \A i \in r.incidents : r.refs[i.id] = i.devices /\ r.touched[i.id] = i.nets

\* What report rep of a scope has of the full report of the same reads.
LeavesOutNothing(r, plan, rep, full) ==
    LET InScope(k) == k[1] \in plan.nets /\ (plan.scope = "device" => k = Target(plan))
        Ids(incidents) == {i.id : i \in incidents}
        Keys(devs) == {d.key : d \in devs}
        Concerns(i) == CASE plan.scope = "full" -> TRUE
                         [] plan.scope = "network" -> plan.net \in i.nets
                         [] plan.scope = "device" -> Target(plan) \in DOMAIN i.affected
    IN IF plan.scope = "incident"
       THEN Ids(rep.incidents) = Ids(full.incidents) \cap {plan.incident}
       ELSE /\ Keys(Shown(rep)) = {k \in Keys(Shown(full)) : InScope(k)}
            /\ Keys(rep.risks) = {k \in Keys(full.risks) : InScope(k)}
            /\ \A w \in full.warnings : w.net \in plan.nets => \E v \in rep.warnings : v.net = w.net
            /\ \A x \in full.priorities :
                  x.net \in plan.nets /\ (plan.scope = "device" => plan.dev \in x.card.devices) =>
                     \E y \in rep.priorities : y.net = x.net /\ y.card.id = x.card.id
            /\ Calm(r) => Ids(rep.incidents) = Ids({i \in full.incidents : Concerns(i)})

\* What report rep, made along plan, must say next to the full report.
KeepsTo(q, p, r, timeline, plan, rep, full) ==
    LET InScope(k) == k[1] \in plan.nets /\ (plan.scope = "device" => k = Target(plan))
        Listed(n) == {i \in rep.incidents : /\ ~i.closed /\ n \in i.nets
                                            /\ plan.scope = "device" => DOMAIN i.affected # {}}
        Bounded(t) == Len(t) <= EventLimit /\ (~timeline => t = <<>>)
    IN IF rep.refused # Missing THEN RightlyRefused(rep.refused, q, p)
       ELSE
          /\ \A d \in Shown(rep) : InScope(d.key)
          /\ \A x \in rep.priorities : /\ x.net \in plan.nets
                                       /\ plan.scope = "device" => x.card.devices = {plan.dev}
                                       /\ plan.scope = "incident" => \E i \in rep.incidents :
                                             \A d \in x.card.devices : <<x.net, d>> \in DOMAIN i.affected
          /\ \A w \in rep.warnings : w.net \in plan.nets
          /\ \A e \in ToSet(rep.timeline) :
                IF plan.scope = "incident" THEN e.incident = q.incident ELSE InScope(<<e.net, e.dev>>)
          /\ \A i \in rep.incidents : plan.scope # "incident" => \A k \in DOMAIN i.affected : InScope(k)
          /\ \A n \in rep.networks :
                /\ n.incidents = Cardinality(Listed(n.id)) /\ (n.severity # Missing <=> n.incidents > 0)
                /\ \A d \in Shown(rep) : d.key[1] = n.id =>
                      AtLeast(DECISION_STATUS_ORDER, n.decision.status, d.decision.status)
          /\ \A d \in Shown(rep) :
                /\ d.affected <=> \E i \in rep.incidents : ~i.closed /\ d.key \in DOMAIN i.affected
                /\ \A i \in rep.incidents : d.key \in DOMAIN i.affected => i.affected[d.key] = d.decision
          /\ validate_decision_count_summary(rep.summary)
          /\ full.refused = Missing /\ LeavesOutNothing(r, plan, rep, full)
          /\ rep.counts.events = Len(rep.timeline) /\ rep.summary.subjects = rep.counts.devices
          /\ Bounded(rep.timeline) /\ \A i \in rep.incidents : Bounded(i.timeline)

(* A report keeps to what was asked, and agrees with itself, even when an  *)
(* incident changes between any two of its reads:                          *)
(*  - every device, priority, warning and event it names is in its scope,  *)
(*    and so is every device its incidents name, unless the incident       *)
(*    itself was asked for;                                                *)
(*  - a network counts exactly the listed incidents that are still active  *)
(*    and touch it (in a device's report: and still name the device), and  *)
(*    is not shown calmer than one of its devices;                         *)
(*  - a device is marked affected exactly when a listed active incident    *)
(*    names it, and an incident gives it the decision the report gives;    *)
(*  - of a network or a device it has every device, router at risk and     *)
(*    priority that the full report of the same reads has there, a warning *)
(*    where that has one, and, if no incident changed between the later    *)
(*    reads, exactly its incidents; of an incident it has that incident;   *)
(*  - timelines are there only when asked for, and bounded;                *)
(* and a request is refused only when it names no target, when the target  *)
(* is not there, when a device asked for without its network is known on   *)
(* two, or when the plan of an incident was torn: it read devices on       *)
(* networks it had not read.                                               *)
KeepsToItsScope(q, p, r, timeline) ==
    KeepsTo(q, p, r, timeline, resolve_report_scope_plan(q, p), generate_report(q, p, r, timeline),
            generate_report([q EXCEPT !.scope = "full"], p, r, timeline))
=============================================================================
