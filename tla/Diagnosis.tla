------------------------------ MODULE Diagnosis ------------------------------
(***************************************************************************)
(* The rules that turn stored facts into health and incidents:             *)
(* diagnostics/device_health.py, bridge_health.py, network_health.py,      *)
(* incidents/correlator.py and the read model of incidents/service.py.     *)
(* The modules EvaluationPipeline and IncidentLifecycle say when these     *)
(* rules run and what becomes of their result; here is what they compute.  *)
(*                                                                         *)
(* Data: a timestamp is the age it has at the evaluation (hours for        *)
(* devices, minutes for bridges) or NoTime; evidence, summaries and titles *)
(* are left out, the sets of affected devices and networks are kept.       *)
(***************************************************************************)
EXTENDS Integers, FiniteSets

CONSTANT NoTime    \* a timestamp, linkquality or battery that is not stored

----------------------------------------------------------------------------
(* classify_device.  cfg is DiagnosticsConfig. *)

Defaults == [weak |-> 40, low |-> 20, flapping |-> 3, mains |-> 12, battery |-> 48,
             other |-> 24, bridge |-> 10, wideMin |-> 3, widePercent |-> 60,
             correlated |-> 2, staleMin |-> 3, lowMin |-> 3, interviewMin |-> 2]

StaleThreshold(d, cfg) ==
    IF d.type = "Router" \/ d.power = "Mains" THEN cfg.mains
    ELSE IF d.power = "Battery" THEN cfg.battery
    ELSE cfg.other

check_unavailable(d) == d.availability = "offline"
check_unstable(d, cfg) == d.changes >= cfg.flapping
check_interview(d) == d.interview \in {"failed", "in_progress"}
check_stale(d, cfg) ==
    LET age == IF d.payload # NoTime THEN d.payload ELSE d.seen IN
    age # NoTime /\ age > StaleThreshold(d, cfg)
check_weak_link(d, cfg) == d.lqi # NoTime /\ d.lqi <= cfg.weak
check_low_battery(d, cfg) == d.batt # NoTime /\ d.batt <= cfg.low

\* The issues a device has, in the words of HealthFlag.
Issues(d, cfg) ==
    {f \in {"unavailable", "recently_unstable", "interview_issue", "stale_reporting",
            "weak_link", "low_battery"} :
        \/ f = "unavailable" /\ check_unavailable(d)
        \/ f = "recently_unstable" /\ check_unstable(d, cfg)
        \/ f = "interview_issue" /\ check_interview(d)
        \/ f = "stale_reporting" /\ check_stale(d, cfg)
        \/ f = "weak_link" /\ check_weak_link(d, cfg)
        \/ f = "low_battery" /\ check_low_battery(d, cfg)}

\* Interview trouble is no risk of a router.
check_router_risk(d, issues) == d.type = "Router" /\ issues \ {"interview_issue"} # {}
check_healthy(d, issues) ==
    issues = {} /\ (d.payload # NoTime \/ d.seen # NoTime \/ d.availability = "online")

\* _choose_primary
Primary(d, issues) ==
    IF "unavailable" \in issues THEN "unavailable"
    ELSE IF check_router_risk(d, issues) /\ "recently_unstable" \in issues THEN "router_risk"
    ELSE IF "recently_unstable" \in issues THEN "recently_unstable"
    ELSE IF "interview_issue" \in issues THEN "interview_issue"
    ELSE IF "stale_reporting" \in issues THEN "stale_reporting"
    ELSE IF "weak_link" \in issues THEN "weak_link"
    ELSE IF "low_battery" \in issues THEN "low_battery"
    ELSE IF check_healthy(d, issues) THEN "healthy"
    ELSE "unknown"

severity_for_primary(primary, flags, d) ==
    CASE primary = "unavailable" -> "incident"
      [] primary = "router_risk" /\ d.availability = "offline" -> "incident"
      [] primary = "healthy" -> "ok"
      [] primary = "unknown" -> "unknown"
      [] primary = "stale_reporting" /\ "unavailable" \in flags -> "incident"
      [] OTHER -> "watch"

confidence_for_primary(primary, d) ==
    CASE primary \in {"unavailable", "low_battery"} -> "high"
      [] primary = "healthy" -> IF d.availability = "unknown" THEN "medium" ELSE "high"
      [] primary = "unknown" -> "low"
      [] primary = "recently_unstable" /\ d.changes >= 5 -> "high"
      [] OTHER -> "medium"

classify_device(d, cfg) ==
    LET issues  == Issues(d, cfg)
        primary == Primary(d, issues)
        flags   == issues \cup {f \in {"router_risk"} : check_router_risk(d, issues)}
                          \cup {f \in {"healthy"} : check_healthy(d, issues)}
                          \cup {f \in {"unknown"} : primary = "unknown"}
    IN [primary |-> primary, flags |-> flags,
        severity |-> severity_for_primary(primary, flags, d),
        confidence |-> confidence_for_primary(primary, d)]

----------------------------------------------------------------------------
(* classify_bridge and classify_network.  A network is a record            *)
(* [bridge, updated, activity, devices, recent]: devices maps addresses to *)
(* rows and recent are the addresses that went offline within the window.  *)

IsStale(age, cfg) == age # NoTime /\ age > cfg.bridge

classify_bridge(n, cfg) ==
    IF n.bridge = "offline" THEN "offline"
    ELSE IF n.bridge # "online" THEN "unknown"
    ELSE IF IsStale(n.updated, cfg) /\ ~(n.activity # NoTime /\ ~IsStale(n.activity, cfg)) THEN "stale"
    ELSE "online"

Health(n, cfg) == [a \in DOMAIN n.devices |-> classify_device(n.devices[a], cfg)]
Flagged(n, cfg, f) == {a \in DOMAIN n.devices : f \in Health(n, cfg)[a].flags}

classify_network(n, cfg) ==
    IF classify_bridge(n, cfg) = "offline" THEN "incident"
    ELSE IF Flagged(n, cfg, "unavailable") # {} THEN "incident"
    ELSE IF \E f \in {"recently_unstable", "router_risk", "weak_link", "stale_reporting",
                      "low_battery"} : Flagged(n, cfg, f) # {} THEN "watch"
    ELSE IF DOMAIN n.devices = {} \/ classify_bridge(n, cfg) = "unknown" THEN "unknown"
    ELSE "ok"

----------------------------------------------------------------------------
(* IncidentCorrelationEngine.  ns maps network ids to networks.            *)

INCIDENT_PRIORITY ==
    [bridge_offline |-> 1, multi_network_instability |-> 2, network_wide_instability |-> 3,
     correlated_device_unavailability |-> 4, single_device_unavailable |-> 5,
     router_risk |-> 6, stale_reporting_cluster |-> 7, interview_failure |-> 8,
     low_battery_cluster |-> 9, unknown_pattern |-> 10]

Candidate(type, nets, devices, severity) ==
    [type |-> type, nets |-> nets, devices |-> devices, severity |-> severity]

\* incident_identity_key: a device is named only where the type says so.
incident_identity_key(c) ==
    <<c.type, c.nets, IF c.type \in {"single_device_unavailable", "router_risk"}
                      THEN c.devices ELSE {}>>

Offline(n) == {a \in DOMAIN n.devices : n.devices[a].availability = "offline"}

Mut_offline_cluster(n) == n.recent

\* _offline_cluster: went offline within the window, and still is.
offline_cluster(n) == n.recent \cap Offline(n)

bridge_offline_rules(ns, cfg) ==
    {Candidate("bridge_offline", {i}, {},
               IF classify_bridge(ns[i], cfg) = "offline" THEN "critical" ELSE "watch") :
        i \in {j \in DOMAIN ns : classify_bridge(ns[j], cfg) \in {"offline", "stale"}}}

multi_network_rules(ns, cfg) ==
    LET affected == {i \in DOMAIN ns :
                        \/ ns[i].bridge = "offline"
                        \/ Cardinality(offline_cluster(ns[i])) >= cfg.correlated
                        \/ Cardinality(Offline(ns[i])) >= cfg.wideMin} IN
    {c \in {Candidate("multi_network_instability", affected, {}, "incident")} :
        Cardinality(affected) >= 2}

\* int((unavailable / total) * 100) >= network_wide_device_percent, in floating
\* point.  At the default 60 percent that is the exact comparison; at other
\* configured values an exact share may fall one short (29 of 50 at 58).
WideByShare(n, cfg) ==
    LET total == Cardinality(DOMAIN n.devices) IN
    /\ total >= cfg.wideMin
    /\ (100 * Cardinality(Offline(n))) \div total >= cfg.widePercent

NetworkWide(n, cfg) == Cardinality(Offline(n)) >= cfg.wideMin \/ WideByShare(n, cfg)

network_unavailability_rules(i, n, cfg) ==
    LET cluster == offline_cluster(n) IN
    IF classify_bridge(n, cfg) = "offline" THEN {}
    ELSE IF NetworkWide(n, cfg) THEN
               {Candidate("network_wide_instability", {i},
                          {i} \X (IF cluster # {} THEN cluster ELSE Offline(n)), "incident")}
    ELSE IF Cardinality(cluster) >= cfg.correlated THEN
               {Candidate("correlated_device_unavailability", {i}, {i} \X cluster, "incident")}
    ELSE IF Cardinality(Offline(n)) = 1 THEN
               {Candidate("single_device_unavailable", {i}, {i} \X Offline(n), "incident")}
    ELSE {}

router_risk_rules(i, n, cfg) ==
    {Candidate("router_risk", {i}, {<<i, a>>},
               IF a \in Flagged(n, cfg, "unavailable") THEN "incident" ELSE "watch") :
        a \in {b \in Flagged(n, cfg, "router_risk") : n.bridge # "offline"}}

cluster_rules(i, n, cfg) ==
    LET stale  == Flagged(n, cfg, "stale_reporting")
        low    == Flagged(n, cfg, "low_battery")
        int    == Flagged(n, cfg, "interview_issue")
        failed == {a \in int : n.devices[a].interview = "failed"}
        When(cond, type, devices, severity) ==
            {c \in {Candidate(type, {i}, {i} \X devices, severity)} : cond}
    IN {c \in When(Cardinality(stale) >= cfg.staleMin, "stale_reporting_cluster", stale, "watch")
              \cup When(Cardinality(low) >= cfg.lowMin, "low_battery_cluster", low, "watch")
              \cup When(\/ Cardinality(int) >= cfg.interviewMin
                        \/ Cardinality(int) = 1 /\ failed # {},
                        "interview_failure", int, IF failed # {} THEN "incident" ELSE "watch") :
        n.bridge # "offline"}

\* Devices the inventory names and nothing was ever heard of; the code lists
\* the first five of them.
unknown_rules(i, n, cfg) ==
    LET ambiguous == {a \in DOMAIN n.devices : /\ Health(n, cfg)[a].primary = "unknown"
                                               /\ n.devices[a].availability = "unknown"
                                               /\ n.devices[a].payload = NoTime} IN
    {c \in {Candidate("unknown_pattern", {i}, {i} \X ambiguous, "watch")} :
        Cardinality(ambiguous) >= 2}

\* _apply_priority.  The loop adds a network to suppressed_networks, or the
\* devices of an unavailability to explained_devices, before it meets a
\* candidate of a later priority; two candidates of one priority never share
\* a network and a device.
apply_priority(raw) ==
    LET suppressed == UNION {c.nets : c \in {x \in raw : x.type = "bridge_offline"}}
        kept       == {c \in raw : \/ c.type \in {"bridge_offline", "multi_network_instability"}
                                   \/ c.nets \cap suppressed = {}}
        Explained(c) == UNION {x.devices : x \in {y \in kept :
                           /\ y.type \in {"network_wide_instability", "single_device_unavailable",
                                          "correlated_device_unavailability"}
                           /\ INCIDENT_PRIORITY[y.type] < INCIDENT_PRIORITY[c.type]}}
    IN {c \in kept : \/ c.devices = {} \/ ~(c.devices \subseteq Explained(c))
                     \/ c.type \in {"router_risk", "stale_reporting_cluster",
                                    "low_battery_cluster", "interview_failure"}}

correlate(ns, cfg) ==
    apply_priority(
        bridge_offline_rules(ns, cfg) \cup multi_network_rules(ns, cfg)
        \cup UNION {network_unavailability_rules(i, ns[i], cfg)
                    \cup router_risk_rules(i, ns[i], cfg)
                    \cup cluster_rules(i, ns[i], cfg)
                    \cup unknown_rules(i, ns[i], cfg) : i \in DOMAIN ns})

----------------------------------------------------------------------------
(* The read model of the stored incidents: rows [open, severity, nets].    *)

SeverityRank(s) == CASE s = "critical" -> 0 [] s = "incident" -> 1 [] s = "watch" -> 2 [] OTHER -> 3
Rank(row) == 10 * (IF row.open THEN 0 ELSE 1) + SeverityRank(row.severity)

\* pick_active_incident_severity and current_finding
pick_active(rows) == CHOOSE r \in rows : \A q \in rows : Rank(r) <= Rank(q)
active_severity_by_network_id(rows, nets) ==
    [i \in {j \in nets : \E r \in rows : j \in r.nets} |->
        pick_active({r \in rows : i \in r.nets}).severity]

----------------------------------------------------------------------------
(* Properties *)

\* The issue an incident names its devices for
TroubleOf == [network_wide_instability |-> "unavailable",
              correlated_device_unavailability |-> "unavailable",
              single_device_unavailable |-> "unavailable", router_risk |-> "router_risk",
              stale_reporting_cluster |-> "stale_reporting", interview_failure |-> "interview_issue",
              low_battery_cluster |-> "low_battery", unknown_pattern |-> "unknown"]

\* What correlate() selects rests on the same rows the health was computed
\* from: no two incidents have one identity (the lifecycle manager would drop
\* one of them); a device that is named is on the named network and has the
\* very trouble the incident is about, as of this evaluation and not only at
\* the start of the window, so a healthy device is never accused; no device is told of in two stories of
\* unavailability; a network with bridge trouble tells of nothing else of its
\* own; a network is shown as incident exactly when its bridge or one of its
\* devices is offline; and when these are the stored incidents, the finding
\* that leads the dashboard is critical exactly when a bridge is offline and
\* is as severe as what any network shows.
IncidentsAreGrounded(ns, cfg) ==
    LET sel == correlate(ns, cfg)
        Of(t) == {c \in sel : c.type \in t} IN
    /\ \A c, e \in sel : incident_identity_key(c) = incident_identity_key(e) => c = e
    /\ \A c \in sel : \A x \in c.devices :
          /\ x[1] \in c.nets /\ x[2] \in DOMAIN ns[x[1]].devices
          /\ TroubleOf[c.type] \in Health(ns[x[1]], cfg)[x[2]].flags
    /\ \A c, e \in Of({"network_wide_instability", "correlated_device_unavailability",
                       "single_device_unavailable"}) : c # e => c.devices \cap e.devices = {}
    /\ \A c \in Of({"bridge_offline"}), e \in sel :
          e.nets = c.nets => e = c
    /\ \A i \in DOMAIN ns :
          /\ classify_network(ns[i], cfg) = "incident" <=> (ns[i].bridge = "offline" \/ Offline(ns[i]) # {})
          /\ \A a \in DOMAIN ns[i].devices :
                LET h == Health(ns[i], cfg)[a] IN
                /\ h.primary \in h.flags
                /\ h.severity = "ok" <=> h.flags = {"healthy"}
                /\ h.severity = "incident" <=> a \in Offline(ns[i])
    /\ sel # {} =>
          LET rows == {[open |-> TRUE, severity |-> c.severity, nets |-> c.nets] : c \in sel}
              by   == active_severity_by_network_id(rows, DOMAIN ns) IN
          /\ pick_active(rows).severity = "critical" <=> \E i \in DOMAIN ns : ns[i].bridge = "offline"
          /\ \A i \in DOMAIN by : SeverityRank(pick_active(rows).severity) <= SeverityRank(by[i])
          /\ \A i \in DOMAIN ns : Offline(ns[i]) # {} /\ NetworkWide(ns[i], cfg)
                /\ classify_bridge(ns[i], cfg) # "stale" => by[i] \in {"critical", "incident"}
=============================================================================
