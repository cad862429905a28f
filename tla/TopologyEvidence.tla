-------------------------- MODULE TopologyEvidence --------------------------
(***************************************************************************)
(* What stored network maps say: the parser (topology/parser.py), recent   *)
(* missing and last known links (history.py), the comparison of two maps   *)
(* (compare.py), the snapshot history of one device (device_compare.py)    *)
(* and the facts drawn from them (decisions/topology_facts.py).            *)
(*                                                                         *)
(* Data: devices are numbers (an address after normalisation, in its       *)
(* order); a link is [source, target, lqi, routes, stype, ttype] with      *)
(* Missing where the map said nothing; a snapshot is [id, at, status,      *)
(* nodes, links], `snaps` lists those of one network newest first.  Times  *)
(* are minutes.  Titles, notes and other wording are left out.             *)
(***************************************************************************)
EXTENDS DeviceStory

CONSTANTS RecentSnapshots,    \* RECENT_HISTORY_MAX_SNAPSHOTS
          LinksPerDevice,     \* LAST_KNOWN_LINKS_PER_DEVICE
          LastKnownTotal,     \* MAX_LAST_KNOWN_LINKS_TOTAL
          WatchLinks,         \* WATCH_LINK_DIFFERENCE_MIN
          LargeLinks          \* LARGE_ROUTER_CHANGE_MIN_LINKS

ASSUME RecentAssumption == RecentSnapshots \in Nat \ {0}
ASSUME LinksAssumption == LinksPerDevice \in Nat /\ LastKnownTotal \in Nat

RECENT_HISTORY_WINDOW == 7 * 24 * 60
MEANINGFUL_LQI_CHANGE == 20

Ends(link) == {link.source, link.target}
RangeOf(s) == {s[i] : i \in DOMAIN s}

----------------------------------------------------------------------------
(* parser.py.  A raw map is Missing (not an object) or [nodes, links] of   *)
(* entries whose address may be Missing; a raw link has two fields for the *)
(* link quality.                                                           *)

\* `a or b`: a reported zero gives way to the other field.
OrElse(a, b) == IF a \in {Missing, 0} THEN b ELSE a

parse_networkmap_payload(raw) ==
    LET nodes == IF raw = Missing THEN <<>>
                 ELSE Kept(raw.nodes, {i \in DOMAIN raw.nodes : raw.nodes[i].ieee # Missing})
        links == IF raw = Missing THEN <<>>
                 ELSE Kept(raw.links, {i \in DOMAIN raw.links : Missing \notin Ends(raw.links[i])})
        typed(d) == {i \in DOMAIN nodes : nodes[i].ieee = d}
        type(d)  == IF typed(d) = {} THEN "None" ELSE nodes[MaxOf(typed(d))].type
    IN [nodes |-> {nodes[i].ieee : i \in DOMAIN nodes},
        links |-> [i \in DOMAIN links |->
                     [source |-> links[i].source, target |-> links[i].target,
                      stype |-> type(links[i].source), ttype |-> type(links[i].target),
                      lqi |-> OrElse(links[i].linkquality, links[i].lqi),
                      routes |-> links[i].routes]]]

----------------------------------------------------------------------------
(* The relationships of one snapshot. *)

RealLinks(links) == {l \in RangeOf(links) : l.source # l.target}
NeighbourPairs(links) == {Ends(l) : l \in RealLinks(links)}
HasRoute(l) == l.routes # Missing /\ l.routes > 0
RoutePairs(links) == {<<l.source, l.target>> : l \in {k \in RealLinks(links) : HasRoute(k)}}

\* The best recorded link quality of each pair; Missing when none was recorded.
NeighbourLqi(links) ==
    [p \in NeighbourPairs(links) |->
        LET known == {l.lqi : l \in {k \in RealLinks(links) : Ends(k) = p}} \ {Missing}
        IN IF known = {} THEN Missing ELSE MaxOf(known)]

\* The route count of each directed pair: the last entry wins.
RouteCounts(links) ==
    [r \in RoutePairs(links) |->
        links[MaxOf({i \in DOMAIN links :
                        <<links[i].source, links[i].target>> = r /\ HasRoute(links[i])})].routes]

LayoutAvailable(snap) == snap.nodes # {} \/ snap.links # <<>>

Usable(snaps) == Kept(snaps, {i \in DOMAIN snaps : snaps[i].status = "complete"})

\* get_latest_topology_snapshot: the newest complete one, as a set.
Latest(snaps) == IF Usable(snaps) = <<>> THEN {} ELSE {Usable(snaps)[1]}
LatestLinks(snaps) == IF Latest(snaps) = {} THEN <<>> ELSE Usable(snaps)[1].links
Previous(snaps) == IF Usable(snaps) = <<>> THEN <<>> ELSE Tail(Usable(snaps))
LatestLayout(snaps) == \E s \in Latest(snaps) : LayoutAvailable(s)

----------------------------------------------------------------------------
(* history.py *)

RecentPrevious(snaps, now) ==
    LET prev == Previous(snaps) IN
    NewestOf(Kept(prev, {i \in DOMAIN prev : prev[i].at >= now - RECENT_HISTORY_WINDOW}),
             RecentSnapshots)

confidence(n) == IF n >= 2 THEN "medium" ELSE "low"

\* One accumulated relationship: when it was first and last seen, in how many
\* snapshots.
Aggregate(key, seenIn, limited) ==
    LET times == {s.at : s \in seenIn} IN
    [key |-> key, first |-> CHOOSE t \in times : \A u \in times : t <= u, last |-> MaxOf(times),
     snapshots |-> Cardinality(seenIn), confidence |-> confidence(Cardinality(seenIn)),
     limited |-> limited]

\* aggregate_historical_evidence
historical_neighbors(snaps, now) ==
    LET window == RangeOf(RecentPrevious(snaps, now))
        pairs  == UNION {NeighbourPairs(s.links) : s \in window}
    IN {Aggregate(p, {s \in window : p \in NeighbourPairs(s.links)}, ~LatestLayout(snaps)) :
           p \in pairs \ NeighbourPairs(LatestLinks(snaps))}

historical_routes(snaps, now) ==
    LET window == RangeOf(RecentPrevious(snaps, now))
        pairs  == UNION {RoutePairs(s.links) : s \in window}
    IN {Aggregate(r, {s \in window : r \in RoutePairs(s.links)}, ~LatestLayout(snaps)) :
           r \in pairs \ RoutePairs(LatestLinks(snaps))}

LinkedIn(links) == UNION {Ends(l) : l \in RangeOf(links)}

\* The links of one device in the newest previous snapshot that has any.
LastKnownOf(snaps, d) ==
    LET prev == Previous(snaps)
        with == {i \in DOMAIN prev : \E l \in RealLinks(prev[i].links) : d \in Ends(l)}
        snap == prev[CHOOSE i \in with : \A j \in with : i <= j]
    IN IF with = {} THEN {}
       ELSE {[link |-> l, at |-> snap.at] : l \in {k \in RealLinks(snap.links) : d \in Ends(k)}}

\* Strongest first, then by address.
Stronger(e, f) ==
    LET q(x) == IF x.link.lqi = Missing THEN -1 ELSE x.link.lqi IN
    \/ q(e) > q(f)
    \/ q(e) = q(f) /\ e.link.source < f.link.source
    \/ q(e) = q(f) /\ e.link.source = f.link.source /\ e.link.target < f.link.target

TopOf(S, n, Before(_, _)) == RangeOf(NewestOf(SortedBy(S, Before), n))

\* A linkless device keeps its strongest stored links.  A pair that two
\* linkless devices claim is entered once, for the lower address.
aggregate_last_known_links(snaps) ==
    LET linkless == (UNION {LinkedIn(s.links) : s \in RangeOf(Previous(snaps))})
                        \ LinkedIn(LatestLinks(snaps))
        claims   == UNION {{[pair |-> Ends(e.link), at |-> e.at, link |-> e.link, by |-> d] :
                               e \in TopOf(LastKnownOf(snaps, d), LinksPerDevice, Stronger)} :
                              d \in linkless}
        first(e) == \A f \in claims : f.pair = e.pair =>
                       e.by < f.by \/ (e.by = f.by /\ ~Stronger(f, e))
        newer(e, f) == \/ e.at > f.at
                       \/ e.at = f.at /\ e.link.source > f.link.source
                       \/ /\ e.at = f.at /\ e.link.source = f.link.source
                          /\ e.link.target > f.link.target
    IN IF ~LatestLayout(snaps) THEN {}
       ELSE {[pair |-> e.pair, at |-> e.at, lqi |-> e.link.lqi] :
                e \in TopOf({c \in claims : first(c)}, LastKnownTotal, newer)}

----------------------------------------------------------------------------
(* compare.py *)

\* A change is <<type, what changed, the devices it involves>>.
Change(type, key, devices) == <<type, key, devices>>

LqiChanged(a, b) ==
    a # Missing /\ b # Missing /\ (a - b >= MEANINGFUL_LQI_CHANGE \/ b - a >= MEANINGFUL_LQI_CHANGE)

DeviceChanges(base, latest) ==
    {Change("newly_observed_device", d, {d}) : d \in latest.nodes \ base.nodes}
    \cup {Change("device_no_topology_evidence", d, {d}) : d \in base.nodes \ latest.nodes}

NeighbourChanges(base, latest) ==
    LET b == NeighbourLqi(base.links)
        l == NeighbourLqi(latest.links) IN
    {Change("new_neighbour_link", p, p) : p \in DOMAIN l \ DOMAIN b}
    \cup {Change("missing_neighbour_link", p, p) : p \in DOMAIN b \ DOMAIN l}
    \cup {Change("changed_neighbour_link", p, p) :
             p \in {q \in DOMAIN b \cap DOMAIN l : LqiChanged(l[q], b[q])}}

RouteChanges(base, latest) ==
    LET b == RouteCounts(base.links)
        l == RouteCounts(latest.links)
        Of(type, R) == {Change(type, r, {r[1], r[2]}) : r \in R}
    IN Of("new_route_hint", DOMAIN l \ DOMAIN b)
       \cup Of("missing_route_hint", DOMAIN b \ DOMAIN l)
       \cup Of("changed_route_hint", {r \in DOMAIN b \cap DOMAIN l : b[r] # l[r]})

\* _churn: changed link evidence as a share of what both maps hold.
churn(base, latest) ==
    LET changed   == Cardinality(NeighbourChanges(base, latest) \cup RouteChanges(base, latest))
        available == Cardinality(NeighbourPairs(base.links)) + Cardinality(RoutePairs(base.links))
                     + Cardinality(NeighbourPairs(latest.links)) + Cardinality(RoutePairs(latest.links))
    IN IF available = 0 THEN "low"
       ELSE IF 10 * changed < available THEN "low"
       ELSE IF 10 * changed <= 3 * available THEN "moderate"
       ELSE "high"

\* _worth_reviewing_insights over the devices some change touches.
worth_reviewing(changes, base, latest, rows) ==
    LET of(d)      == {c \in changes : d \in c[3]}
        degree(s, d) == Cardinality({p \in NeighbourPairs(s.links) : d \in p})
        moved(d)   == Cardinality(of(d) \cap NeighbourChanges(base, latest))
        most(d)    == MaxOf({degree(base, d), degree(latest, d)})
        touched    == UNION {c[3] : c \in changes}
    IN {<<"issue_linked_topology_change", d>> :
           d \in {x \in touched \cap DOMAIN rows : rows[x].availability = "offline"}}
       \cup {<<"no_latest_neighbour_evidence_after_previous", d>> :
           d \in {x \in touched : degree(base, x) > 0 /\ degree(latest, x) = 0}}
       \cup {<<"large_router_evidence_change", d>> :
           d \in {x \in touched \cap DOMAIN rows :
                     /\ rows[x].type = "Router" /\ moved(x) >= LargeLinks
                     /\ most(x) > 0 /\ 4 * moved(x) >= most(x)}}

\* The newest usable map against the one before it.
compare_snapshots(snaps, rows) ==
    LET u == Usable(snaps) IN
    IF Len(u) < 2
    THEN [has |-> FALSE, changes |-> {}, churn |-> "unknown", insights |-> {}, limited |-> FALSE]
    ELSE LET changes == DeviceChanges(u[2], u[1]) \cup NeighbourChanges(u[2], u[1])
                        \cup RouteChanges(u[2], u[1])
         IN [has |-> TRUE, changes |-> changes, churn |-> churn(u[2], u[1]),
             insights |-> worth_reviewing(changes, u[2], u[1], rows),
             limited |-> u[1].nodes = {} /\ NeighbourPairs(u[1].links) = {}]

----------------------------------------------------------------------------
(* device_compare.py *)

\* _DeviceSnapshotEvidence
Mut_device_snapshot_evidence(snap, d) ==
    [present |-> d \in snap.nodes,
     lqi |-> LET q == NeighbourLqi(snap.links) IN [p \in {x \in DOMAIN q : d \in x} |-> q[p]],
     routes |-> LET r == RouteCounts(snap.links) IN
                [x \in {y \in DOMAIN r : d \in {y[1], y[2]}} |-> r[x]]]

device_snapshot_evidence(snap, d) ==
    [present |-> d \in snap.nodes \cup LinkedIn(snap.links),
     lqi |-> LET q == NeighbourLqi(snap.links) IN [p \in {x \in DOMAIN q : d \in x} |-> q[p]],
     routes |-> LET r == RouteCounts(snap.links) IN
                [x \in {y \in DOMAIN r : d \in {y[1], y[2]}} |-> r[x]]]

coverage_for_snapshot(at, isLatest, tracking, earliest) ==
    IF ~tracking THEN "off"
    ELSE IF isLatest THEN "tracked"
    ELSE IF earliest = Missing THEN "unknown"
    ELSE IF earliest > at THEN "building"
    ELSE "tracked"

\* The recorded state at the capture; changes are [at, to], oldest first.
state_near_snapshot(changes, at, coverage, isLatest, current) ==
    LET upTo == {i \in DOMAIN changes : changes[i].at <= at}
        state == IF isLatest THEN current
                 ELSE IF upTo = {} THEN Missing ELSE changes[MaxOf(upTo)].to
    IN IF coverage = "tracked" /\ state \in {"online", "offline"} THEN state ELSE Missing

PairCounts(latest, selected, changed) ==
    [latest |-> Cardinality(DOMAIN latest), selected |-> Cardinality(DOMAIN selected),
     latestOnly |-> Cardinality(DOMAIN latest \ DOMAIN selected),
     selectedOnly |-> Cardinality(DOMAIN selected \ DOMAIN latest),
     changed |-> Cardinality(changed)]

\* _comparison_to_latest
comparison_to_latest(latest, selected, issue, coverage) ==
    LET Both(f) == DOMAIN latest[f] \cap DOMAIN selected[f]
        links   == PairCounts(latest.lqi, selected.lqi,
                              {p \in Both("lqi") : LqiChanged(latest.lqi[p], selected.lqi[p])})
        routes  == PairCounts(latest.routes, selected.routes,
                              {p \in Both("routes") : latest.routes[p] # selected.routes[p]})
        Total(c) == c.latestOnly + c.selectedOnly + c.changed
        gone    == links.latest = 0 /\ links.selected > 0
        any     == latest.present # selected.present \/ Total(links) > 0 \/ Total(routes) > 0
        status  == IF issue /\ any THEN "worth_reviewing"
                   ELSE IF gone \/ Total(links) >= WatchLinks THEN "watch"
                   ELSE IF Total(routes) > 0 /\ coverage # "tracked" THEN "watch"
                   ELSE IF any THEN "changed"
                   ELSE "no_notable_change"
        act     == status \in {"watch", "worth_reviewing"}
        If(cond, checks) == IF act /\ cond THEN checks ELSE {}
    IN [status |-> status, links |-> links, routes |-> routes,
        presence |-> [latest |-> latest.present, selected |-> selected.present],
        checks |-> If(issue, {"power", "reporting"}) \cup If(gone, {"another_snapshot"})
                   \cup If(Total(routes) > 0, {"route_hints_context"})
                   \cup If(coverage = "off", {"enable_availability"})]

\* build_device_snapshot_history over the newest usable snapshots, the latest
\* one first.  dev is [ieee, availability, changes].
build_device_snapshot_history(snaps, dev, tracking, earliest) ==
    LET u == NewestOf(Usable(snaps), HistoryLimit) IN
    [i \in DOMAIN u |->
        LET e     == device_snapshot_evidence(u[i], dev.ieee)
            ok    == LayoutAvailable(u[i])
            cover == coverage_for_snapshot(u[i].at, i = 1, tracking, earliest)
        IN [id |-> u[i].id, available |-> ok, coverage |-> cover,
            present |-> IF ok THEN e.present ELSE Missing,
            links |-> IF ok THEN Cardinality(DOMAIN e.lqi) ELSE Missing,
            state |-> state_near_snapshot(dev.changes, u[i].at, cover, i = 1, dev.availability),
            comparison |-> IF i > 1 /\ ok /\ LayoutAvailable(u[1])
                           THEN comparison_to_latest(device_snapshot_evidence(u[1], dev.ieee), e,
                                                     dev.availability = "offline", cover)
                           ELSE Missing]]

----------------------------------------------------------------------------
(* decisions/topology_facts.py *)

build_network_topology_facts(snaps, now, staleAfter, counts) ==
    LET If(cond, fact) == IF cond THEN {fact} ELSE {} IN
    IF Latest(snaps) = {} THEN {"latest_snapshot_missing"}
    ELSE {IF LatestLayout(snaps) THEN "latest_snapshot_complete" ELSE "latest_layout_limited",
          IF counts.routes > 0 THEN "route_hints_available" ELSE "route_hints_unavailable"}
         \cup If(staleAfter # Missing /\ now - Usable(snaps)[1].at > 60 * staleAfter, "latest_snapshot_stale")
         \cup If(counts.missing > 0, "recent_missing_links_available")
         \cup If(counts.lastKnown > 0, "last_known_links_available")
         \cup If(counts.hints > 0, "passive_hints_available")

DeviceLinkCount(links, d) ==
    Cardinality({i \in DOMAIN links : links[i].source # links[i].target /\ d \in Ends(links[i])})

build_device_latest_topology_facts(snaps, d) ==
    IF ~LatestLayout(snaps) THEN {}
    ELSE LET n == DeviceLinkCount(LatestLinks(snaps), d) IN
         {IF d \in Usable(snaps)[1].nodes \/ n > 0
          THEN "device_seen_in_latest_snapshot" ELSE "device_absent_from_latest_snapshot",
          IF n > 0 THEN "device_has_latest_links" ELSE "device_no_latest_links"}

\* A row whose parts disagree says nothing.
build_device_snapshot_comparison_facts(row) ==
    LET c == row.comparison
        changed == c.presence.latest # c.presence.selected
        If(cond, fact) == IF cond THEN {fact} ELSE {} IN
    IF ~row.available \/ c = Missing THEN {}
    ELSE IF c.presence.selected # row.present \/ (changed /\ c.status = "no_notable_change") THEN {}
    ELSE If(row.links > 0, "device_has_selected_snapshot_links")
         \cup If(c.status # "no_notable_change", "device_latest_vs_selected_changed")
         \cup If(row.coverage # "tracked", "availability_coverage_affects_snapshot_comparison")

\* build_topology_facts_from_evidence_graph: the latest row of the device's
\* history, when its layout is available, adds what it knows of the presence.
build_topology_facts_from_evidence_graph(snaps, d, history) ==
    LET latest == build_device_latest_topology_facts(snaps, d)
        seen   == history # <<>> /\ history[1].available /\ history[1].present
        absent == "device_absent_from_latest_snapshot" IN
    [device |-> IF seen /\ absent \in latest
                THEN (latest \ {absent}) \cup {"device_seen_in_latest_snapshot"} ELSE latest,
     comparison |-> [i \in DOMAIN history \ {1} |-> build_device_snapshot_comparison_facts(history[i])]]

\* count_device_topology_history (decisions/device_coverage.py)
count_device_topology_history(snaps, d) ==
    LET u == RangeOf(NewestOf(Usable(snaps), HistoryLimit))
        ok == {s \in u : LayoutAvailable(s)} IN
    [complete |-> Cardinality(u), available |-> Cardinality(ok), limited |-> Cardinality(u \ ok),
     observed |-> Cardinality({s \in ok : d \in s.nodes \cup LinkedIn(s.links)})]

\* The topology part of load_device_story_evidence.
StoryTopology(snaps, now, d, history) ==
    LET facts == UNION {build_device_snapshot_comparison_facts(history[i]) :
                           i \in DOMAIN history \ {1}} IN
    [layout |-> IF Latest(snaps) = {} THEN "none"
                ELSE IF LatestLayout(snaps) THEN "available" ELSE "limited",
     links |-> DeviceLinkCount(LatestLinks(snaps), d),
     known |-> Cardinality({e \in aggregate_last_known_links(snaps) : d \in e.pair}),
     missing |-> IF Latest(snaps) # {} /\ ~LatestLayout(snaps) THEN 0
                 ELSE Cardinality({e \in historical_neighbors(snaps, now) : d \in e.key})
                      + Cardinality({e \in historical_routes(snaps, now) : d \in {e.key[1], e.key[2]}}),
     selected |-> "device_has_selected_snapshot_links" \in facts,
     routes |-> \E l \in RangeOf(LatestLinks(snaps)) : HasRoute(l),
     history |-> count_device_topology_history(snaps, d)]

----------------------------------------------------------------------------
(* Four readers of the same stored maps tell one story of a device: the    *)
(* comparison of two maps, the snapshot history of the device, the facts   *)
(* drawn from both, and the coverage counts; and a link the comparison     *)
(* calls missing is drawn as recently missing while it is recent.          *)
ReadersAgree(snaps, now, dev, tracking, earliest, rows) ==
    LET d     == dev.ieee
        u     == Usable(snaps)
        hist  == build_device_snapshot_history(snaps, dev, tracking, earliest)
        facts == build_topology_facts_from_evidence_graph(snaps, d, hist)
        cmp   == compare_snapshots(snaps, rows)
        count == count_device_topology_history(snaps, d)
        N(type) == Cardinality({c \in cmp.changes : c[1] = type /\ d \in c[3]})
    IN /\ \A i \in DOMAIN hist : i > 1 /\ hist[i].comparison # Missing =>
             /\ hist[i].comparison.status # "no_notable_change" <=>
                    "device_latest_vs_selected_changed" \in facts.comparison[i]
             /\ i = 2 =>
                  LET c == hist[i].comparison IN
                  /\ c.links.latestOnly = N("new_neighbour_link")
                  /\ c.links.selectedOnly = N("missing_neighbour_link")
                  /\ c.links.changed = N("changed_neighbour_link")
                  /\ c.routes.latestOnly = N("new_route_hint")
                  /\ c.routes.selectedOnly = N("missing_route_hint")
                  /\ c.routes.changed = N("changed_route_hint")
       /\ hist # <<>> /\ hist[1].available =>
             (hist[1].present <=> "device_seen_in_latest_snapshot" \in facts.device)
       /\ count.available = Cardinality({i \in DOMAIN hist : hist[i].available})
       /\ count.observed = Cardinality({i \in DOMAIN hist : hist[i].available /\ hist[i].present})
       /\ cmp.has /\ u[2].at >= now - RECENT_HISTORY_WINDOW =>
             {c[2] : c \in {x \in cmp.changes : x[1] = "missing_neighbour_link"}}
                 \subseteq {x.key : x \in historical_neighbors(snaps, now)}
=============================================================================
