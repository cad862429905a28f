------------------------------- MODULE MCRules -------------------------------
(***************************************************************************)
(* The pure rules of ZigbeeLens evaluated over bounded inputs.  A state is *)
(* a question: topic says which rules, input what they are asked.          *)
(* RulesInit takes half of an input, one step completes it; the invariants *)
(* evaluate the rules on the completed ones.                               *)
(***************************************************************************)
EXTENDS Diagnosis, Investigations, Reports, IncidentPaging

VARIABLES topic, input
rulesVars == <<topic, input>>

----------------------------------------------------------------------------
(* Health and incidents: ages in hours, minutes for the bridge. *)

HealthRow(type, power, int, av, pay, seen, lqi, batt, ch) ==
   [type |-> type, power |-> power, interview |-> int, availability |-> av,
    payload |-> pay, seen |-> seen, lqi |-> lqi, batt |-> batt, changes |-> ch]
Fine == HealthRow("EndDevice", "Battery", "successful", "online", 1, 1, 80, 90, 0)
Gone == [Fine EXCEPT !.availability = "offline"]
Rows == {Fine, Gone, [Fine EXCEPT !.payload = 49], [Fine EXCEPT !.interview = "failed"],
         [Fine EXCEPT !.interview = "in_progress", !.batt = 20],
         HealthRow("Router", "Mains", "successful", "offline", 13, 13, NoTime, NoTime, 3),
         HealthRow("Router", "Mains", "successful", "online", 1, 1, 40, NoTime, 0),
         HealthRow("EndDevice", "Battery", "unknown", "unknown", NoTime, NoTime, NoTime, NoTime, 0)}
BareRows == {HealthRow(t, p, i, a, NoTime, NoTime, NoTime, NoTime, c) :
                t \in {"Router", "EndDevice"}, p \in {"Mains", "Battery", "Unknown"},
                i \in {"successful", "failed", "in_progress", "unknown"},
                a \in {"online", "offline", "unknown"}, c \in {2, 3, 5}}
Cfgs == {Defaults, [Defaults EXCEPT !.widePercent = 100, !.staleMin = 1]}
Bridges == {<<"online", 1, 1>>, <<"online", 11, 1>>, <<"online", 11, 11>>,
            <<"online", 11, NoTime>>, <<"offline", 1, 1>>, <<"unknown", NoTime, 1>>}
Net(b, ds, recent) ==
    [bridge |-> b[1], updated |-> b[2], activity |-> b[3], devices |-> ds, recent |-> recent]
Second == {Net(<<"online", 1, 1>>, <<Fine, Fine>>, {}), Net(<<"online", 1, 1>>, <<Gone, Gone, Gone>>, {1}),
           Net(<<"offline", 1, 1>>, <<Gone>>, {1}), Net(<<"online", 1, 1>>, <<>>, {})}

SeedDiagnosis ==
    \/ \E r \in BareRows : input = <<"device", r>>
    \/ \E b \in Bridges, n2 \in Second, cfg \in Cfgs, d \in Rows : input = <<"estate", b, n2, cfg, d>>

AskDiagnosis ==
    /\ topic = "seed diagnosis" /\ topic' = "diagnosis"
    /\ \/ /\ input[1] = "device"
          /\ \E p \in {NoTime, 1, 20, 49}, s \in {NoTime, 1, 49}, l \in {NoTime, 40, 41},
                b \in {NoTime, 20, 21} :
               input' = << <<Net(<<"online", 1, 1>>,
                                 <<[input[2] EXCEPT !.payload = p, !.seen = s, !.lqi = l, !.batt = b]>>,
                                 {})>>, Defaults>>
       \/ /\ input[1] = "estate"
          /\ \E d2, d3 \in Rows, recent \in SUBSET (1 .. 3) :
               input' = << <<Net(input[2], <<input[5], d2, d3>>, recent), input[3]>>, input[4]>>

----------------------------------------------------------------------------
(* Network maps of three devices; 3 is a router.  Times in minutes. *)

Link(s, t, lqi, routes) ==
    LET Type(d) == IF d = 3 THEN "Router" ELSE "EndDevice" IN
    [source |-> s, target |-> t, lqi |-> lqi, routes |-> routes, stype |-> Type(s), ttype |-> Type(t)]
Links == {Link(1, 3, Missing, Missing), Link(3, 1, 80, 1), Link(1, 3, 50, 2), Link(1, 1, 90, 1),
          Link(2, 3, 40, 0)}
LinkLists == {<<>>} \cup {<<l>> : l \in Links} \cup {<<l, k>> : l, k \in Links}
Snap(id, at, status, nodes, links) ==
    [id |-> id, at |-> at, status |-> status, nodes |-> nodes, links |-> links]
Earlier == {<<>>, <<Snap(7, 9000, "failed", {}, <<>>)>>,
            <<Snap(7, 100, "complete", {1, 2, 3}, <<Link(1, 3, 100, 1), Link(2, 3, 60, Missing)>>)>>}
Inventory == [d \in 1 .. 3 |->
                 [type |-> IF d = 3 THEN "Router" ELSE "EndDevice",
                  availability |-> IF d = 1 THEN "offline" ELSE "online"]]
Histories == {<<>>, <<[at |-> 8000, to |-> "online"], [at |-> 9500, to |-> "offline"]>>}

SeedTopology ==
    \E nodes \in {{}, {3}, {1, 2, 3}}, links \in LinkLists :
        input = Snap(9, 11000, "complete", nodes, links)

TopologySettings == [nodes : {{}, {1, 3}}, links : LinkLists, older : Earlier, at : {500, 9200},
                     dev : {1, 3}, changes : Histories]
TopologyQuestion(latest, s) ==
    [snaps |-> <<latest, Snap(8, s.at, "complete", s.nodes, s.links)>> \o s.older,
     dev |-> [ieee |-> s.dev, availability |-> Inventory[s.dev].availability, changes |-> s.changes],
     tracking |-> s.changes # <<>> \/ s.dev = 3, earliest |-> IF s.changes = <<>> THEN Missing ELSE 8000]

AskTopology ==
    /\ topic = "seed topology" /\ topic' = "topology"
    /\ \E s \in TopologySettings : input' = TopologyQuestion(input, s)

----------------------------------------------------------------------------
(* Device stories.  A history is a list of the ages of up to five reports. *)

OneMore(histories) ==
    histories \cup {Append(ages, ages[Len(ages)] + gap) : ages \in histories, gap \in {0, 10, 40}}
Ages == OneMore(OneMore(OneMore(OneMore({<<0>>}))))
\* Newest first; the recent `low` samples have the poor link quality.
History(ages, low, batt) ==
    [i \in DOMAIN ages |->
        [at |-> 20000 - ages[i], payload |-> 20000 - ages[i],
         lqi |-> IF i <= low THEN 60 ELSE 100, batt |-> batt]]
Topos == {[layout |-> "none", links |-> 0, known |-> 0, missing |-> 0, selected |-> FALSE, routes |-> FALSE,
           history |-> [complete |-> 0, available |-> 0, limited |-> 0, observed |-> 0]],
          [layout |-> "available", links |-> 0, known |-> 1, missing |-> 1, selected |-> TRUE, routes |-> TRUE,
           history |-> [complete |-> 2, available |-> 2, limited |-> 0, observed |-> 1]],
          [layout |-> "available", links |-> 1, known |-> 0, missing |-> 1,
           selected |-> FALSE, routes |-> FALSE,
           history |-> [complete |-> 2, available |-> 1, limited |-> 1, observed |-> 1]],
          [layout |-> "limited", links |-> 0, known |-> 0, missing |-> 0, selected |-> TRUE, routes |-> FALSE,
           history |-> [complete |-> 1, available |-> 0, limited |-> 1, observed |-> 0]]}
Db(type, av, seen, batt, tracking, snaps, topo, affected) ==
    [row |-> [type |-> type, power |-> IF type = "Router" THEN "Mains" ELSE "Battery", availability |-> av,
              seen |-> seen, payload |-> IF snaps = <<>> THEN Missing ELSE snaps[1].payload, batt |-> batt],
     tracking |-> tracking, snaps |-> snaps, changes |-> av = "offline", topo |-> topo, area |-> tracking,
     models |-> [d \in 1 .. 3 |-> IF d = 3 THEN Missing ELSE "model"], affected |-> affected, self |-> 1]

\* A device without a model that never reported.
Unheard(db) == [db EXCEPT !.snaps = <<>>, !.row = [@ EXCEPT !.seen = Missing], !.self = 3]

SeedStory == \E ages \in Ages, topo \in Topos : input = <<ages, topo>>

Settings == [low : {0, 2}, availability : {"online", "offline", "unknown"}, tracking : BOOLEAN,
             batt : {Missing, 20}, affected : {{1}, {1, 2}}, now : {19995, 20030, 20060, 20121, 22880}]
StoryQuestion(ages, topo, s) ==
    LET type == IF s.low = 2 \/ ~s.tracking THEN "EndDevice" ELSE "Router"
        db   == Db(type, s.availability, 20000, s.batt, s.tracking, History(ages, s.low, s.batt), topo,
                   s.affected)
    IN [dbs |-> <<db, Unheard(db)>>, now |-> s.now]

AskStory ==
    /\ topic = "seed story" /\ topic' = "story"
    /\ \E s \in Settings : input' = StoryQuestion(input[1], input[2], s)

----------------------------------------------------------------------------
(* Evidence graphs: four devices, 3 and 4 are routers. *)

Event(at, d) == [at |-> at, dev |-> d]
Pairs == {<<1, 2>>, <<2, 3>>, <<1, 4>>}
Together(at, p) == <<Event(at, p[1]), Event(at + 1, p[2])>>
Storm(at) == <<Event(at, 1), Event(at, 2), Event(at + 2, 3), Event(at + 2, 4)>>
Spells == {<<>>} \cup {Together(0, p) \o Together(100, p) : p \in Pairs}
          \cup {Together(0, p) \o Together(100, q) : p, q \in Pairs}
GraphLinks == {<<>>, <<Link(1, 3, 80, 1), Link(2, 3, 40, Missing)>>, <<Link(1, 3, 80, 1)>>,
               <<Link(4, 3, Missing, 2), Link(2, 3, 40, 0), Link(1, 3, 20, Missing)>>,
               <<Link(1, 2, 80, 1), Link(3, 1, 30, 1)>>}
GraphRow(d, offline) ==
    [type |-> IF d > 2 THEN "Router" ELSE "EndDevice", power |-> "Battery",
     batt |-> IF d = 1 THEN 20 ELSE Missing,
     availability |-> IF d \in offline THEN "offline" ELSE "online", seen |-> IF d = 2 THEN 0 ELSE 5000]

SeedCards == \E links \in GraphLinks, nodes \in {{}, 1 .. 4}, offline \in SUBSET (1 .. 4) :
                 input = <<Snap(9, 4000, "complete", nodes, links), offline>>

AskCards ==
    /\ topic = "seed cards" /\ topic' = "cards"
    /\ \E links \in GraphLinks, first \in Spells,
          second \in {<<>>, Together(0, <<1, 2>>), Together(0, <<4, 2>>)}, storm \in BOOLEAN :
         input' = [rows |-> [d \in 1 .. 4 |-> GraphRow(d, input[2])],
                   snaps |-> <<input[1], Snap(8, 3000, "complete", {1, 2, 3}, links),
                               Snap(7, 2000, "complete", {}, IF storm THEN <<>> ELSE <<Link(4, 3, 70, 1)>>)>>,
                   events |-> first \o (IF storm THEN Storm(200) ELSE <<>>)
                              \o [i \in DOMAIN second |-> Event(second[i].at + 300, second[i].dev)],
                   now |-> 5000, models |-> [d \in 1 .. 4 |-> IF d = 4 THEN Missing ELSE "model"]]

----------------------------------------------------------------------------
(* Pages over two networks of up to three devices.  The reads are chosen   *)
(* independently: each may have seen another moment of the database.       *)

Badge(s, p) == [status |-> s, priority |-> p]
PageRows == {[net |-> 1, ieee |-> 1, type |-> "Router", availability |-> "offline", seen |-> "zoned",
              lqi |-> 80, text |-> "formed", badge |-> Badge("review_first", "high")],
             [net |-> 1, ieee |-> 2, type |-> "Router", availability |-> "online", seen |-> "raw",
              lqi |-> Missing, text |-> "formed", badge |-> Badge("watch", "low")],
             [net |-> 2, ieee |-> 1, type |-> "EndDevice", availability |-> "offline", seen |-> Missing,
              lqi |-> 0, text |-> "formed", badge |-> Badge("improve_data_coverage", "medium")],
             [net |-> 2, ieee |-> 3, type |-> "Router", availability |-> "unknown", seen |-> Missing,
              lqi |-> -1, text |-> "odd", badge |-> Badge("no_notable_change", "none")]}
PageIncidents == {[id |-> 1, nets |-> {1, 2}, open |-> TRUE, severity |-> "incident",
                   devices |-> {<<1, 1>>, <<2, 1>>}],
                  [id |-> 2, nets |-> {2}, open |-> FALSE, severity |-> "watch", devices |-> {<<2, 3>>}],
                  [id |-> 3, nets |-> {2}, open |-> TRUE, severity |-> "critical", devices |-> {}]}
PageCards == {[id |-> 1, type |-> "router_neighbourhood_review", priority |-> "Review first",
               score |-> 12, at |-> 5, devices |-> {1, 2}, text |-> "formed"],
              [id |-> 2, type |-> "issue_cluster", priority |-> "Worth checking", score |-> 7, at |-> Missing,
               devices |-> {3}, text |-> "odd"],
              [id |-> 3, type |-> "issue_cluster", priority |-> "Review first", score |-> 13, at |-> 4,
               devices |-> {1}, text |-> "formed"]}
PageFacts == {[facts |-> {"latest_snapshot_missing"}, tracking |-> TRUE, areas |-> FALSE],
              [facts |-> {"latest_snapshot_stale", "route_hints_unavailable"}, tracking |-> FALSE, areas |-> TRUE]}

SeedPage == \E rows \in SUBSET PageRows, incidents \in SUBSET PageIncidents, collected \in BOOLEAN :
                input = <<rows, incidents, collected>>

AskPage ==
    /\ topic = "seed page" /\ topic' = "page"
    /\ \E risk \in SUBSET {<<1, 1>>, <<1, 2>>} \cup {{<<2, 3>>}}, c1 \in SUBSET PageCards,
          c2 \in {{}, PageCards}, facts \in [1 .. 2 -> PageFacts], unnamed \in {{}, {2}},
          nets \in {{1, 2}} \cup {n \in {{}} : input[1] = {} /\ ~input[3]} :
         input' = [collected |-> input[3], rows |-> input[1], risk |-> risk, nets |-> nets,
                   configured |-> {1, 2}, unnamed |-> unnamed,
                   incidents |-> input[2], cards |-> <<c1, c2>>, facts |-> facts]

----------------------------------------------------------------------------
(* Reports: an evaluation between two of their reads changes an incident,  *)
(* or the retention deletes it when it was resolved.                       *)

Incident(id, nets, keys, state) ==
    [id |-> id, nets |-> nets, devices |-> keys, severity |-> IF id = 1 THEN "incident" ELSE "watch",
     open |-> state = "open", closed |-> state = "resolved"]
Versions == {Incident(1, {1}, {<<1, 1>>}, "open"), Incident(1, {1, 2}, {<<1, 1>>, <<2, 1>>}, "open"),
             Incident(1, {1, 2}, {<<1, 1>>, <<2, 1>>}, "watching"), Incident(1, {1}, {<<1, 1>>}, "resolved")}
Others == {Incident(2, {2}, {<<2, 3>>}, "watching"), Incident(2, {2}, {<<2, 3>>}, "resolved"),
           Incident(3, {2}, {}, "open")}
ReportEvents == <<[net |-> 1, dev |-> 1, incident |-> 1], [net |-> 2, dev |-> 3, incident |-> 2],
                  [net |-> 2, dev |-> 1, incident |-> 1], [net |-> 2, dev |-> Missing, incident |-> Missing],
                  [net |-> 1, dev |-> 1, incident |-> Missing], [net |-> 1, dev |-> 2, incident |-> 1]>>
ReportRequests ==
    LET Request(s, n, d, i) == [scope |-> s, net |-> n, dev |-> d, incident |-> i] IN
    {Request("full", Missing, Missing, Missing)}
    \cup {Request("network", n, Missing, Missing) : n \in {Missing, 1, 2, 4}}
    \cup {Request("incident", Missing, Missing, i) : i \in {Missing, 1, 2}}
    \cup {Request("device", n, d, Missing) : n \in {Missing, 1, 2}, d \in {Missing, 1, 2, 3}}

SeedReport == \E rows \in {s \in SUBSET PageRows : \E x \in s : Key(x) = <<1, 1>>}, q \in ReportRequests :
                  input = <<rows, q>>

\* What the tables say of an incident: the reads of a report are, in this order,
\* its row, its networks and its devices for the plan, then the rows, the devices
\* and the networks of all.  The first `cut` of them come before the change.
NetsOf(incidents, id) == UNION {i.nets : i \in {j \in incidents : j.id = id}}
KeysOf(incidents, id) == UNION {i.devices : i \in {j \in incidents : j.id = id}}

AskReport ==
    /\ topic = "seed report" /\ topic' = "report"
    /\ \E before \in Versions, after \in {{v} : v \in Versions} \cup {{}}, cut \in 0 .. 6,
          others \in SUBSET Others, timeline \in BOOLEAN :
         LET At(read) == others \cup IF read <= cut THEN {before} ELSE after IN
         /\ \A i, j \in others : i.id = j.id => i = j
         /\ after = {} => before.closed
         /\ input' = [q |-> input[2], timeline |-> timeline,
                      p |-> [nets |-> {1, 2}, devices |-> {Key(x) : x \in input[1]},
                             incidents |-> {[id |-> i.id, nets |-> NetsOf(At(2), i.id),
                                             devices |-> KeysOf(At(3), i.id)] : i \in At(1)}],
                      r |-> [rows |-> input[1], risk |-> {<<1, 1>>}, nets |-> {1, 2}, incidents |-> At(4),
                             refs |-> [id \in 1 .. 3 |-> KeysOf(At(5), id)],
                             touched |-> [id \in 1 .. 3 |-> NetsOf(At(6), id)],
                             cards |-> <<IF timeline THEN {} ELSE PageCards, PageCards>>, events |-> ReportEvents,
                             facts |-> [n \in 1 .. 2 |-> CHOOSE f \in PageFacts : f.tracking = (n = 1)]]]

----------------------------------------------------------------------------
(* Walks through the incident list while it changes. *)

ListRow(id, state, at) ==
    [id |-> id, state |-> state, at |-> at,
     devices |-> CASE id = 1 -> {<<1, 1>>} [] id = 2 -> {<<1, 2>>, <<2, 1>>} [] OTHER -> {}]
\* What may happen to one incident by time t: updated, moved to another stage,
\* deleted when it is resolved; or a new one is opened.
Changed(table, t) ==
    {table, table \cup {ListRow(t, "open", t)}}
    \cup {table \ {x} : x \in {y \in table : y.state = "resolved"}}
    \cup UNION {{(table \ {x}) \cup {ListRow(x.id, s, t)} : s \in ALL_INCIDENT_STATUSES} :
                   x \in {y \in table : y.state # "resolved"}}
ListQuery(status, net, dev, after, order, limit) ==
    [status |-> status, net |-> net, dev |-> dev, after |-> after, order |-> order, limit |-> limit,
     cursor |-> {}]
ListQueries ==
    {ListQuery(s, n, Missing, Missing, o, l) :
        s \in {{}, {"open", "watching"}, {"resolved"}}, n \in {Missing, 1}, o \in {Missing, "recent"},
        l \in {1, Missing}}
    \cup {ListQuery({}, 1, 2, 1, Missing, 1), ListQuery({}, Missing, 1, Missing, Missing, 1),
          ListQuery({"stale"}, Missing, Missing, Missing, Missing, 1),
          ListQuery({}, Missing, Missing, 1, "recent", 2), ListQuery({}, Missing, Missing, Missing, "lifecycle", 0)}

SeedList ==
    \E s \in [1 .. 3 -> ALL_INCIDENT_STATUSES], at \in 1 .. 2, q \in ListQueries :
        input = <<{ListRow(1, s[1], at), ListRow(2, s[2], 1), ListRow(3, s[3], 2)}, q>>

\* The first page of a walk, and the next one: two changes may come before it.
AskList ==
    /\ topic = "seed list" /\ topic' = "list"
    /\ input' = [tables |-> <<input[1]>>, q |-> input[2], pages |-> ReadPage(input[1], input[2], <<>>),
                 others |-> {[input[2] EXCEPT !.limit = 2], [input[2] EXCEPT !.order = "recent"],
                             [input[2] EXCEPT !.net = 1], [input[2] EXCEPT !.after = 1]}]

FollowList ==
    /\ topic = "list" /\ FollowsOn(input.pages) /\ UNCHANGED topic
    /\ LET n == Len(input.tables) IN
       \E table \in IF n < 3 THEN Changed(input.tables[n], 9 + n) ELSE {input.tables[n]} :
          input' = [input EXCEPT !.tables = Append(@, table), !.pages = ReadPage(table, input.q, @)]

----------------------------------------------------------------------------

RulesInit ==
    \/ topic = "seed diagnosis" /\ SeedDiagnosis
    \/ topic = "seed topology" /\ SeedTopology
    \/ topic = "seed story" /\ SeedStory
    \/ topic = "seed cards" /\ SeedCards
    \/ topic = "seed page" /\ SeedPage
    \/ topic = "seed report" /\ SeedReport
    \/ topic = "seed list" /\ SeedList

RulesNext == AskDiagnosis \/ AskTopology \/ AskStory \/ AskCards \/ AskPage \/ AskReport \/ AskList
             \/ FollowList

RulesSpec == RulesInit /\ [][RulesNext]_rulesVars

----------------------------------------------------------------------------
(* Incidents are grounded in the rows: see Diagnosis (correlator.py). *)
Grounded == topic = "diagnosis" => IncidentsAreGrounded(input[1], input[2])

(* The readers of stored maps agree: see TopologyEvidence                  *)
(* (compare.py, device_compare.py, topology_facts.py).                     *)
MapReadersAgree ==
    topic = "topology" =>
        ReadersAgree(input.snaps, 12000, input.dev, input.tracking, input.earliest, Inventory)

(* Batch, page and coverage tell one story: see DeviceStory                *)
(* (decisions/device_story.py, device_coverage.py).                        *)
OneStory == topic = "story" => StoriesAgree(input.dbs, input.now)

(* Investigation cards name what the graph shows: see Investigations       *)
(* (topology/investigations.py, passive_hints.py).                         *)
CardsAreDrawn == topic = "cards" => CardsStandOnTheGraph(input)

(* A dashboard of torn reads is one statement Home Assistant takes, a      *)
(* report keeps to its scope and a walk through the incident list misses   *)
(* nothing: see Payloads (services/payload_builder.py, compatibility.py),  *)
(* Reports (services/report_composition.py) and IncidentPaging             *)
(* (storage/incident_collection.py).                                       *)
PagesAddUp ==
    /\ topic = "page" => OneStatement(input)
    /\ topic = "report" => KeepsToItsScope(input.q, input.p, input.r, input.timeline)
    /\ topic = "list" => WalkMissesNothing(input.tables, input.q, input.others, input.pages)
=============================================================================
