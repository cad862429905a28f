------------------------ MODULE InvestigationsProofs ------------------------
(***************************************************************************)
(* Proofs about the readers of stored maps, for every value of their       *)
(* constants and every list of maps:                                       *)
(*   - the comparison, the history, the facts and the coverage of a device *)
(*     agree (TopologyEvidence);                                           *)
(*   - what TopologyEvidence and Investigations build on the way from      *)
(*     stored maps to ranked cards, and CardsStandOnTheGraph, which the    *)
(*     run checks for the graphs it asks about.                            *)
(*                                                                         *)
(* A recursive function along a list is not proved by induction over what  *)
(* it computes but from the run it is: Steps states what every step of the *)
(* function does, and what all steps keep the whole list keeps.            *)
(***************************************************************************)
EXTENDS RulesProofs

(***************************************************************************)
(* Network maps: the comparison of two maps, and the history of a device   *)
(***************************************************************************)

\* The stored maps of one network: the id is the table's key.
StoredMaps(snaps) ==
    /\ IsList(snaps) /\ \A s \in RangeOf(snaps) : IsList(s.links)
    /\ \A i, j \in DOMAIN snaps : snaps[i].id = snaps[j].id => i = j

\* The complete maps, newest first, each once.
LEMMA UsableMaps ==
    ASSUME NEW snaps, StoredMaps(snaps)
    PROVE  /\ Usable(snaps) \in Seq(RangeOf(snaps))
           /\ \A i, j \in DOMAIN Usable(snaps) : Usable(snaps)[i] = Usable(snaps)[j] => i = j
  <1> DEFINE I == {i \in DOMAIN snaps : snaps[i].status = "complete"}
  <1>1. snaps \in Seq(RangeOf(snaps)) /\ I \in SUBSET DOMAIN snaps
    BY DEF StoredMaps, IsList
  <1>2. \A i, j \in DOMAIN snaps : snaps[i] = snaps[j] => i = j
    BY DEF StoredMaps
  <1>3. Usable(snaps) = Kept(snaps, I)
    BY DEF Usable
  <1> HIDE DEF I
  <1> QED
    BY <1>1, <1>2, <1>3, KeptSequence

\* The links of a map are finitely many, and so are the pairs they join.
LEMMA FiniteLinks ==
    ASSUME NEW s, IsList(s.links)
    PROVE  /\ IsFiniteSet(NeighbourPairs(s.links)) /\ IsFiniteSet(RoutePairs(s.links))
           /\ \A d : DeviceLinkCount(s.links, d) \in Nat
           /\ \A d : DeviceLinkCount(s.links, d) > 0 => d \in LinkedIn(s.links)
  <1> DEFINE links == s.links
             D == DOMAIN links
  <1>1. IsFiniteSet(D)
    <2>1. links \in Seq(RangeOf(links))
      BY DEF IsList
    <2>2. D = 1 .. Len(links) /\ Len(links) \in Nat
      BY <2>1
    <2>3. IsFiniteSet(1 .. Len(links))
      BY <2>2, FS_Interval
    <2> QED
      BY <2>2, <2>3
  <1> HIDE DEF links
  <1>2. IsFiniteSet(RangeOf(links))
    <2> DEFINE f == [i \in D |-> links[i]]
    <2>1. f \in Surjection(D, RangeOf(links))
      BY DEF Surjection, RangeOf
    <2> QED
      BY <1>1, <2>1, FS_Surjection
  <1>3. IsFiniteSet(RealLinks(links)) /\ IsFiniteSet({l \in RealLinks(links) : HasRoute(l)})
    <2>1. RealLinks(links) \in SUBSET RangeOf(links)
      BY DEF RealLinks
    <2>2. IsFiniteSet(RealLinks(links))
      BY <1>2, <2>1, FS_Subset
    <2>3. {l \in RealLinks(links) : HasRoute(l)} \in SUBSET RealLinks(links)
      OBVIOUS
    <2> QED
      BY <2>2, <2>3, FS_Subset
  <1>4. IsFiniteSet(NeighbourPairs(links))
    <2> DEFINE f == [l \in RealLinks(links) |-> Ends(l)]
    <2>1. f \in Surjection(RealLinks(links), NeighbourPairs(links))
      BY DEF Surjection, NeighbourPairs
    <2> QED
      BY <1>3, <2>1, FS_Surjection
  <1>5. IsFiniteSet(RoutePairs(links))
    <2> DEFINE R == {k \in RealLinks(links) : HasRoute(k)}
               f == [l \in R |-> <<l.source, l.target>>]
    <2>1. RoutePairs(links) = {<<l.source, l.target>> : l \in R}
      BY DEF RoutePairs
    <2>2. IsFiniteSet(R)
      BY <1>3
    <2> HIDE DEF R
    <2>3. f \in Surjection(R, RoutePairs(links))
      BY <2>1 DEF Surjection
    <2> QED
      BY <2>2, <2>3, FS_Surjection
  <1>6. ASSUME NEW d
        PROVE  /\ DeviceLinkCount(links, d) \in Nat
               /\ DeviceLinkCount(links, d) > 0 => d \in LinkedIn(links)
    <2> DEFINE I == {i \in D : links[i].source # links[i].target /\ d \in Ends(links[i])}
    <2>1. I \in SUBSET D
      OBVIOUS
    <2>2. DeviceLinkCount(links, d) = Cardinality(I)
      BY DEF DeviceLinkCount
    <2>3. I # {} => d \in LinkedIn(links)
      BY DEF LinkedIn, RangeOf
    <2> HIDE DEF I
    <2>4. IsFiniteSet(I)
      BY <1>1, <2>1, FS_Subset
    <2>5. Cardinality(I) \in Nat /\ (Cardinality(I) > 0 => I # {})
      BY <2>4, FS_CardinalityType, FS_EmptySet
    <2> QED
      BY <2>2, <2>3, <2>5
  <1> QED
    BY <1>4, <1>5, <1>6 DEF links

\* The changes between two maps, by their type.
AllChanges(base, latest) ==
    DeviceChanges(base, latest) \cup NeighbourChanges(base, latest) \cup RouteChanges(base, latest)

\* The changes of each type are the pairs, or routes, that changed that way.
LEMMA ChangesByType ==
    ASSUME NEW base, NEW latest
    PROVE  LET all == AllChanges(base, latest)
               np(s) == NeighbourPairs(s.links)
               rp(s) == RoutePairs(s.links)
               q(s) == NeighbourLqi(s.links)
               r(s) == RouteCounts(s.links) IN
           /\ {c \in all : c[1] = "new_neighbour_link"}
                 = {<<"new_neighbour_link", p, p>> : p \in np(latest) \ np(base)}
           /\ {c \in all : c[1] = "missing_neighbour_link"}
                 = {<<"missing_neighbour_link", p, p>> : p \in np(base) \ np(latest)}
           /\ {c \in all : c[1] = "changed_neighbour_link"}
                 = {<<"changed_neighbour_link", p, p>> :
                       p \in {x \in np(base) \cap np(latest) : LqiChanged(q(latest)[x], q(base)[x])}}
           /\ {c \in all : c[1] = "new_route_hint"}
                 = {<<"new_route_hint", p, {p[1], p[2]}>> : p \in rp(latest) \ rp(base)}
           /\ {c \in all : c[1] = "missing_route_hint"}
                 = {<<"missing_route_hint", p, {p[1], p[2]}>> : p \in rp(base) \ rp(latest)}
           /\ {c \in all : c[1] = "changed_route_hint"}
                 = {<<"changed_route_hint", p, {p[1], p[2]}>> :
                       p \in {x \in rp(base) \cap rp(latest) : r(base)[x] # r(latest)[x]}}
  <1> DEFINE all == AllChanges(base, latest)
             nb == NeighbourPairs(base.links)
             nl == NeighbourPairs(latest.links)
             rb == RoutePairs(base.links)
             rl == RoutePairs(latest.links)
             qb == NeighbourLqi(base.links)
             ql == NeighbourLqi(latest.links)
             cb == RouteCounts(base.links)
             cl == RouteCounts(latest.links)
             nc == {x \in nb \cap nl : LqiChanged(ql[x], qb[x])}
             rc == {x \in rb \cap rl : cb[x] # cl[x]}
             NN(t, S) == {<<t, p, p>> : p \in S}
             RR(t, S) == {<<t, p, {p[1], p[2]}>> : p \in S}
             ND(t, S) == {<<t, d, {d}>> : d \in S}
  <1>1. DOMAIN qb = nb /\ DOMAIN ql = nl /\ DOMAIN cb = rb /\ DOMAIN cl = rl
    BY DEF NeighbourLqi, RouteCounts
  <1>2. NeighbourChanges(base, latest) =
           NN("new_neighbour_link", nl \ nb) \cup NN("missing_neighbour_link", nb \ nl)
           \cup NN("changed_neighbour_link", nc)
    BY <1>1 DEF NeighbourChanges, Change
  <1>3. RouteChanges(base, latest) =
           RR("new_route_hint", rl \ rb) \cup RR("missing_route_hint", rb \ rl)
           \cup RR("changed_route_hint", rc)
    BY <1>1 DEF RouteChanges, Change
  <1>4. DeviceChanges(base, latest) =
           ND("newly_observed_device", latest.nodes \ base.nodes)
           \cup ND("device_no_topology_evidence", base.nodes \ latest.nodes)
    BY DEF DeviceChanges, Change
  <1> HIDE DEF nb, nl, rb, rl, nc, rc
  <1>5. all = DeviceChanges(base, latest) \cup NeighbourChanges(base, latest) \cup RouteChanges(base, latest)
    BY DEF AllChanges
  <1>6. /\ \A t, S, c : c \in NN(t, S) => c[1] = t
        /\ \A t, S, c : c \in RR(t, S) => c[1] = t
        /\ \A t, S, c : c \in ND(t, S) => c[1] = t
    OBVIOUS
  <1> HIDE DEF all, NN, RR, ND
  <1>7. /\ {c \in all : c[1] = "new_neighbour_link"} = NN("new_neighbour_link", nl \ nb)
        /\ {c \in all : c[1] = "missing_neighbour_link"} = NN("missing_neighbour_link", nb \ nl)
        /\ {c \in all : c[1] = "changed_neighbour_link"} = NN("changed_neighbour_link", nc)
    BY <1>2, <1>3, <1>4, <1>5, <1>6
  <1>8. /\ {c \in all : c[1] = "new_route_hint"} = RR("new_route_hint", rl \ rb)
        /\ {c \in all : c[1] = "missing_route_hint"} = RR("missing_route_hint", rb \ rl)
        /\ {c \in all : c[1] = "changed_route_hint"} = RR("changed_route_hint", rc)
    BY <1>2, <1>3, <1>4, <1>5, <1>6
  <1> QED
    BY <1>7, <1>8 DEF all, NN, RR, nb, nl, rb, rl, nc, rc

\* There are as many changes of one type as pairs that changed that way.
LEMMA CountOfPairs ==
    ASSUME NEW t, NEW P, IsFiniteSet(P), NEW C, \A c : c \in C <=> \E p \in P : c = <<t, p, p>>
    PROVE  Cardinality(C) = Cardinality(P)
  <1> DEFINE f == [p \in P |-> <<t, p, p>>]
  <1>1. \A p, q \in P : f[p] = f[q] => p = q
    OBVIOUS
  <1>2. f \in [P -> C] /\ \A c \in C : \E p \in P : f[p] = c
    OBVIOUS
  <1> HIDE DEF f
  <1> QED
    BY <1>1, <1>2, SameCount

\* The same for the directed pairs of the routes.
LEMMA CountOfRoutes ==
    ASSUME NEW t, NEW P, IsFiniteSet(P), NEW C, \A c : c \in C <=> \E p \in P : c = <<t, p, {p[1], p[2]}>>
    PROVE  Cardinality(C) = Cardinality(P)
  <1> DEFINE f == [p \in P |-> <<t, p, {p[1], p[2]}>>]
  <1>1. \A p, q \in P : f[p] = f[q] => p = q
    OBVIOUS
  <1>2. f \in [P -> C] /\ \A c \in C : \E p \in P : f[p] = c
    OBVIOUS
  <1> HIDE DEF f
  <1> QED
    BY <1>1, <1>2, SameCount

\* What one map says of a device.
LEMMA EvidenceIs ==
    ASSUME NEW s, NEW d
    PROVE  LET e == device_snapshot_evidence(s, d)
               np == {p \in NeighbourPairs(s.links) : d \in p}
               rp == {p \in RoutePairs(s.links) : d \in {p[1], p[2]}} IN
           /\ e.present <=> d \in s.nodes \cup LinkedIn(s.links)
           /\ e.present \in BOOLEAN
           /\ DOMAIN e.lqi = np /\ \A p \in np : e.lqi[p] = NeighbourLqi(s.links)[p]
           /\ DOMAIN e.routes = rp /\ \A p \in rp : e.routes[p] = RouteCounts(s.links)[p]
  <1> DEFINE q == NeighbourLqi(s.links)
             r == RouteCounts(s.links)
             lqi == [p \in {x \in DOMAIN q : d \in x} |-> q[p]]
             routes == [x \in {y \in DOMAIN r : d \in {y[1], y[2]}} |-> r[x]]
             e == device_snapshot_evidence(s, d)
  <1>1. DOMAIN q = NeighbourPairs(s.links) /\ DOMAIN r = RoutePairs(s.links)
    BY DEF NeighbourLqi, RouteCounts
  <1>2. e = [present |-> d \in s.nodes \cup LinkedIn(s.links), lqi |-> lqi, routes |-> routes]
    BY DEF device_snapshot_evidence
  <1> HIDE DEF q, r, e
  <1>3. /\ DOMAIN lqi = {x \in DOMAIN q : d \in x}
        /\ \A p \in {x \in DOMAIN q : d \in x} : lqi[p] = q[p]
    OBVIOUS
  <1>4. /\ DOMAIN routes = {y \in DOMAIN r : d \in {y[1], y[2]}}
        /\ \A p \in {y \in DOMAIN r : d \in {y[1], y[2]}} : routes[p] = r[p]
    OBVIOUS
  <1> HIDE DEF lqi, routes
  <1>5. e.lqi = lqi /\ e.routes = routes
    BY <1>2
  <1>6. e.present = (d \in s.nodes \cup LinkedIn(s.links))
    BY <1>2
  <1>7. (e.present <=> d \in s.nodes \cup LinkedIn(s.links)) /\ e.present \in BOOLEAN
    <2> DEFINE in == d \in s.nodes \cup LinkedIn(s.links)
    <2>1. e.present = in
      BY <1>6
    <2>2. in \in BOOLEAN
      OBVIOUS
    <2> HIDE DEF in
    <2>3. (e.present <=> in) /\ e.present \in BOOLEAN
      BY <2>1, <2>2
    <2> QED
      BY Zenon, <2>3 DEF in
  <1>8. LET np == {p \in NeighbourPairs(s.links) : d \in p}
            rp == {p \in RoutePairs(s.links) : d \in {p[1], p[2]}} IN
        /\ DOMAIN e.lqi = np /\ \A p \in np : e.lqi[p] = q[p]
        /\ DOMAIN e.routes = rp /\ \A p \in rp : e.routes[p] = r[p]
    BY <1>1, <1>3, <1>4, <1>5
  <1> QED
    BY Zenon, <1>7, <1>8 DEF q, r, e

\* A map that shows the device where the latest one does not is a change.
LEMMA PresenceIs ==
    ASSUME NEW latest, NEW selected, NEW issue, NEW coverage
    PROVE  LET c == comparison_to_latest(latest, selected, issue, coverage) IN
           /\ c.presence.latest = latest.present /\ c.presence.selected = selected.present
           /\ c.status = "no_notable_change" => latest.present = selected.present
  <1> DEFINE Both(f) == DOMAIN latest[f] \cap DOMAIN selected[f]
             links   == PairCounts(latest.lqi, selected.lqi,
                                   {p \in Both("lqi") : LqiChanged(latest.lqi[p], selected.lqi[p])})
             routes  == PairCounts(latest.routes, selected.routes,
                                   {p \in Both("routes") : latest.routes[p] # selected.routes[p]})
             Total(c) == c.latestOnly + c.selectedOnly + c.changed
             gone    == links.latest = 0 /\ links.selected > 0
             any     == latest.present # selected.present \/ Total(links) > 0 \/ Total(routes) > 0
             status  == IF issue /\ any THEN "worth_reviewing"
                        ELSE IF gone \/ Total(links) >= WatchLinks THEN "watch"
                        ELSE IF Total(routes) > 0 /\ coverage # "tracked" THEN "watch"
                        ELSE IF any THEN "changed"
                        ELSE "no_notable_change"
             presence == [latest |-> latest.present, selected |-> selected.present]
             c == comparison_to_latest(latest, selected, issue, coverage)
  <1>1. /\ c.status = status /\ c.links = links /\ c.routes = routes /\ c.presence = presence
    BY DEF comparison_to_latest
  <1>2. status = "no_notable_change" => ~any
    OBVIOUS
  <1>3. presence.latest = latest.present /\ presence.selected = selected.present
    OBVIOUS
  <1>4. ~any => latest.present = selected.present
    OBVIOUS
  <1> HIDE DEF c, status, presence, any
  <1> QED
    BY <1>1, <1>2, <1>3, <1>4 DEF c

\* The links whose quality two maps of a device disagree about, and the routes.
LinksDiffer(latest, selected) ==
    {p \in DOMAIN latest.lqi \cap DOMAIN selected.lqi : LqiChanged(latest.lqi[p], selected.lqi[p])}
RoutesDiffer(latest, selected) ==
    {p \in DOMAIN latest.routes \cap DOMAIN selected.routes : latest.routes[p] # selected.routes[p]}

\* How the comparison of two maps counts the links and routes of a device.
LEMMA CountsAre ==
    ASSUME NEW latest, NEW selected, NEW issue, NEW coverage
    PROVE  LET c == comparison_to_latest(latest, selected, issue, coverage) IN
           /\ c.links = PairCounts(latest.lqi, selected.lqi, LinksDiffer(latest, selected))
           /\ c.routes = PairCounts(latest.routes, selected.routes, RoutesDiffer(latest, selected))
  BY DEF comparison_to_latest, LinksDiffer, RoutesDiffer

\* One row of a device's history.
LEMMA HistoryRow ==
    ASSUME NEW snaps, NEW dev, NEW tracking, NEW earliest,
           NEW i \in DOMAIN NewestOf(Usable(snaps), HistoryLimit)
    PROVE  LET u     == NewestOf(Usable(snaps), HistoryLimit)
               entry == build_device_snapshot_history(snaps, dev, tracking, earliest)[i]
               e     == device_snapshot_evidence(u[i], dev.ieee)
               cover == coverage_for_snapshot(u[i].at, i = 1, tracking, earliest) IN
           /\ entry.available <=> LayoutAvailable(u[i])
           /\ entry.available \in BOOLEAN
           /\ entry.available => entry.present = e.present
           /\ entry.comparison # Missing =>
                 /\ i > 1 /\ LayoutAvailable(u[i]) /\ LayoutAvailable(u[1])
                 /\ \E issue : entry.comparison =
                       comparison_to_latest(device_snapshot_evidence(u[1], dev.ieee), e, issue, cover)
  <1> DEFINE u == NewestOf(Usable(snaps), HistoryLimit)
             e     == device_snapshot_evidence(u[i], dev.ieee)
             ok    == LayoutAvailable(u[i])
             cover == coverage_for_snapshot(u[i].at, i = 1, tracking, earliest)
             entry == build_device_snapshot_history(snaps, dev, tracking, earliest)[i]
             links == IF ok THEN Cardinality(DOMAIN e.lqi) ELSE Missing
             state == state_near_snapshot(dev.changes, u[i].at, cover, i = 1, dev.availability)
             with  == comparison_to_latest(device_snapshot_evidence(u[1], dev.ieee), e,
                                           dev.availability = "offline", cover)
             comparison == IF i > 1 /\ ok /\ LayoutAvailable(u[1]) THEN with ELSE Missing
  <1>1. entry = [id |-> u[i].id, available |-> ok, coverage |-> cover,
               present |-> IF ok THEN e.present ELSE Missing, links |-> links, state |-> state,
               comparison |-> comparison]
    BY DEF build_device_snapshot_history
  <1>2. comparison # Missing => i > 1 /\ ok /\ LayoutAvailable(u[1]) /\ comparison = with
    OBVIOUS
  <1>3. ok \in BOOLEAN
    BY DEF LayoutAvailable
  <1> HIDE DEF entry, comparison, links, state, with, e, cover
  <1>4. /\ entry.available = ok /\ entry.comparison = comparison
        /\ entry.present = IF ok THEN e.present ELSE Missing
    BY <1>1
  <1> HIDE DEF ok
  <1>5. \E issue : with = comparison_to_latest(device_snapshot_evidence(u[1], dev.ieee), e, issue, cover)
    <2>1. WITNESS dev.availability = "offline"
    <2> QED
      BY DEF with
  <1> QED
    BY <1>2, <1>3, <1>4, <1>5 DEF entry, e, cover, ok

(***************************************************************************)
(* Network maps: the readers agree                                         *)
(***************************************************************************)

\* The maps a device's history is read from: the newest usable ones.
LEMMA HistoryMaps ==
    ASSUME NEW snaps, StoredMaps(snaps)
    PROVE  LET u == Usable(snaps)
               w == NewestOf(u, HistoryLimit) IN
           /\ w \in Seq(RangeOf(snaps)) /\ DOMAIN w \subseteq DOMAIN u
           /\ \A i \in DOMAIN w : w[i] = u[i] /\ IsList(w[i].links) /\ i \in Nat \ {0}
           /\ \A i, j \in DOMAIN w : w[i] = w[j] => i = j
           /\ \A i \in DOMAIN w : 1 \in DOMAIN w
           /\ \A i \in DOMAIN w : i > 1 => Len(u) >= 2
           /\ w # <<>> => 1 \in DOMAIN w
           /\ IsFiniteSet(DOMAIN w)
  <1> DEFINE u == Usable(snaps)
             w == NewestOf(u, HistoryLimit)
  <1>1. /\ u \in Seq(RangeOf(snaps))
        /\ \A i, j \in DOMAIN u : u[i] = u[j] => i = j
    BY UsableMaps
  <1> HIDE DEF u
  <1>2. /\ w \in Seq(RangeOf(snaps))
        /\ Len(w) = IF Len(u) < HistoryLimit THEN Len(u) ELSE HistoryLimit
        /\ \A i \in 1 .. Len(w) : w[i] = u[i]
    BY <1>1, NewestOfFacts, ReadAssumption
  <1> HIDE DEF w
  <1>3. DOMAIN w = 1 .. Len(w) /\ Len(w) \in Nat /\ DOMAIN u = 1 .. Len(u) /\ Len(u) \in Nat
    BY <1>1, <1>2
  <1>4. DOMAIN w \subseteq DOMAIN u /\ \A i \in DOMAIN w : i > 1 => Len(u) >= 2
    BY <1>2, <1>3, ReadAssumption
  <1>5. \A i, j \in DOMAIN w : w[i] = w[j] => i = j
    BY <1>1, <1>2, <1>3, <1>4
  <1>6. \A i \in DOMAIN w : w[i] = u[i] /\ IsList(w[i].links) /\ i \in Nat \ {0}
    <2>1. \A i \in DOMAIN w : w[i] = u[i] /\ w[i] \in RangeOf(snaps) /\ i \in Nat \ {0}
      BY <1>2, <1>3
    <2> QED
      BY <2>1 DEF StoredMaps
  <1>7. (\A i \in DOMAIN w : 1 \in DOMAIN w) /\ (w # <<>> => 1 \in DOMAIN w)
    <2>1. w # <<>> => Len(w) # 0
      BY <1>2
    <2> QED
      BY <1>3, <2>1
  <1>8. IsFiniteSet(DOMAIN w)
    BY <1>3, FS_Interval
  <1> QED
    BY <1>2, <1>4, <1>5, <1>6, <1>7, <1>8 DEF u, w

\* A row of a history is called changed exactly when the facts say so.
LEMMA ChangedIsAFact ==
    ASSUME NEW snaps, StoredMaps(snaps), NEW dev, NEW tracking, NEW earliest,
           NEW i \in DOMAIN NewestOf(Usable(snaps), HistoryLimit), i > 1
    PROVE  LET entry == build_device_snapshot_history(snaps, dev, tracking, earliest)[i] IN
           entry.comparison # Missing =>
              (entry.comparison.status # "no_notable_change" <=>
                  "device_latest_vs_selected_changed" \in build_device_snapshot_comparison_facts(entry))
  <1> DEFINE entry == build_device_snapshot_history(snaps, dev, tracking, earliest)[i]
             w == NewestOf(Usable(snaps), HistoryLimit)
             c == entry.comparison
             still == c.status = "no_notable_change"
             changed == c.presence.latest # c.presence.selected
             If(cond, fact) == IF cond THEN {fact} ELSE {}
             facts == If(entry.links > 0, "device_has_selected_snapshot_links")
                      \cup If(c.status # "no_notable_change", "device_latest_vs_selected_changed")
                      \cup If(entry.coverage # "tracked", "availability_coverage_affects_snapshot_comparison")
             e == device_snapshot_evidence(w[i], dev.ieee)
             f == device_snapshot_evidence(w[1], dev.ieee)
             cover == coverage_for_snapshot(w[i].at, i = 1, tracking, earliest)
  <1> SUFFICES ASSUME c # Missing
               PROVE  ~still <=> "device_latest_vs_selected_changed" \in
                                     build_device_snapshot_comparison_facts(entry)
    OBVIOUS
  <1>1. /\ entry.available <=> LayoutAvailable(w[i])
        /\ entry.available \in BOOLEAN
        /\ entry.available => entry.present = e.present
        /\ LayoutAvailable(w[i])
        /\ \E issue : c = comparison_to_latest(f, e, issue, cover)
    BY HistoryRow
  <1>2. /\ c.presence.latest = f.present /\ c.presence.selected = e.present
        /\ c.status = "no_notable_change" => f.present = e.present
    <2>1. PICK issue : c = comparison_to_latest(f, e, issue, cover)
      BY <1>1
    <2> HIDE DEF e, f, cover
    <2> DEFINE x == comparison_to_latest(f, e, issue, cover)
    <2>2. /\ x.presence.latest = f.present /\ x.presence.selected = e.present
          /\ x.status = "no_notable_change" => f.present = e.present
      BY PresenceIs
    <2> HIDE DEF x, c
    <2> QED
      BY <2>1, <2>2 DEF x
  <1>3. build_device_snapshot_comparison_facts(entry) =
           IF ~entry.available \/ c = Missing THEN {}
           ELSE IF c.presence.selected # entry.present \/ (changed /\ still) THEN {}
           ELSE facts
    BY DEF build_device_snapshot_comparison_facts
  <1> HIDE DEF entry, facts, e, f, w
  <1>4. entry.available /\ entry.present = e.present
    BY Zenon, <1>1
  <1>5. ~(c.presence.selected # entry.present) /\ ~(changed /\ still)
    BY Zenon, <1>2, <1>4
  <1>6. build_device_snapshot_comparison_facts(entry) = facts
    BY Zenon, <1>3, <1>4, <1>5
  <1>7. "device_latest_vs_selected_changed" \in facts <=> ~still
    BY DEF facts
  <1> QED
    BY <1>6, <1>7

\* A missing link is drawn as recently missing while its map is recent.
LEMMA MissingIsRecent ==
    ASSUME NEW snaps, StoredMaps(snaps), NEW now, NEW rows,
           compare_snapshots(snaps, rows).has,
           Usable(snaps)[2].at >= now - RECENT_HISTORY_WINDOW
    PROVE  {c[2] : c \in {x \in compare_snapshots(snaps, rows).changes : x[1] = "missing_neighbour_link"}}
              \subseteq {x.key : x \in historical_neighbors(snaps, now)}
  <1> DEFINE u == Usable(snaps)
             prev == Previous(snaps)
             I == {i \in DOMAIN prev : prev[i].at >= now - RECENT_HISTORY_WINDOW}
             kept == Kept(prev, I)
             recent == RecentPrevious(snaps, now)
             window == RangeOf(recent)
             latest == NeighbourPairs(LatestLinks(snaps))
  <1>1. u \in Seq(RangeOf(snaps)) /\ Len(u) >= 2
    <2>1. u \in Seq(RangeOf(snaps))
      BY UsableMaps
    <2>2. Len(u) < 2 => ~compare_snapshots(snaps, rows).has
      BY DEF compare_snapshots
    <2> HIDE DEF u
    <2> QED
      BY <2>1, <2>2
  <1>2. compare_snapshots(snaps, rows).changes = AllChanges(u[2], u[1])
    <2> HIDE DEF u
    <2>1. ~(Len(u) < 2)
      BY <1>1
    <2> QED
      BY <2>1 DEF compare_snapshots, AllChanges, u
  <1>3. prev \in Seq(RangeOf(snaps)) /\ 1 \in DOMAIN prev /\ prev[1] = u[2]
    <2>1. prev = Tail(u)
      BY <1>1 DEF Previous
    <2> HIDE DEF u, prev
    <2> QED
      BY <1>1, <2>1
  <1>4. LatestLinks(snaps) = u[1].links
    <2>1. u # <<>>
      BY <1>1
    <2> QED
      BY <2>1 DEF LatestLinks, Latest
  <1>5. 1 \in I /\ I \in SUBSET DOMAIN prev
    BY <1>3
  <1>6. recent = NewestOf(kept, RecentSnapshots)
    BY DEF RecentPrevious
  <1> HIDE DEF u, prev, I, recent
  <1>7. kept \in Seq(RangeOf(snaps)) /\ 1 \in DOMAIN kept /\ kept[1] = u[2]
    BY <1>3, <1>5, KeptSequence
  <1> HIDE DEF kept
  <1>8. 1 \in DOMAIN recent /\ recent[1] = u[2]
    <2>1. RecentSnapshots \in Nat /\ RecentSnapshots > 0
      BY RecentAssumption
    <2>2. /\ recent \in Seq(RangeOf(snaps))
          /\ Len(recent) = IF Len(kept) < RecentSnapshots THEN Len(kept) ELSE RecentSnapshots
          /\ \A i \in 1 .. Len(recent) : recent[i] = kept[i]
      BY <1>6, <1>7, <2>1, NewestOfFacts
    <2> QED
      BY <1>7, <2>1, <2>2
  <1>9. u[2] \in window
    BY <1>8 DEF RangeOf
  <1> HIDE DEF window
  <1>10. {c \in AllChanges(u[2], u[1]) : c[1] = "missing_neighbour_link"}
            = {<<"missing_neighbour_link", p, p>> :
                  p \in NeighbourPairs(u[2].links) \ NeighbourPairs(u[1].links)}
    BY ChangesByType
  <1>11. ASSUME NEW p \in NeighbourPairs(u[2].links) \ NeighbourPairs(u[1].links)
         PROVE  p \in {x.key : x \in historical_neighbors(snaps, now)}
    <2> DEFINE pairs == UNION {NeighbourPairs(s.links) : s \in window}
               G(q) == Aggregate(q, {s \in window : q \in NeighbourPairs(s.links)}, ~LatestLayout(snaps))
    <2>1. historical_neighbors(snaps, now) = {G(q) : q \in pairs \ latest}
      BY DEF historical_neighbors, window, recent
    <2>2. p \in pairs \ latest
      BY <1>4, <1>9
    <2>3. G(p).key = p
      BY DEF Aggregate
    <2> HIDE DEF G, pairs
    <2> QED
      BY <2>1, <2>2, <2>3
  <1> QED
    BY <1>2, <1>10, <1>11

\* How many changes of one type involve a device.
CountOfChanges(changes, t, d) == Cardinality({x \in changes : x[1] = t /\ d \in x[3]})

\* The history of a device and the comparison of two maps count the same links.
LEMMA LinkCountsAgree ==
    ASSUME NEW base, NEW latest, NEW d, IsList(base.links), IsList(latest.links)
    PROVE  LET e == device_snapshot_evidence(base, d)
               f == device_snapshot_evidence(latest, d)
               c == PairCounts(f.lqi, e.lqi, LinksDiffer(f, e))
               N(t) == CountOfChanges(AllChanges(base, latest), t, d) IN
           /\ c.latestOnly = N("new_neighbour_link")
           /\ c.selectedOnly = N("missing_neighbour_link")
           /\ c.changed = N("changed_neighbour_link")
  <1> DEFINE e == device_snapshot_evidence(base, d).lqi
             f == device_snapshot_evidence(latest, d).lqi
             nb == NeighbourPairs(base.links)
             nl == NeighbourPairs(latest.links)
             qb == NeighbourLqi(base.links)
             ql == NeighbourLqi(latest.links)
             all == AllChanges(base, latest)
             N(t) == Cardinality({x \in all : x[1] = t /\ d \in x[3]})
             All(t) == {x \in all : x[1] = t}
             Image(t, X) == {<<t, p, p>> : p \in X}
             Mine(X) == {p \in X : d \in p}
             new == nl \ nb
             missing == nb \ nl
             changed == {x \in nb \cap nl : LqiChanged(ql[x], qb[x])}
             C == {p \in DOMAIN f \cap DOMAIN e : LqiChanged(f[p], e[p])}
             c == PairCounts(f, e, C)
  <1>1. /\ DOMAIN e = {p \in nb : d \in p} /\ \A p \in DOMAIN e : e[p] = qb[p]
        /\ DOMAIN f = {p \in nl : d \in p} /\ \A p \in DOMAIN f : f[p] = ql[p]
    BY EvidenceIs
  <1>2. IsFiniteSet(nb) /\ IsFiniteSet(nl)
    BY FiniteLinks
  <1>3. /\ All("new_neighbour_link") = Image("new_neighbour_link", new)
        /\ All("missing_neighbour_link") = Image("missing_neighbour_link", missing)
        /\ All("changed_neighbour_link") = Image("changed_neighbour_link", changed)
    BY ChangesByType
  <1>4. IsFiniteSet(new) /\ IsFiniteSet(missing) /\ IsFiniteSet(changed)
    <2>1. new \in SUBSET nl /\ missing \in SUBSET nb /\ changed \in SUBSET nb
      OBVIOUS
    <2> HIDE DEF new, missing, changed, nb, nl
    <2> QED
      BY <1>2, <2>1, FS_Subset
  <1>5. /\ c.latestOnly = Cardinality(DOMAIN f \ DOMAIN e)
        /\ c.selectedOnly = Cardinality(DOMAIN e \ DOMAIN f)
        /\ c.changed = Cardinality(C)
    BY DEF PairCounts
  <1> HIDE DEF nb, nl, qb, ql, e, f, all, c
  <1>6. /\ DOMAIN f \ DOMAIN e = {p \in new : d \in p}
        /\ DOMAIN e \ DOMAIN f = {p \in missing : d \in p}
    BY <1>1
  <1>7. C = {p \in changed : d \in p}
    <2>1. ASSUME NEW p PROVE p \in C <=> p \in changed /\ d \in p
      BY <1>1
    <2> HIDE DEF C, changed
    <2> QED
      BY <2>1
  <1> HIDE DEF new, missing, changed, C
  <1>8. ASSUME NEW t, NEW X, IsFiniteSet(X), All(t) = Image(t, X)
        PROVE  N(t) = Cardinality(Mine(X))
    <2> DEFINE changes == {x \in all : x[1] = t /\ d \in x[3]}
               pairs == Mine(X)
    <2>1. pairs \in SUBSET X
      OBVIOUS
    <2>2. \A x : x \in All(t) <=> \E p \in X : x = <<t, p, p>>
      BY <1>8
    <2>3. \A x : x \in changes <=> x \in All(t) /\ d \in x[3]
      OBVIOUS
    <2> HIDE DEF changes, All
    <2>4. \A x : x \in changes <=> \E p \in pairs : x = <<t, p, p>>
      BY <2>2, <2>3
    <2> HIDE DEF pairs
    <2>5. IsFiniteSet(pairs)
      BY <1>8, <2>1, FS_Subset
    <2>6. Cardinality(changes) = Cardinality(pairs)
      BY <2>4, <2>5, CountOfPairs
    <2> QED
      BY <2>6 DEF changes, pairs
  <1> HIDE DEF N, All, Image, Mine
  <1>9. /\ N("new_neighbour_link") = Cardinality(Mine(new))
        /\ N("missing_neighbour_link") = Cardinality(Mine(missing))
        /\ N("changed_neighbour_link") = Cardinality(Mine(changed))
    BY <1>3, <1>4, <1>8
  <1> QED
    BY <1>5, <1>6, <1>7, <1>9 DEF e, f, all, c, C, N, Mine, CountOfChanges, LinksDiffer

\* The history of a device and the comparison of two maps count the same routes.
LEMMA RouteCountsAgree ==
    ASSUME NEW base, NEW latest, NEW d, IsList(base.links), IsList(latest.links)
    PROVE  LET e == device_snapshot_evidence(base, d)
               f == device_snapshot_evidence(latest, d)
               c == PairCounts(f.routes, e.routes, RoutesDiffer(f, e))
               N(t) == CountOfChanges(AllChanges(base, latest), t, d) IN
           /\ c.latestOnly = N("new_route_hint")
           /\ c.selectedOnly = N("missing_route_hint")
           /\ c.changed = N("changed_route_hint")
  <1> DEFINE e == device_snapshot_evidence(base, d).routes
             f == device_snapshot_evidence(latest, d).routes
             nb == RoutePairs(base.links)
             nl == RoutePairs(latest.links)
             qb == RouteCounts(base.links)
             ql == RouteCounts(latest.links)
             all == AllChanges(base, latest)
             N(t) == Cardinality({x \in all : x[1] = t /\ d \in x[3]})
             All(t) == {x \in all : x[1] = t}
             Image(t, X) == {<<t, p, {p[1], p[2]}>> : p \in X}
             Mine(X) == {p \in X : d \in {p[1], p[2]}}
             new == nl \ nb
             missing == nb \ nl
             changed == {x \in nb \cap nl : qb[x] # ql[x]}
             C == {p \in DOMAIN f \cap DOMAIN e : f[p] # e[p]}
             c == PairCounts(f, e, C)
  <1>1. /\ DOMAIN e = {p \in nb : d \in {p[1], p[2]}} /\ \A p \in DOMAIN e : e[p] = qb[p]
        /\ DOMAIN f = {p \in nl : d \in {p[1], p[2]}} /\ \A p \in DOMAIN f : f[p] = ql[p]
    BY EvidenceIs
  <1>2. IsFiniteSet(nb) /\ IsFiniteSet(nl)
    BY FiniteLinks
  <1>3. /\ All("new_route_hint") = Image("new_route_hint", new)
        /\ All("missing_route_hint") = Image("missing_route_hint", missing)
        /\ All("changed_route_hint") = Image("changed_route_hint", changed)
    BY ChangesByType
  <1>4. IsFiniteSet(new) /\ IsFiniteSet(missing) /\ IsFiniteSet(changed)
    <2>1. new \in SUBSET nl /\ missing \in SUBSET nb /\ changed \in SUBSET nb
      OBVIOUS
    <2> HIDE DEF new, missing, changed, nb, nl
    <2> QED
      BY <1>2, <2>1, FS_Subset
  <1>5. /\ c.latestOnly = Cardinality(DOMAIN f \ DOMAIN e)
        /\ c.selectedOnly = Cardinality(DOMAIN e \ DOMAIN f)
        /\ c.changed = Cardinality(C)
    BY DEF PairCounts
  <1> HIDE DEF nb, nl, qb, ql, e, f, all, c
  <1>6. /\ DOMAIN f \ DOMAIN e = {p \in new : d \in {p[1], p[2]}}
        /\ DOMAIN e \ DOMAIN f = {p \in missing : d \in {p[1], p[2]}}
    BY <1>1
  <1>7. C = {p \in changed : d \in {p[1], p[2]}}
    <2>1. ASSUME NEW p PROVE p \in C <=> p \in changed /\ d \in {p[1], p[2]}
      BY <1>1
    <2> HIDE DEF C, changed
    <2> QED
      BY <2>1
  <1> HIDE DEF new, missing, changed, C
  <1>8. ASSUME NEW t, NEW X, IsFiniteSet(X), All(t) = Image(t, X)
        PROVE  N(t) = Cardinality(Mine(X))
    <2> DEFINE changes == {x \in all : x[1] = t /\ d \in x[3]}
               pairs == Mine(X)
    <2>1. pairs \in SUBSET X
      OBVIOUS
    <2>2. \A x : x \in All(t) <=> \E p \in X : x = <<t, p, {p[1], p[2]}>>
      BY <1>8
    <2>3. \A x : x \in changes <=> x \in All(t) /\ d \in x[3]
      OBVIOUS
    <2> HIDE DEF changes, All
    <2>4. \A x : x \in changes <=> \E p \in pairs : x = <<t, p, {p[1], p[2]}>>
      BY <2>2, <2>3
    <2> HIDE DEF pairs
    <2>5. IsFiniteSet(pairs)
      BY <1>8, <2>1, FS_Subset
    <2>6. Cardinality(changes) = Cardinality(pairs)
      BY <2>4, <2>5, CountOfRoutes
    <2> QED
      BY <2>6 DEF changes, pairs
  <1> HIDE DEF N, All, Image, Mine
  <1>9. /\ N("new_route_hint") = Cardinality(Mine(new))
        /\ N("missing_route_hint") = Cardinality(Mine(missing))
        /\ N("changed_route_hint") = Cardinality(Mine(changed))
    BY <1>3, <1>4, <1>8
  <1> QED
    BY <1>5, <1>6, <1>7, <1>9 DEF e, f, all, c, C, N, Mine, CountOfChanges, RoutesDiffer

\* The second row of a history counts the changes of the comparison.
LEMMA SecondRowCounts ==
    ASSUME NEW snaps, StoredMaps(snaps), NEW dev, NEW tracking, NEW earliest, NEW rows,
           2 \in DOMAIN NewestOf(Usable(snaps), HistoryLimit)
    PROVE  LET c == build_device_snapshot_history(snaps, dev, tracking, earliest)[2].comparison
               N(t) == CountOfChanges(compare_snapshots(snaps, rows).changes, t, dev.ieee) IN
           c # Missing =>
              /\ c.links.latestOnly = N("new_neighbour_link")
              /\ c.links.selectedOnly = N("missing_neighbour_link")
              /\ c.links.changed = N("changed_neighbour_link")
              /\ c.routes.latestOnly = N("new_route_hint")
              /\ c.routes.selectedOnly = N("missing_route_hint")
              /\ c.routes.changed = N("changed_route_hint")
  <1> DEFINE u == Usable(snaps)
             w == NewestOf(u, HistoryLimit)
             d == dev.ieee
             c == build_device_snapshot_history(snaps, dev, tracking, earliest)[2].comparison
             changes == compare_snapshots(snaps, rows).changes
             N(t) == CountOfChanges(changes, t, d)
             e == device_snapshot_evidence(u[2], d)
             f == device_snapshot_evidence(u[1], d)
             links == PairCounts(f.lqi, e.lqi, LinksDiffer(f, e))
             routes == PairCounts(f.routes, e.routes, RoutesDiffer(f, e))
  <1>1. /\ w[1] = u[1] /\ w[2] = u[2] /\ IsList(u[1].links) /\ IsList(u[2].links)
        /\ ~(Len(u) < 2)
    <2>1. /\ \A i \in DOMAIN w : w[i] = u[i] /\ IsList(w[i].links)
          /\ \A i \in DOMAIN w : 1 \in DOMAIN w
          /\ \A i \in DOMAIN w : i > 1 => Len(u) >= 2
          /\ u \in Seq(RangeOf(snaps))
      BY HistoryMaps, UsableMaps
    <2> HIDE DEF u, w
    <2>2. 2 \in DOMAIN w /\ Len(u) \in Nat
      BY <2>1 DEF u, w
    <2> QED
      BY <2>1, <2>2
  <1>2. changes = AllChanges(u[2], u[1])
    BY <1>1 DEF compare_snapshots, AllChanges
  <1>3. ASSUME c # Missing PROVE c.links = links /\ c.routes = routes
    <2>1. \E issue, cover : c = comparison_to_latest(device_snapshot_evidence(w[1], d),
                                                     device_snapshot_evidence(w[2], d), issue, cover)
      BY <1>3, HistoryRow
    <2>2. PICK issue, cover : c = comparison_to_latest(f, e, issue, cover)
      BY <1>1, <2>1
    <2> HIDE DEF e, f, c
    <2> QED
      BY <2>2, CountsAre
  <1>4. LET M(t) == CountOfChanges(AllChanges(u[2], u[1]), t, d) IN
        /\ links.latestOnly = M("new_neighbour_link")
        /\ links.selectedOnly = M("missing_neighbour_link")
        /\ links.changed = M("changed_neighbour_link")
    <2> HIDE DEF u, d
    <2> QED
      BY <1>1, LinkCountsAgree DEF e, f, links
  <1>5. LET M(t) == CountOfChanges(AllChanges(u[2], u[1]), t, d) IN
        /\ routes.latestOnly = M("new_route_hint")
        /\ routes.selectedOnly = M("missing_route_hint")
        /\ routes.changed = M("changed_route_hint")
    <2> HIDE DEF u, d
    <2> QED
      BY <1>1, RouteCountsAgree DEF e, f, routes
  <1> HIDE DEF links, routes, changes, c, u
  <1> QED
    BY <1>2, <1>3, <1>4, <1>5 DEF c, changes

\* The first row of a history shows the device exactly when the facts do.
LEMMA PresenceIsAFact ==
    ASSUME NEW snaps, StoredMaps(snaps), NEW dev, NEW tracking, NEW earliest
    PROVE  LET hist == build_device_snapshot_history(snaps, dev, tracking, earliest)
               facts == build_topology_facts_from_evidence_graph(snaps, dev.ieee, hist) IN
           hist # <<>> /\ hist[1].available =>
              (hist[1].present <=> "device_seen_in_latest_snapshot" \in facts.device)
  <1> DEFINE u == Usable(snaps)
             w == NewestOf(u, HistoryLimit)
             d == dev.ieee
             hist == build_device_snapshot_history(snaps, dev, tracking, earliest)
             facts == build_topology_facts_from_evidence_graph(snaps, d, hist)
             seen == "device_seen_in_latest_snapshot"
             absent == "device_absent_from_latest_snapshot"
             latest == build_device_latest_topology_facts(snaps, d)
             n == DeviceLinkCount(LatestLinks(snaps), d)
             here == d \in u[1].nodes \/ n > 0
             in == d \in u[1].nodes \cup LinkedIn(u[1].links)
             shown == hist # <<>> /\ hist[1].available /\ hist[1].present
  <1> SUFFICES ASSUME hist # <<>>, hist[1].available
               PROVE  hist[1].present <=> seen \in facts.device
    OBVIOUS
  <1>1. DOMAIN hist = DOMAIN w
    BY DEF build_device_snapshot_history
  <1>2. 1 \in DOMAIN w
    <2>1. w # <<>> => 1 \in DOMAIN w
      BY HistoryMaps
    <2>2. w = <<>> => hist = <<>>
      BY DEF build_device_snapshot_history
    <2> QED
      BY <2>1, <2>2
  <1>3. w[1] = u[1] /\ IsList(u[1].links) /\ u # <<>>
    <2>1. \A i \in DOMAIN w : w[i] = u[i] /\ IsList(w[i].links)
      BY HistoryMaps
    <2>2. DOMAIN w \subseteq DOMAIN u
      BY HistoryMaps
    <2> HIDE DEF u, w
    <2> QED
      BY <1>2, <2>1, <2>2
  <1>4. /\ hist[1].available <=> LayoutAvailable(u[1])
        /\ hist[1].available \in BOOLEAN
        /\ hist[1].available => hist[1].present = device_snapshot_evidence(u[1], d).present
    <2>1. /\ hist[1].available <=> LayoutAvailable(w[1])
          /\ hist[1].available \in BOOLEAN
          /\ hist[1].available => hist[1].present = device_snapshot_evidence(w[1], d).present
      BY <1>2, HistoryRow
    <2> QED
      BY Zenon, <1>3, <2>1
  <1>5. /\ device_snapshot_evidence(u[1], d).present <=> in
        /\ device_snapshot_evidence(u[1], d).present \in BOOLEAN
    BY EvidenceIs
  <1>6. LatestLinks(snaps) = u[1].links /\ (LatestLayout(snaps) <=> LayoutAvailable(u[1]))
    BY <1>3 DEF LatestLinks, LatestLayout, Latest
  <1>7. n \in Nat /\ (n > 0 => d \in LinkedIn(u[1].links))
    BY <1>3, <1>6, FiniteLinks
  <1>8. here => in
    BY <1>7
  <1>9. latest = IF ~LatestLayout(snaps) THEN {}
                 ELSE {IF here THEN seen ELSE absent,
                       IF n > 0 THEN "device_has_latest_links" ELSE "device_no_latest_links"}
    BY DEF build_device_latest_topology_facts
  <1>10. facts.device = IF shown /\ absent \in latest THEN (latest \ {absent}) \cup {seen} ELSE latest
    BY DEF build_topology_facts_from_evidence_graph
  <1> HIDE DEF n, here, in, latest, facts, shown, u, hist
  <1>11. LatestLayout(snaps)
    BY Zenon, <1>4, <1>6
  <1>12. latest = {IF here THEN seen ELSE absent,
                   IF n > 0 THEN "device_has_latest_links" ELSE "device_no_latest_links"}
    BY <1>9, <1>11
  <1>13. (seen \in latest <=> here) /\ (absent \in latest <=> ~here)
    BY <1>12
  <1>14. hist[1].present <=> in
    BY Zenon, <1>4, <1>5
  <1>15. shown <=> in
    BY Zenon, <1>14 DEF shown
  <1>16. seen \in facts.device <=> shown \/ here
    <2>1. CASE shown /\ absent \in latest
      BY <1>10, <2>1
    <2>2. CASE ~(shown /\ absent \in latest)
      <3>1. facts.device = latest
        BY <1>10, <2>2
      <3> QED
        BY <1>13, <2>2, <3>1
    <2> QED
      BY <2>1, <2>2
  <1> QED
    BY Zenon, <1>8, <1>14, <1>15, <1>16

\* Distinct maps are as many as their places.
LEMMA CountOfPlaces ==
    ASSUME NEW w, IsFiniteSet(DOMAIN w), \A i, j \in DOMAIN w : w[i] = w[j] => i = j,
           NEW I \in SUBSET DOMAIN w, NEW S, \A s : s \in S <=> \E i \in I : s = w[i]
    PROVE  Cardinality(S) = Cardinality(I)
  <1> DEFINE f == [i \in I |-> w[i]]
  <1>1. IsFiniteSet(I)
    BY FS_Subset
  <1>2. f \in [I -> S] /\ (\A i, j \in I : f[i] = f[j] => i = j) /\ \A s \in S : \E i \in I : f[i] = s
    OBVIOUS
  <1> HIDE DEF f
  <1> QED
    BY <1>1, <1>2, SameCount

\* The coverage counts the rows of the history.
LEMMA CoverageCountsRows ==
    ASSUME NEW snaps, StoredMaps(snaps), NEW dev, NEW tracking, NEW earliest
    PROVE  LET hist  == build_device_snapshot_history(snaps, dev, tracking, earliest)
               count == count_device_topology_history(snaps, dev.ieee) IN
           /\ count.available = Cardinality({i \in DOMAIN hist : hist[i].available})
           /\ count.observed = Cardinality({i \in DOMAIN hist : hist[i].available /\ hist[i].present})
  <1> DEFINE w == NewestOf(Usable(snaps), HistoryLimit)
             d == dev.ieee
             hist == build_device_snapshot_history(snaps, dev, tracking, earliest)
             count == count_device_topology_history(snaps, d)
             ok == {s \in RangeOf(w) : LayoutAvailable(s)}
             on == {s \in ok : d \in s.nodes \cup LinkedIn(s.links)}
             I == {i \in DOMAIN hist : hist[i].available}
             J == {i \in DOMAIN hist : hist[i].available /\ hist[i].present}
  <1>1. IsFiniteSet(DOMAIN w) /\ \A i, j \in DOMAIN w : w[i] = w[j] => i = j
    BY HistoryMaps
  <1>2. count.available = Cardinality(ok) /\ count.observed = Cardinality(on)
    BY DEF count_device_topology_history
  <1>3. DOMAIN hist = DOMAIN w
    BY DEF build_device_snapshot_history
  <1>4. ASSUME NEW i \in DOMAIN w
        PROVE  /\ hist[i].available <=> LayoutAvailable(w[i])
               /\ hist[i].available => (hist[i].present <=> d \in w[i].nodes \cup LinkedIn(w[i].links))
    <2> DEFINE e == device_snapshot_evidence(w[i], d)
               entry == hist[i]
               in == d \in w[i].nodes \cup LinkedIn(w[i].links)
    <2>1. /\ entry.available <=> LayoutAvailable(w[i])
          /\ entry.available => entry.present = e.present
      BY HistoryRow
    <2>2. (e.present <=> in) /\ e.present \in BOOLEAN
      BY EvidenceIs
    <2> HIDE DEF e, entry, in
    <2>3. entry.available => (entry.present <=> in)
      BY Zenon, <2>1, <2>2
    <2> QED
      BY Zenon, <2>1, <2>3 DEF entry, in
  <1> HIDE DEF hist, count
  <1>5. \A s : s \in RangeOf(w) <=> \E i \in DOMAIN w : s = w[i]
    BY DEF RangeOf
  <1> HIDE DEF w
  <1>6. I \in SUBSET DOMAIN w /\ \A s : s \in ok <=> \E i \in I : s = w[i]
    BY Zenon, <1>3, <1>4, <1>5
  <1>7. J \in SUBSET DOMAIN w /\ \A s : s \in on <=> \E i \in J : s = w[i]
    BY Zenon, <1>3, <1>4, <1>5
  <1> HIDE DEF I, J, ok, on
  <1>8. Cardinality(ok) = Cardinality(I) /\ Cardinality(on) = Cardinality(J)
    BY <1>1, <1>6, <1>7, CountOfPlaces
  <1> QED
    BY <1>2, <1>8 DEF I, J, count, hist

\* Whatever maps are stored, their readers agree about every device.
THEOREM ReadersAgreeAlways ==
    ASSUME NEW snaps, StoredMaps(snaps), NEW now, NEW dev, NEW tracking, NEW earliest, NEW rows
    PROVE  ReadersAgree(snaps, now, dev, tracking, earliest, rows)
  <1> DEFINE d     == dev.ieee
             u     == Usable(snaps)
             w     == NewestOf(u, HistoryLimit)
             hist  == build_device_snapshot_history(snaps, dev, tracking, earliest)
             facts == build_topology_facts_from_evidence_graph(snaps, d, hist)
             cmp   == compare_snapshots(snaps, rows)
             count == count_device_topology_history(snaps, d)
             N(type) == CountOfChanges(cmp.changes, type, d)
  <1>1. DOMAIN hist = DOMAIN w /\ \A i \in DOMAIN w : i \in Nat
    BY HistoryMaps DEF build_device_snapshot_history
  <1>2. ASSUME NEW i \in DOMAIN hist, i > 1, hist[i].comparison # Missing
        PROVE  hist[i].comparison.status # "no_notable_change" <=>
                    "device_latest_vs_selected_changed" \in facts.comparison[i]
    <2>1. i \in DOMAIN hist \ {1}
      BY <1>2, <1>1
    <2>2. facts.comparison[i] = build_device_snapshot_comparison_facts(hist[i])
      BY <2>1 DEF build_topology_facts_from_evidence_graph
    <2>3. i \in DOMAIN w
      BY <1>1, <1>2
    <2> QED
      BY <1>2, <2>2, <2>3, ChangedIsAFact
  <1>3. ASSUME 2 \in DOMAIN hist, hist[2].comparison # Missing
        PROVE  LET c == hist[2].comparison IN
               /\ c.links.latestOnly = N("new_neighbour_link")
               /\ c.links.selectedOnly = N("missing_neighbour_link")
               /\ c.links.changed = N("changed_neighbour_link")
               /\ c.routes.latestOnly = N("new_route_hint")
               /\ c.routes.selectedOnly = N("missing_route_hint")
               /\ c.routes.changed = N("changed_route_hint")
    BY <1>1, <1>3, SecondRowCounts
  <1>4. hist # <<>> /\ hist[1].available =>
             (hist[1].present <=> "device_seen_in_latest_snapshot" \in facts.device)
    BY PresenceIsAFact
  <1>5. /\ count.available = Cardinality({i \in DOMAIN hist : hist[i].available})
        /\ count.observed = Cardinality({i \in DOMAIN hist : hist[i].available /\ hist[i].present})
    BY CoverageCountsRows
  <1>6. cmp.has /\ u[2].at >= now - RECENT_HISTORY_WINDOW =>
             {c[2] : c \in {x \in cmp.changes : x[1] = "missing_neighbour_link"}}
                 \subseteq {x.key : x \in historical_neighbors(snaps, now)}
    BY MissingIsRecent
  <1> HIDE DEF hist, facts, cmp, count, u
  <1> QED
    BY <1>2, <1>3, <1>4, <1>5, <1>6
       DEF ReadersAgree, CountOfChanges, hist, facts, cmp, count, u

\* The questions about maps are about stored maps.
TopologyInput ==
    /\ topic = "seed topology" => input.id = 9 /\ input.links \in LinkLists
    /\ topic = "topology" => StoredMaps(input.snaps)

\* The lists of links of the run are lists.
LEMMA LinkListsAre == \A t \in LinkLists : IsList(t)
  <1> SUFFICES ASSUME NEW t \in LinkLists PROVE IsList(t)
    OBVIOUS
  <1>1. t = <<>> \/ (\E l \in Links : t = <<l>>) \/ (\E l, k \in Links : t = <<l, k>>)
    BY DEF LinkLists
  <1>2. \A l, k \in Links : <<>> \in Seq(Links) /\ <<l>> \in Seq(Links) /\ <<l, k>> \in Seq(Links)
    OBVIOUS
  <1>3. t \in Seq(Links)
    <2>1. CASE t = <<>>
      BY <2>1
    <2>2. ASSUME NEW l \in Links, t = <<l>> PROVE t \in Seq(Links)
      BY <1>2, <2>2
    <2>3. ASSUME NEW l \in Links, NEW k \in Links, t = <<l, k>> PROVE t \in Seq(Links)
      BY <1>2, <2>3
    <2> QED
      BY <1>1, <2>1, <2>2, <2>3
  <1> QED
    BY <1>3, SequenceIsList

\* A history of at most one older map.
LEMMA EarlierIs ==
    ASSUME NEW older \in Earlier
    PROVE  \/ older = <<>>
           \/ \E m : older = <<m>> /\ m.id = 7 /\ IsList(m.links)
  <1> DEFINE a == Link(1, 3, 100, 1)
             b == Link(2, 3, 60, Missing)
             none == Snap(7, 9000, "failed", {}, <<>>)
             some == Snap(7, 100, "complete", {1, 2, 3}, <<a, b>>)
  <1>1. older = <<>> \/ older = <<none>> \/ older = <<some>>
    BY DEF Earlier
  <1> HIDE DEF a, b
  <1>2. <<a, b>> \in Seq({a, b}) /\ <<>> \in Seq({a, b})
    OBVIOUS
  <1>3. none.id = 7 /\ none.links = <<>> /\ some.id = 7 /\ some.links = <<a, b>>
    BY DEF Snap
  <1> HIDE DEF none, some
  <1>4. IsList(none.links) /\ IsList(some.links)
    BY <1>2, <1>3, SequenceIsList
  <1> QED
    BY <1>1, <1>3, <1>4

\* Two lists joined.
LEMMA Joined ==
    ASSUME NEW S, NEW s \in Seq(S), NEW t \in Seq(S)
    PROVE  /\ s \o t \in Seq(S) /\ Len(s \o t) = Len(s) + Len(t)
           /\ \A i \in 1 .. Len(s) + Len(t) : (s \o t)[i] = IF i <= Len(s) THEN s[i] ELSE t[i - Len(s)]
  OBVIOUS

\* Every question about maps is about stored maps.
LEMMA TopologyQuestionIs ==
    ASSUME NEW latest, latest.id = 9, latest.links \in LinkLists, NEW s \in TopologySettings
    PROVE  StoredMaps(TopologyQuestion(latest, s).snaps)
  <1> DEFINE older == s.older
             second == Snap(8, s.at, "complete", s.nodes, s.links)
             snaps == <<latest, second>> \o older
  <1>1. s.links \in LinkLists /\ older \in Earlier
    BY DEF TopologySettings
  <1>2. second.id = 8 /\ IsList(second.links) /\ IsList(latest.links)
    BY <1>1, LinkListsAre DEF Snap
  <1>3. TopologyQuestion(latest, s).snaps = snaps
    BY DEF TopologyQuestion
  <1> HIDE DEF second, older
  <1>4. CASE older = <<>>
    <2>1. snaps = <<latest, second>>
      BY <1>4
    <2> HIDE DEF snaps
    <2>2. snaps \in Seq({latest, second})
      BY <2>1
    <2>3. IsList(snaps)
      BY <2>2, SequenceIsList
    <2>4. \A m \in RangeOf(snaps) : IsList(m.links)
      BY <1>2, <2>1 DEF RangeOf
    <2>5. \A i, j \in DOMAIN snaps : snaps[i].id = snaps[j].id => i = j
      BY <1>2, <2>1
    <2> QED
      BY <1>3, <2>3, <2>4, <2>5 DEF StoredMaps
  <1>5. ASSUME NEW m, older = <<m>>, m.id = 7, IsList(m.links)
        PROVE  StoredMaps(TopologyQuestion(latest, s).snaps)
    <2>1. /\ snaps \in Seq({latest, second, m}) /\ Len(snaps) = 3
          /\ snaps[1] = latest /\ snaps[2] = second /\ snaps[3] = m
      <3> DEFINE S == {latest, second, m}
                 two == <<latest, second>>
                 one == <<m>>
      <3>1. two \in Seq(S) /\ Len(two) = 2 /\ two[1] = latest /\ two[2] = second
        OBVIOUS
      <3>2. one \in Seq(S) /\ Len(one) = 1 /\ one[1] = m
        OBVIOUS
      <3>3. snaps = two \o one
        BY <1>5
      <3> HIDE DEF two, one, snaps, S
      <3>4. /\ two \o one \in Seq(S) /\ Len(two \o one) = Len(two) + Len(one)
            /\ \A i \in 1 .. Len(two) + Len(one) :
                  (two \o one)[i] = IF i <= Len(two) THEN two[i] ELSE one[i - Len(two)]
        BY <3>1, <3>2, Joined
      <3> QED
        BY <3>1, <3>2, <3>3, <3>4 DEF S
    <2> HIDE DEF snaps
    <2>2. DOMAIN snaps = {1, 2, 3}
      BY <2>1
    <2>3. IsList(snaps)
      BY <2>1, SequenceIsList
    <2>4. \A x \in RangeOf(snaps) : IsList(x.links)
      BY <1>2, <1>5, <2>1, <2>2 DEF RangeOf
    <2>5. \A i, j \in DOMAIN snaps : snaps[i].id = snaps[j].id => i = j
      BY <1>2, <1>5, <2>1, <2>2
    <2> QED
      BY <1>3, <2>3, <2>4, <2>5 DEF StoredMaps
  <1> QED
    BY <1>1, <1>4, <1>5, EarlierIs

\* The run starts with a map of the latest capture.
LEMMA TopologyInputStart == RulesInit => TopologyInput
  <1> SUFFICES ASSUME RulesInit PROVE TopologyInput
    OBVIOUS
  <1>1. topic # "topology" /\ (topic = "seed topology" => SeedTopology)
    BY DEF RulesInit
  <1>2. SeedTopology => input.id = 9 /\ input.links \in LinkLists
    BY DEF SeedTopology, Snap
  <1> QED
    BY <1>1, <1>2 DEF TopologyInput

\* Every step asks about maps only of stored maps.
LEMMA TopologyInputStep == TopologyInput /\ [RulesNext]_rulesVars => TopologyInput'
  <1> SUFFICES ASSUME TopologyInput, [RulesNext]_rulesVars PROVE TopologyInput'
    OBVIOUS
  <1>1. CASE AskTopology
    <2>1. topic = "seed topology" /\ topic' = "topology"
      BY <1>1 DEF AskTopology
    <2>2. PICK s \in TopologySettings : input' = TopologyQuestion(input, s)
      BY <1>1 DEF AskTopology
    <2>3. input.id = 9 /\ input.links \in LinkLists
      BY <2>1 DEF TopologyInput
    <2> QED
      BY <2>1, <2>2, <2>3, TopologyQuestionIs DEF TopologyInput
  <1>2. CASE AskDiagnosis \/ AskStory \/ AskCards \/ AskPage \/ AskReport \/ AskList \/ FollowList
    <2>1. topic' \notin {"seed topology", "topology"}
      BY <1>2 DEF AskDiagnosis, AskStory, AskCards, AskPage, AskReport, AskList, FollowList
    <2> QED
      BY <2>1 DEF TopologyInput
  <1>3. CASE UNCHANGED rulesVars
    BY <1>3 DEF TopologyInput, rulesVars
  <1> QED
    BY <1>1, <1>2, <1>3 DEF RulesNext

\* The comparison, the device history, the facts and the coverage agree about every
\* device (compare.py, device_compare.py, topology_facts.py, device_coverage.py).
THEOREM MapReadersTellOneStory == RulesSpec => []MapReadersAgree
  <1>1. TopologyInput => MapReadersAgree
    BY ReadersAgreeAlways DEF TopologyInput, MapReadersAgree
  <1> QED
    BY <1>1, TopologyInputStart, TopologyInputStep, PTL DEF RulesSpec

(***************************************************************************)
(* Counting up, the least and the largest of a set, and finite images      *)
(***************************************************************************)

\* What holds at the start and is carried from each step to the next holds to the end.
LEMMA CountUp ==
    ASSUME NEW n \in Nat, NEW S, 0 \in S, \A i \in 1 .. n : i - 1 \in S => i \in S
    PROVE  0 .. n \subseteq S
  <1> DEFINE I == {i \in 1 .. n : i \notin S}
  <1>1. SUFFICES ASSUME I # {} PROVE FALSE
    BY DEF I
  <1>2. PICK i \in I : \A j \in I : i <= j
    BY <1>1, FirstPlace
  <1>3. i \in 1 .. n /\ i \notin S /\ i - 1 \notin I
    BY <1>2
  <1>4. i - 1 = 0 \/ i - 1 \in 1 .. n
    BY <1>3
  <1> QED
    BY <1>3, <1>4

\* A finite set of numbers has a least and a largest member.
LEMMA EndsOfSet ==
    ASSUME NEW S \in SUBSET Int, IsFiniteSet(S), S # {}
    PROVE  /\ MinOf(S) \in S /\ \A y \in S : MinOf(S) <= y
           /\ MaxOf(S) \in S /\ \A y \in S : y <= MaxOf(S)
  <1> DEFINE n == Cardinality(S)
             a == Ascending(S)
  <1>1. /\ n \in Nat /\ a \in [1 .. n -> S]
        /\ \A x \in S : \E k \in 1 .. n : a[k] = x
        /\ \A k, m \in 1 .. n : k <= m => a[k] <= a[m]
    BY AscendingFacts
  <1> HIDE DEF n, a
  <1>2. 1 \in 1 .. n /\ n \in 1 .. n
    <2>1. PICK x \in S : TRUE
      OBVIOUS
    <2>2. PICK k \in 1 .. n : a[k] = x
      BY <1>1
    <2> QED
      BY <1>1, <2>2
  <1>3. \A y \in S : a[1] <= y /\ y <= a[n]
    <2>1. ASSUME NEW y \in S PROVE a[1] <= y /\ y <= a[n]
      <3>1. PICK k \in 1 .. n : a[k] = y
        BY <1>1
      <3> QED
        BY <1>1, <1>2, <3>1
    <2> QED
      BY <2>1
  <1>4. a[1] \in S /\ a[n] \in S
    BY <1>1, <1>2
  <1>5. \E x \in S : \A y \in S : x <= y
    BY <1>3, <1>4
  <1>6. \E x \in S : \A y \in S : y <= x
    BY <1>3, <1>4
  <1> QED
    BY <1>5, <1>6 DEF MinOf, MaxOf

\* So is what is listed, and what may join finitely many sets.
LEMMA FiniteList ==
    ASSUME NEW s, IsList(s)
    PROVE  IsFiniteSet(DOMAIN s) /\ IsFiniteSet(RangeOf(s)) /\ DOMAIN s = 1 .. Len(s) /\ Len(s) \in Nat
  <1>1. s \in Seq(RangeOf(s))
    BY DEF IsList
  <1>2. DOMAIN s = 1 .. Len(s) /\ Len(s) \in Nat
    BY <1>1
  <1>3. IsFiniteSet(DOMAIN s)
    BY <1>2, FS_Interval
  <1>4. IsFiniteSet({s[i] : i \in DOMAIN s})
    BY <1>3, FiniteImage
  <1> QED
    BY <1>2, <1>3, <1>4 DEF RangeOf

\* The least and the largest tell the pairs of numbers apart.
LEMMA PairEnds ==
    ASSUME NEW a \in Int, NEW b \in Int, a # b
    PROVE  /\ MinOf({a, b}) \in Int /\ MaxOf({a, b}) \in Int
           /\ {a, b} = {MinOf({a, b}), MaxOf({a, b})}
  <1> DEFINE S == {a, b}
  <1>1. IsFiniteSet(S) /\ S # {} /\ S \in SUBSET Int
    <2>1. IsFiniteSet({a}) /\ IsFiniteSet({a} \cup {b})
      BY FS_Singleton, FS_AddElement
    <2> QED
      BY <2>1
  <1>2. /\ MinOf(S) \in S /\ \A y \in S : MinOf(S) <= y
        /\ MaxOf(S) \in S /\ \A y \in S : y <= MaxOf(S)
    BY <1>1, EndsOfSet
  <1> QED
    BY <1>2

(***************************************************************************)
(* Choices along a list                                                    *)
(***************************************************************************)

\* n steps from state to state, and where they lead.
Steps(n, S) == [1 .. n -> [S -> S]]
IsRun(f, n, S, base, next) ==
    f \in [0 .. n -> S] /\ f[0] = base /\ \A i \in 1 .. n : f[i] = next[i][f[i - 1]]

\* Steps can be taken one after the other.
LEMMA StepsAreTaken ==
    ASSUME NEW n \in Nat, NEW S, NEW base \in S, NEW next \in Steps(n, S)
    PROVE  \E f : IsRun(f, n, S, base, next)
  <1> DEFINE Run(m, f) == f[0] = base /\ \A i \in 1 .. m : f[i] = next[i][f[i - 1]]
             Done == {m \in 0 .. n : \E f \in [0 .. m -> S] : Run(m, f)}
  <1>1. 0 \in Done
    <2>1. [i \in 0 .. 0 |-> base] \in [0 .. 0 -> S] /\ Run(0, [i \in 0 .. 0 |-> base])
      OBVIOUS
    <2> HIDE DEF Run
    <2>2. \E f \in [0 .. 0 -> S] : Run(0, f)
      BY <2>1
    <2> QED
      BY <2>2
  <1>2. ASSUME NEW m \in 1 .. n, m - 1 \in Done PROVE m \in Done
    <2>1. PICK f \in [0 .. m - 1 -> S] : Run(m - 1, f)
      BY <1>2
    <2> DEFINE g == [i \in 0 .. m |-> IF i = m THEN next[m][f[m - 1]] ELSE f[i]]
    <2>2. m - 1 \in 0 .. m - 1 /\ f[m - 1] \in S
      OBVIOUS
    <2>3. next[m] \in [S -> S]
      BY DEF Steps
    <2>4. next[m][f[m - 1]] \in S
      BY <2>2, <2>3
    <2>5. g \in [0 .. m -> S]
      BY <2>4
    <2>6. g[0] = base
      BY <2>1
    <2>7. ASSUME NEW i \in 1 .. m PROVE g[i] = next[i][g[i - 1]]
      BY <2>1
    <2>8. Run(m, g)
      <3> HIDE DEF g
      <3> QED
        BY <2>6, <2>7
    <2> HIDE DEF Run, g
    <2>9. \E h \in [0 .. m -> S] : Run(m, h)
      BY <2>5, <2>8
    <2> QED
      BY <2>9
  <1>3. n \in Done
    <2>1. 0 .. n \subseteq Done
      <3> HIDE DEF Done
      <3> QED
        BY <1>1, <1>2, CountUp
    <2> QED
      BY <2>1
  <1>4. PICK f \in [0 .. n -> S] : Run(n, f)
    BY <1>3
  <1> QED
    BY <1>4 DEF IsRun

\* Hints are taken from those that qualify (passive_hints.py).
LEMMA TakenQualify ==
    ASSUME NEW g, SortedBy(QualifyingHints(g), HintBefore) \in Seq(QualifyingHints(g))
    PROVE  aggregate_passive_hints(g) \subseteq QualifyingHints(g)
  <1> DEFINE Q == QualifyingHints(g)
             order == SortedBy(Q, HintBefore)
             n == Len(order)
             Take(kept, h) ==
                 IF /\ Cardinality(kept) < HintsTotal
                    /\ \A d \in h.pair : Cardinality({k \in kept : d \in k.pair}) < HintsPerNode
                 THEN kept \cup {h} ELSE kept
             Step(f, i) == IF i = 0 THEN {} ELSE Take(f[i - 1], order[i])
             taken == CHOOSE f : f = [i \in 0 .. n |-> Step(f, i)]
             next == [i \in 1 .. n |-> [kept \in SUBSET Q |-> Take(kept, order[i])]]
  <1>1. aggregate_passive_hints(g) = taken[n]
    BY Zenon DEF aggregate_passive_hints
  <1>2. n \in Nat /\ \A i \in 1 .. n : order[i] \in Q
    <2> HIDE DEF order, Q
    <2> QED
      BY DEF order, Q
  <1> HIDE DEF order, Q, n
  <1>3. next \in [1 .. n -> [SUBSET Q -> SUBSET Q]]
    BY <1>2
  <1>4. {} \in SUBSET Q
    OBVIOUS
  <1> DEFINE U == SUBSET Q
  <1>5. PICK f : IsRun(f, n, U, {}, next)
    <2>1. next \in Steps(n, U) /\ {} \in U /\ n \in Nat
      BY <1>2, <1>3, <1>4 DEF Steps
    <2> HIDE DEF next, U
    <2> QED
      BY <2>1, StepsAreTaken
  <1>6. \A i \in 0 .. n : f[i] = Step(f, i)
    <2>1. ASSUME NEW i \in 1 .. n PROVE f[i] = Take(f[i - 1], order[i])
      <3>1. i - 1 \in 0 .. n
        BY <1>2
      <3>2. f[i - 1] \in SUBSET Q /\ f[i] = next[i][f[i - 1]]
        BY <1>5, <3>1 DEF IsRun
      <3> HIDE DEF Take
      <3> QED
        BY <3>2
    <2>2. f[0] = {}
      BY <1>5 DEF IsRun
    <2>3. ASSUME NEW i \in 0 .. n PROVE f[i] = Step(f, i)
      <3>1. CASE i = 0
        BY <2>2, <3>1
      <3>2. CASE i # 0
        <4>1. i \in 1 .. n
          BY <1>2, <3>2
        <4> HIDE DEF Take
        <4> QED
          BY <2>1, <3>2, <4>1
      <3> QED
        BY <3>1, <3>2
    <2> QED
      BY <2>3
  <1>7. f = [i \in 0 .. n |-> Step(f, i)]
    <2>1. f = [i \in 0 .. n |-> f[i]]
      BY <1>5 DEF IsRun
    <2> HIDE DEF Step
    <2> QED
      BY <1>6, <2>1
  <1>8. taken = [i \in 0 .. n |-> Step(taken, i)]
    <2> HIDE DEF Step
    <2> QED
      BY <1>7, Zenon
  <1> DEFINE S == {i \in 0 .. n : taken[i] \in SUBSET Q}
  <1>9. taken[0] = {} /\ \A i \in 1 .. n : taken[i] = Take(taken[i - 1], order[i])
    <2> HIDE DEF taken
    <2>1. \A i \in 0 .. n : taken[i] = Step(taken, i)
      <3> HIDE DEF Step
      <3> QED
        BY <1>8
    <2> HIDE DEF Take
    <2> QED
      BY <1>2, <2>1
  <1> HIDE DEF taken
  <1>10. 0 \in S
    BY <1>2, <1>9
  <1>11. ASSUME NEW i \in 1 .. n, i - 1 \in S PROVE i \in S
    <2>1. taken[i] = Take(taken[i - 1], order[i]) /\ order[i] \in Q /\ taken[i - 1] \in SUBSET Q
      BY <1>2, <1>9, <1>11
    <2>2. taken[i] \in SUBSET Q
      BY <2>1
    <2> QED
      BY <1>2, <2>2
  <1>12. n \in S
    <2>1. 0 .. n \subseteq S
      <3> HIDE DEF S
      <3> QED
        BY <1>2, <1>10, <1>11, CountUp
    <2> QED
      BY <1>2, <2>1
  <1> QED
    BY <1>1, <1>12 DEF Q

(***************************************************************************)
(* Investigation cards: clusters of devices with issues                    *)
(***************************************************************************)

\* The links of a stored map: the directed pair is the table's key.
AreLinks(links) ==
    /\ IsList(links)
    /\ \A l \in RangeOf(links) : l.source \in Int /\ l.target \in Int /\ l.lqi \in Int \cup {Missing}
    /\ \A l, k \in RangeOf(links) : l.source = k.source /\ l.target = k.target => l = k

\* The devices of a map are finitely many numbers.
LEMMA LinkedAre ==
    ASSUME NEW links, AreLinks(links)
    PROVE  /\ IsFiniteSet(LinkedIn(links)) /\ LinkedIn(links) \in SUBSET Int
           /\ IsFiniteSet(RealLinks(links))
           /\ \A l \in RangeOf(links) : Ends(l) \subseteq LinkedIn(links) /\ IsFiniteSet(Ends(l))
  <1> DEFINE R == RangeOf(links)
             ends == [l \in R |-> Ends(l)]
  <1>1. IsFiniteSet(R)
    BY FiniteList DEF AreLinks
  <1>2. ASSUME NEW l \in R PROVE IsFiniteSet(ends[l]) /\ ends[l] \in SUBSET Int
    <2>1. IsFiniteSet({l.source}) /\ IsFiniteSet({l.source} \cup {l.target})
      BY FS_Singleton, FS_AddElement
    <2>2. Ends(l) = {l.source} \cup {l.target}
      BY DEF Ends
    <2> QED
      BY <2>1, <2>2 DEF AreLinks
  <1>3. LinkedIn(links) = UNION {ends[l] : l \in R}
    BY DEF LinkedIn
  <1>4. \A l \in R : ends[l] = Ends(l)
    OBVIOUS
  <1> HIDE DEF R, ends
  <1>5. IsFiniteSet(LinkedIn(links))
    BY <1>1, <1>2, <1>3, FiniteFamily
  <1>6. IsFiniteSet(RealLinks(links))
    <2>1. RealLinks(links) \in SUBSET R
      BY DEF RealLinks, R
    <2> QED
      BY <1>1, <2>1, FS_Subset
  <1> QED
    BY <1>2, <1>3, <1>4, <1>5, <1>6 DEF R

\* A list in the order of keys that tell its members apart.
LEMMA SortedIs ==
    ASSUME NEW S, IsFiniteSet(S), NEW n \in Nat, NEW key \in [S -> SortKeys(n)],
           \A x, y \in S : key[x] = key[y] => x = y
    PROVE  LET order == InOrder(UpToKey(S, key)) IN
           /\ Cardinality(S) \in Nat
           /\ order \in Seq(S) /\ Len(order) = Cardinality(S)
           /\ \A x \in S : \E k \in 1 .. Cardinality(S) : order[k] = x
           /\ \A k, m \in 1 .. Cardinality(S) : k < m => LexLess(key[order[k]], key[order[m]])
  <1> DEFINE order == InOrder(UpToKey(S, key))
  <1>1. /\ Lists(order, S, UpToKey(S, key))
        /\ \A k, m \in 1 .. Cardinality(S) : k < m => LexLess(key[order[k]], key[order[m]])
    BY SortedUp
  <1> HIDE DEF order
  <1>2. /\ Cardinality(S) \in Nat /\ order \in [1 .. Cardinality(S) -> S]
        /\ \A x \in S : \E k \in 1 .. Cardinality(S) : order[k] = x
    BY <1>1 DEF Lists
  <1>3. order \in Seq(S) /\ Len(order) = Cardinality(S)
    BY <1>2
  <1> QED
    BY <1>1, <1>2, <1>3 DEF order

\* The places of a sequence.
LEMMA PlacesOfSequence ==
    ASSUME NEW S, NEW s \in Seq(S)
    PROVE  Len(s) \in Nat /\ \A i \in 1 .. Len(s) : s[i] \in S
  OBVIOUS

\* The card of the cluster around a router.
Near(g, e, r) == (UNION {Ends(l) : l \in InfraLinks(e, g.rows, r)}) \ {r}
Cluster(g, e, r) == (Near(g, e, r) \cup {r}) \cap issue_device_ids(g.rows)
NewestAt(g) == IF Latest(g.snaps) = {} THEN Missing ELSE Usable(g.snaps)[1].at
ClusterCard(g, e, r) ==
    Card("issue_cluster", r, 5 * Cardinality(Cluster(g, e, r)) + 2 + recency_boost(NewestAt(g), g.now),
         SortedPrefix(Cluster(g, e, r) \cup {r}),
         {<<"live-neighbor", Ends(l)>> :
             l \in {k \in RealLinks(e.links) : Ends(k) \subseteq Cluster(g, e, r) \cup {r}}}, NewestAt(g))
IssueRouters(g, e) == {r \in LinkedIn(e.links) : Near(g, e, r) # {}}
RouterKey(g, e) ==
    [r \in IssueRouters(g, e) |-> <<-Cardinality(Near(g, e, r) \cap issue_device_ids(g.rows)), r>>]
RouterOrder(g, e) ==
    SortedBy(IssueRouters(g, e), LAMBDA a, b : LexLess(RouterKey(g, e)[a], RouterKey(g, e)[b]))

\* Clusters are claimed by routers of the map (investigations.py).
LEMMA ClaimedAreRouters ==
    ASSUME NEW g, NEW e,
           RouterOrder(g, e) \in Seq(IssueRouters(g, e))
    PROVE  \E C \in SUBSET IssueRouters(g, e) : issue_cluster_cards(g, e) = {ClusterCard(g, e, r) : r \in C}
  <1> DEFINE Q == IssueRouters(g, e)
             issues == issue_device_ids(g.rows)
             near(r) == (UNION {Ends(l) : l \in InfraLinks(e, g.rows, r)}) \ {r}
             cluster(r) == (near(r) \cup {r}) \cap issues
             key(r) == <<-Cardinality(near(r) \cap issues), r>>
             rtrs == {r \in LinkedIn(e.links) : near(r) # {}}
             order == SortedBy(rtrs, LAMBDA a, b : LexLess(key(a), key(b)))
             n == Len(order)
             Claim(kept, r) == IF \/ Cardinality(cluster(r)) < 2
                                  \/ \E k \in kept : cluster(r) \subseteq cluster(k)
                               THEN kept ELSE kept \cup {r}
             Step(f, i) == IF i = 0 THEN {} ELSE Claim(f[i - 1], order[i])
             claimed == CHOOSE f : f = [i \in 0 .. n |-> Step(f, i)]
             next == [i \in 1 .. n |-> [kept \in SUBSET Q |-> Claim(kept, order[i])]]
             at == IF Latest(g.snaps) = {} THEN Missing ELSE Usable(g.snaps)[1].at
  <1>1. issue_cluster_cards(g, e) =
           {Card("issue_cluster", r, 5 * Cardinality(cluster(r)) + 2 + recency_boost(at, g.now),
                 SortedPrefix(cluster(r) \cup {r}),
                 {<<"live-neighbor", Ends(l)>> :
                     l \in {k \in RealLinks(e.links) : Ends(k) \subseteq cluster(r) \cup {r}}}, at) :
               r \in claimed[n]}
    BY Zenon DEF issue_cluster_cards
  <1>2. issue_cluster_cards(g, e) = {ClusterCard(g, e, r) : r \in claimed[n]}
    <2> HIDE DEF claimed, n
    <2> QED
      BY <1>1 DEF ClusterCard, Cluster, Near, NewestAt
  <1>3. rtrs = Q
    BY DEF IssueRouters, Near
  <1>4. order = RouterOrder(g, e)
    <2>1. \A a \in Q : RouterKey(g, e)[a] = key(a)
      BY DEF RouterKey, Near
    <2> HIDE DEF Q, key
    <2> QED
      BY <1>3, <2>1 DEF SortedBy, RouterOrder, Q
  <1>5. n \in Nat /\ \A i \in 1 .. n : order[i] \in Q
    <2>1. order \in Seq(Q)
      BY <1>4 DEF Q
    <2> HIDE DEF order, Q
    <2> QED
      BY <2>1, PlacesOfSequence
  <1> HIDE DEF order, Q, n, cluster
  <1> DEFINE U == SUBSET Q
  <1>6. \A kept \in U, i \in 1 .. n : Claim(kept, order[i]) \in U
    BY <1>5
  <1>7. PICK f : IsRun(f, n, U, {}, next)
    <2>1. next \in [1 .. n -> [U -> U]]
      <3> HIDE DEF Claim
      <3> QED
        BY <1>6
    <2>2. next \in Steps(n, U) /\ {} \in U /\ n \in Nat
      <3> HIDE DEF next
      <3> QED
        BY <1>5, <2>1 DEF Steps
    <2> HIDE DEF next, U
    <2> QED
      BY <2>2, StepsAreTaken
  <1>8. f = [i \in 0 .. n |-> Step(f, i)]
    <2>1. ASSUME NEW i \in 0 .. n PROVE f[i] = Step(f, i)
      <3>1. CASE i = 0
        BY <1>7, <3>1 DEF IsRun
      <3>2. CASE i # 0
        <4>1. i \in 1 .. n /\ i - 1 \in 0 .. n
          BY <1>5, <3>2
        <4>2. f[i - 1] \in U /\ f[i] = next[i][f[i - 1]]
          BY <1>7, <4>1 DEF IsRun
        <4> HIDE DEF Claim
        <4> QED
          BY <3>2, <4>1, <4>2
      <3> QED
        BY <3>1, <3>2
    <2>2. f = [i \in 0 .. n |-> f[i]]
      BY <1>7 DEF IsRun
    <2> HIDE DEF Step
    <2> QED
      BY <2>1, <2>2
  <1>9. claimed = [i \in 0 .. n |-> Step(claimed, i)]
    <2> HIDE DEF Step
    <2> QED
      BY <1>8, Zenon
  <1>10. claimed[0] = {} /\ \A i \in 1 .. n : claimed[i] = Claim(claimed[i - 1], order[i])
    <2> HIDE DEF claimed
    <2>1. \A i \in 0 .. n : claimed[i] = Step(claimed, i)
      <3> HIDE DEF Step
      <3> QED
        BY <1>9
    <2> HIDE DEF Claim
    <2> QED
      BY <1>5, <2>1
  <1> HIDE DEF claimed
  <1> DEFINE S == {i \in 0 .. n : claimed[i] \in U}
  <1>11. 0 \in S
    BY <1>5, <1>10
  <1>12. ASSUME NEW i \in 1 .. n, i - 1 \in S PROVE i \in S
    <2>1. claimed[i] = Claim(claimed[i - 1], order[i]) /\ claimed[i - 1] \in U
      BY <1>10, <1>12
    <2>2. claimed[i] \in U
      <3> HIDE DEF Claim, U
      <3> QED
        BY <1>6, <2>1
    <2> QED
      BY <1>5, <2>2
  <1>13. n \in S
    <2>1. 0 .. n \subseteq S
      <3> HIDE DEF S
      <3> QED
        BY <1>5, <1>11, <1>12, CountUp
    <2> QED
      BY <1>5, <2>1
  <1>14. claimed[n] \in SUBSET IssueRouters(g, e)
    BY <1>13 DEF Q
  <1> QED
    BY <1>2, <1>14

(***************************************************************************)
(* The evidence of a graph, from what is stored                            *)
(***************************************************************************)

\* What the evidence graph reads: stored maps, rows, models and events.
AreGraphReads(g) ==
    /\ StoredMaps(g.snaps) /\ \A s \in RangeOf(g.snaps) : s.at \in Int /\ AreLinks(s.links)
    /\ IsFiniteSet(DOMAIN g.rows) /\ DOMAIN g.rows \in SUBSET Int
    /\ IsFiniteSet(DOMAIN g.models) /\ DOMAIN g.models \in SUBSET Int
    /\ IsList(g.events) /\ RangeOf(g.events) \subseteq [at : Int, dev : Int]
    /\ g.now \in Int

\* The latest map, the previous ones and the recent of them are stored maps.
LEMMA MapsOfGraph ==
    ASSUME NEW snaps, StoredMaps(snaps), NEW now
    PROVE  /\ Latest(snaps) # {} => Usable(snaps)[1] \in RangeOf(snaps)
           /\ LatestLinks(snaps) = <<>> \/ \E s \in RangeOf(snaps) : LatestLinks(snaps) = s.links
           /\ Previous(snaps) \in Seq(RangeOf(snaps))
           /\ RecentPrevious(snaps, now) \in Seq(RangeOf(snaps))
  <1> DEFINE u == Usable(snaps)
             prev == Previous(snaps)
             I == {i \in DOMAIN prev : prev[i].at >= now - RECENT_HISTORY_WINDOW}
  <1>1. u \in Seq(RangeOf(snaps))
    BY UsableMaps
  <1>2. u # <<>> => u[1] \in RangeOf(snaps) /\ Tail(u) \in Seq(RangeOf(snaps))
    <2> HIDE DEF u
    <2> QED
      BY <1>1
  <1>3. Latest(snaps) # {} <=> u # <<>>
    BY DEF Latest
  <1>4. LatestLinks(snaps) = IF u = <<>> THEN <<>> ELSE u[1].links
    BY <1>3 DEF LatestLinks
  <1>5. prev \in Seq(RangeOf(snaps))
    <2>1. prev = IF u = <<>> THEN <<>> ELSE Tail(u)
      BY DEF Previous
    <2>2. <<>> \in Seq(RangeOf(snaps))
      OBVIOUS
    <2> QED
      BY <1>2, <2>1, <2>2
  <1>6. RecentPrevious(snaps, now) = NewestOf(Kept(prev, I), RecentSnapshots)
    BY DEF RecentPrevious
  <1>7. RecentPrevious(snaps, now) \in Seq(RangeOf(snaps))
    <2>1. I \in SUBSET DOMAIN prev
      OBVIOUS
    <2>2. RecentSnapshots \in Nat
      BY RecentAssumption
    <2> HIDE DEF I, prev
    <2>3. Kept(prev, I) \in Seq(RangeOf(snaps))
      BY <1>5, <2>1, KeptSequence
    <2> QED
      BY <1>6, <2>2, <2>3, NewestOfFacts
  <1> QED
    BY <1>2, <1>3, <1>4, <1>5, <1>7

\* The pairs that the links of a map join.
LEMMA PairsOfLinks ==
    ASSUME NEW s, AreLinks(s.links)
    PROVE  /\ IsFiniteSet(NeighbourPairs(s.links)) /\ IsFiniteSet(RoutePairs(s.links))
           /\ \A p \in NeighbourPairs(s.links) : p \in SUBSET Int /\ IsFiniteSet(p) /\ p # {}
           /\ \A r \in RoutePairs(s.links) : r[1] \in Int /\ r[2] \in Int
  <1> DEFINE links == s.links
  <1>1. IsList(links) /\ \A l \in RangeOf(links) : l.source \in Int /\ l.target \in Int
    BY DEF AreLinks
  <1>2. IsFiniteSet(NeighbourPairs(links)) /\ IsFiniteSet(RoutePairs(links))
    BY <1>1, FiniteLinks
  <1>3. \A l \in RangeOf(links) : Ends(l) \in SUBSET Int /\ IsFiniteSet(Ends(l)) /\ Ends(l) # {}
    BY <1>1, LinkedAre DEF Ends
  <1> QED
    BY <1>1, <1>2, <1>3 DEF NeighbourPairs, RoutePairs, RealLinks

\* What some of finitely many moments say last.
LEMMA LastOfSome ==
    ASSUME NEW S, IsFiniteSet(S), S # {}, \A s \in S : s.at \in Int
    PROVE  MaxOf({s.at : s \in S}) \in Int
  <1> DEFINE f == [s \in S |-> s.at]
             T == {f[s] : s \in S}
  <1>1. IsFiniteSet(T)
    BY FiniteImage
  <1>2. T \in SUBSET Int /\ T # {} /\ T = {s.at : s \in S}
    OBVIOUS
  <1> HIDE DEF T
  <1>3. MaxOf(T) \in T
    BY <1>1, <1>2, EndsOfSet
  <1> QED
    BY <1>2, <1>3

\* Recent missing neighbours and routes (history.py).
LEMMA HistoryOfGraph ==
    ASSUME NEW g, AreGraphReads(g)
    PROVE  /\ IsFiniteSet(historical_neighbors(g.snaps, g.now))
           /\ \A x \in historical_neighbors(g.snaps, g.now) :
                  x.last \in Int /\ x.key \in SUBSET Int /\ IsFiniteSet(x.key) /\ x.key # {}
           /\ IsFiniteSet(historical_routes(g.snaps, g.now))
           /\ \A x \in historical_routes(g.snaps, g.now) :
                  x.last \in Int /\ x.key[1] \in Int /\ x.key[2] \in Int
  <1> DEFINE snaps == g.snaps
             recent == RecentPrevious(g.snaps, g.now)
             window == RangeOf(recent)
             lim == ~LatestLayout(g.snaps)
             nPairs == [s \in window |-> NeighbourPairs(s.links)]
             rPairs == [s \in window |-> RoutePairs(s.links)]
             N == UNION {nPairs[s] : s \in window}
             R == UNION {rPairs[s] : s \in window}
             NA(p) == Aggregate(p, {s \in window : p \in NeighbourPairs(s.links)}, lim)
             RA(p) == Aggregate(p, {s \in window : p \in RoutePairs(s.links)}, lim)
             N2 == N \ NeighbourPairs(LatestLinks(snaps))
             R2 == R \ RoutePairs(LatestLinks(snaps))
             nAgg == [p \in N2 |-> NA(p)]
             rAgg == [p \in R2 |-> RA(p)]
  <1>1. recent \in Seq(RangeOf(snaps)) /\ \A s \in RangeOf(snaps) : s.at \in Int /\ AreLinks(s.links)
    BY MapsOfGraph DEF AreGraphReads
  <1>2. IsFiniteSet(window) /\ \A s \in window : s.at \in Int /\ AreLinks(s.links)
    <2>1. IsList(recent)
      BY <1>1, SequenceIsList
    <2>2. window \subseteq RangeOf(snaps)
      <3> HIDE DEF recent
      <3>1. \A i \in DOMAIN recent : recent[i] \in RangeOf(snaps)
        BY <1>1
      <3> QED
        BY <3>1 DEF RangeOf
    <2> QED
      BY <1>1, <2>1, <2>2, FiniteList
  <1>3. historical_neighbors(g.snaps, g.now) = {NA(p) : p \in N2}
    BY DEF historical_neighbors
  <1>4. historical_routes(g.snaps, g.now) = {RA(p) : p \in R2}
    BY DEF historical_routes
  <1> HIDE DEF recent, window, lim
  <1>5. /\ \A s \in window : IsFiniteSet(nPairs[s]) /\ IsFiniteSet(rPairs[s])
        /\ \A s \in window : \A p \in nPairs[s] : p \in SUBSET Int /\ IsFiniteSet(p) /\ p # {}
        /\ \A s \in window : \A p \in rPairs[s] : p[1] \in Int /\ p[2] \in Int
    BY <1>2, PairsOfLinks
  <1>6. IsFiniteSet(N2) /\ IsFiniteSet(R2)
    <2> HIDE DEF nPairs, rPairs
    <2>1. IsFiniteSet(N) /\ IsFiniteSet(R)
      BY <1>2, <1>5, FiniteFamily
    <2> HIDE DEF N, R
    <2> QED
      BY <2>1, FS_Subset
  <1>7. IsFiniteSet({nAgg[p] : p \in N2}) /\ IsFiniteSet({rAgg[p] : p \in R2})
    <2>1. DOMAIN nAgg = N2 /\ DOMAIN rAgg = R2
      OBVIOUS
    <2> HIDE DEF nAgg, rAgg, N2, R2
    <2> QED
      BY <1>6, <2>1, FiniteImage
  <1>8. IsFiniteSet({NA(p) : p \in N2}) /\ IsFiniteSet({RA(p) : p \in R2})
    <2> HIDE DEF NA, RA, N2, R2
    <2> QED
      BY <1>7
  <1>9. ASSUME NEW p \in N2
        PROVE  NA(p).last \in Int /\ NA(p).key \in SUBSET Int /\ IsFiniteSet(NA(p).key) /\ NA(p).key # {}
    <2> DEFINE S == {s \in window : p \in NeighbourPairs(s.links)}
    <2>1. PICK s \in window : p \in nPairs[s]
      OBVIOUS
    <2>2. S # {} /\ IsFiniteSet(S) /\ \A x \in S : x.at \in Int
      BY <1>2, <2>1, FS_Subset
    <2>3. NA(p).key = p /\ NA(p).last = MaxOf({x.at : x \in S})
      BY DEF Aggregate
    <2> HIDE DEF S, NA
    <2> QED
      BY <1>5, <2>1, <2>2, <2>3, LastOfSome
  <1>10. ASSUME NEW p \in R2
         PROVE  RA(p).last \in Int /\ RA(p).key[1] \in Int /\ RA(p).key[2] \in Int
    <2> DEFINE S == {s \in window : p \in RoutePairs(s.links)}
    <2>1. PICK s \in window : p \in rPairs[s]
      OBVIOUS
    <2>2. S # {} /\ IsFiniteSet(S) /\ \A x \in S : x.at \in Int
      BY <1>2, <2>1, FS_Subset
    <2>3. RA(p).key = p /\ RA(p).last = MaxOf({x.at : x \in S})
      BY DEF Aggregate
    <2> HIDE DEF S, RA
    <2> QED
      BY <1>5, <2>1, <2>2, <2>3, LastOfSome
  <1> HIDE DEF NA, RA, N2, R2
  <1> QED
    BY <1>3, <1>4, <1>8, <1>9, <1>10

(***************************************************************************)
(* Last known links                                                        *)
(***************************************************************************)

\* The lexicographic order of three places.
LEMMA LexOfThree ==
    ASSUME NEW a1 \in Int, NEW a2 \in Int, NEW a3 \in Int, NEW b1 \in Int, NEW b2 \in Int, NEW b3 \in Int
    PROVE  LexLess(<<a1, a2, a3>>, <<b1, b2, b3>>) <=>
              a1 < b1 \/ (a1 = b1 /\ a2 < b2) \/ (a1 = b1 /\ a2 = b2 /\ a3 < b3)
  <1> DEFINE a == <<a1, a2, a3>>
             b == <<b1, b2, b3>>
  <1>1. DOMAIN a = {1, 2, 3} /\ a[1] = a1 /\ a[2] = a2 /\ a[3] = a3 /\ b[1] = b1 /\ b[2] = b2 /\ b[3] = b3
    OBVIOUS
  <1> HIDE DEF a, b
  <1>2. 1 .. 1 - 1 = {} /\ 1 .. 2 - 1 = {1} /\ 1 .. 3 - 1 = {1, 2}
    OBVIOUS
  <1>3. LexLess(a, b) <=> \/ a[1] < b[1] /\ \A j \in 1 .. 1 - 1 : a[j] = b[j]
                          \/ a[2] < b[2] /\ \A j \in 1 .. 2 - 1 : a[j] = b[j]
                          \/ a[3] < b[3] /\ \A j \in 1 .. 3 - 1 : a[j] = b[j]
    BY <1>1 DEF LexLess
  <1>4. LexLess(a, b) <=> \/ a[1] < b[1]
                          \/ a[2] < b[2] /\ a[1] = b[1]
                          \/ a[3] < b[3] /\ a[1] = b[1] /\ a[2] = b[2]
    BY <1>2, <1>3
  <1> QED
    BY <1>1, <1>4 DEF a, b

\* What a cut list holds is of the set it lists.
LEMMA TopIsOf ==
    ASSUME NEW S, NEW upTo, Lists(InOrder(upTo), S, upTo), NEW N \in Nat
    PROVE  RangeOf(NewestOf(InOrder(upTo), N)) \subseteq S
  BY CutFacts

\* The last known links of a device are links of one stored map.
LEMMA LastKnownIs ==
    ASSUME NEW snaps, StoredMaps(snaps), NEW d, LastKnownOf(snaps, d) # {}
    PROVE  \E s \in RangeOf(snaps) :
              LastKnownOf(snaps, d) \subseteq {[link |-> l, at |-> s.at] : l \in RealLinks(s.links)}
  <1> DEFINE prev == Previous(snaps)
             with == {i \in DOMAIN prev : \E l \in RealLinks(prev[i].links) : d \in Ends(l)}
             i == CHOOSE k \in with : \A j \in with : k <= j
  <1>1. /\ with # {}
        /\ LastKnownOf(snaps, d) =
              {[link |-> l, at |-> prev[i].at] : l \in {k \in RealLinks(prev[i].links) : d \in Ends(k)}}
    BY DEF LastKnownOf
  <1>2. prev \in Seq(RangeOf(snaps))
    BY MapsOfGraph
  <1>3. i \in with
    <2> DEFINE n == Len(prev)
    <2> HIDE DEF prev
    <2>1. n \in Nat /\ with \in SUBSET (1 .. n)
      BY <1>2
    <2> HIDE DEF with, n
    <2>2. \E k \in with : \A j \in with : k <= j
      BY <1>1, <2>1, FirstPlace
    <2> QED
      BY <2>2
  <1>4. prev[i] \in RangeOf(snaps)
    <2> HIDE DEF prev, i
    <2>1. i \in DOMAIN prev
      BY <1>3
    <2> QED
      BY <1>2, <2>1
  <1> HIDE DEF prev, i
  <1> QED
    BY <1>1, <1>4

\* The strongest of them are some of them.
LEMMA StrongestAre ==
    ASSUME NEW s, AreLinks(s.links), s.at \in Int,
           NEW S, S \subseteq {[link |-> l, at |-> s.at] : l \in RealLinks(s.links)}
    PROVE  IsFiniteSet(S) /\ TopOf(S, LinksPerDevice, Stronger) \subseteq S
  <1> DEFINE R == RealLinks(s.links)
             q(x) == IF x.link.lqi = Missing THEN -1 ELSE x.link.lqi
             key == [x \in S |-> <<-q(x), x.link.source, x.link.target>>]
             asked == [l \in R |-> [link |-> l, at |-> s.at]]
  <1>1. IsFiniteSet(S)
    <2>1. IsFiniteSet(R) /\ DOMAIN asked = R
      BY LinkedAre
    <2>2. IsFiniteSet({asked[l] : l \in R})
      <3> HIDE DEF asked, R
      <3> QED
        BY <2>1, FiniteImage
    <2>3. S \subseteq {asked[l] : l \in R}
      OBVIOUS
    <2> QED
      BY <2>2, <2>3, FS_Subset
  <1>2. \A x \in S : /\ x.link \in RangeOf(s.links) /\ x = [link |-> x.link, at |-> s.at]
                     /\ x.link.source \in Int /\ x.link.target \in Int /\ q(x) \in Int
    BY DEF AreLinks, RealLinks
  <1> HIDE DEF R, asked
  <1>3. key \in [S -> SortKeys(3)]
    <2>1. ASSUME NEW x \in S PROVE <<-q(x), x.link.source, x.link.target>> \in SortKeys(3)
      <3> HIDE DEF q
      <3> QED
        BY <1>2 DEF SortKeys
    <2> QED
      BY <2>1
  <1>4. ASSUME NEW x \in S, NEW y \in S PROVE Stronger(x, y) <=> LexLess(key[x], key[y])
    <2>1. Stronger(x, y) <=>
             \/ q(x) > q(y)
             \/ q(x) = q(y) /\ x.link.source < y.link.source
             \/ q(x) = q(y) /\ x.link.source = y.link.source /\ x.link.target < y.link.target
      BY DEF Stronger
    <2>2. key[x] = <<-q(x), x.link.source, x.link.target>> /\ key[y] = <<-q(y), y.link.source, y.link.target>>
      OBVIOUS
    <2>3. -q(x) \in Int /\ -q(y) \in Int
      BY <1>2
    <2> HIDE DEF q, key
    <2>4. LexLess(key[x], key[y]) <=>
             \/ -q(x) < -q(y)
             \/ -q(x) = -q(y) /\ x.link.source < y.link.source
             \/ -q(x) = -q(y) /\ x.link.source = y.link.source /\ x.link.target < y.link.target
      BY <1>2, <2>2, <2>3, LexOfThree
    <2> QED
      BY <1>2, <2>1, <2>4
  <1>5. ASSUME NEW x \in S, NEW y \in S, key[x] = key[y] PROVE x = y
    <2>1. x.link.source = y.link.source /\ x.link.target = y.link.target
      BY <1>5
    <2>2. x.link = y.link
      BY <1>2, <2>1 DEF AreLinks
    <2> QED
      BY <1>2, <2>2
  <1>6. TopOf(S, LinksPerDevice, Stronger) = RangeOf(NewestOf(InOrder(UpToKey(S, key)), LinksPerDevice))
    <2> HIDE DEF key
    <2>1. [x \in S |-> {y \in S : ~Stronger(x, y)}] = UpToKey(S, key)
      BY <1>4 DEF UpToKey
    <2> QED
      BY <2>1 DEF TopOf, SortedBy
  <1>7. Lists(InOrder(UpToKey(S, key)), S, UpToKey(S, key))
    <2> HIDE DEF key
    <2> QED
      BY <1>1, <1>3, <1>5, SortedUp
  <1> QED
    BY <1>1, <1>6, <1>7, TopIsOf, LinksAssumption

\* The last known links of the linkless devices (history.py).
LEMMA KnownAre ==
    ASSUME NEW g, AreGraphReads(g)
    PROVE  /\ IsFiniteSet(aggregate_last_known_links(g.snaps))
           /\ \A x \in aggregate_last_known_links(g.snaps) :
                  x.at \in Int /\ \E a, b \in Int : x.pair = {a, b}
  <1> DEFINE snaps == g.snaps
             P == RangeOf(Previous(snaps))
             linked == [s \in P |-> LinkedIn(s.links)]
             linkless == (UNION {LinkedIn(s.links) : s \in P}) \ LinkedIn(LatestLinks(snaps))
             top(d) == TopOf(LastKnownOf(snaps, d), LinksPerDevice, Stronger)
             Claimed(e, d) == [pair |-> Ends(e.link), at |-> e.at, link |-> e.link, by |-> d]
             of == [d \in linkless |-> {Claimed(e, d) : e \in top(d)}]
             claims == UNION {{Claimed(e, d) : e \in top(d)} : d \in linkless}
             first(e) == \A f \in claims : f.pair = e.pair =>
                            e.by < f.by \/ (e.by = f.by /\ ~Stronger(f, e))
             newer(e, f) == \/ e.at > f.at
                            \/ e.at = f.at /\ e.link.source > f.link.source
                            \/ /\ e.at = f.at /\ e.link.source = f.link.source
                               /\ e.link.target > f.link.target
             F == {c \in claims : first(c)}
             T == TopOf(F, LastKnownTotal, newer)
             Known(e) == [pair |-> e.pair, at |-> e.at, lqi |-> e.link.lqi]
             key == [c \in F |-> <<c.at, c.link.source, c.link.target>>]
             known == [e \in T |-> Known(e)]
  <1>1. aggregate_last_known_links(snaps) = IF ~LatestLayout(snaps) THEN {} ELSE {Known(e) : e \in T}
    BY Zenon DEF aggregate_last_known_links
  <1>2. StoredMaps(snaps) /\ \A s \in RangeOf(snaps) : s.at \in Int /\ AreLinks(s.links)
    BY DEF AreGraphReads
  <1>3. IsFiniteSet(P) /\ P \subseteq RangeOf(snaps)
    <2> DEFINE prev == Previous(snaps)
    <2>1. prev \in Seq(RangeOf(snaps))
      BY <1>2, MapsOfGraph
    <2> HIDE DEF prev
    <2>2. IsList(prev)
      BY <2>1, SequenceIsList
    <2>3. IsFiniteSet(RangeOf(prev))
      BY <2>2, FiniteList
    <2>4. RangeOf(prev) \subseteq RangeOf(snaps)
      <3>1. \A i \in DOMAIN prev : prev[i] \in RangeOf(snaps)
        BY <2>1
      <3> HIDE DEF snaps
      <3> QED
        BY <3>1 DEF RangeOf
    <2> QED
      BY <2>3, <2>4 DEF prev
  <1> HIDE DEF P, snaps
  <1>4. IsFiniteSet(linkless) /\ linkless \in SUBSET Int
    <2>1. \A s \in P : IsFiniteSet(linked[s]) /\ linked[s] \in SUBSET Int
      BY <1>2, <1>3, LinkedAre
    <2>2. IsFiniteSet(UNION {linked[s] : s \in P})
      <3> HIDE DEF linked
      <3> QED
        BY <1>3, <2>1, FiniteFamily
    <2>3. linkless \subseteq UNION {linked[s] : s \in P}
      OBVIOUS
    <2> HIDE DEF linkless
    <2>4. IsFiniteSet(linkless)
      BY <2>2, <2>3, FS_Subset
    <2> QED
      BY <2>1, <2>3, <2>4
  <1>5. ASSUME NEW d \in linkless
        PROVE  /\ IsFiniteSet(top(d)) /\ top(d) \subseteq LastKnownOf(snaps, d)
               /\ \A e \in top(d) : /\ e = [link |-> e.link, at |-> e.at] /\ e.at \in Int
                                    /\ e.link.source \in Int /\ e.link.target \in Int
               /\ \A e, f \in top(d) : e.link.source = f.link.source /\ e.link.target = f.link.target => e = f
    <2> DEFINE K == LastKnownOf(snaps, d)
    <2>1. CASE K = {}
      <3> DEFINE none == [x \in {} |-> <<>>]
                 E == {}
      <3>1. IsFiniteSet(E) /\ none \in [E -> SortKeys(0)]
        BY FS_EmptySet
      <3>2. Lists(InOrder(UpToKey(E, none)), E, UpToKey(E, none))
        <4>1. \A x, y \in E : none[x] = none[y] => x = y
          OBVIOUS
        <4>2. 0 \in Nat
          OBVIOUS
        <4> HIDE DEF none, E
        <4> QED
          BY <3>1, <4>1, <4>2, SortedUp
      <3>3. top(d) = RangeOf(NewestOf(InOrder(UpToKey(E, none)), LinksPerDevice))
        <4>1. [x \in E |-> {y \in E : ~Stronger(x, y)}] = UpToKey(E, none)
          BY DEF UpToKey
        <4> QED
          BY <2>1, <4>1 DEF TopOf, SortedBy
      <3> HIDE DEF none
      <3>4. top(d) \subseteq {}
        BY <3>2, <3>3, TopIsOf, LinksAssumption
      <3>5. top(d) = {}
        BY <3>4
      <3> HIDE DEF top, K
      <3> QED
        BY <3>5, FS_EmptySet
    <2>2. CASE K # {}
      <3>1. PICK s \in RangeOf(snaps) : K \subseteq {[link |-> l, at |-> s.at] : l \in RealLinks(s.links)}
        BY <1>2, <2>2, LastKnownIs
      <3>2. AreLinks(s.links) /\ s.at \in Int
        BY <1>2
      <3>3. IsFiniteSet(K) /\ TopOf(K, LinksPerDevice, Stronger) \subseteq K
        <4> HIDE DEF K
        <4> QED
          BY <3>1, <3>2, StrongestAre
      <3>4. IsFiniteSet(top(d)) /\ top(d) \subseteq K
        BY <3>3, FS_Subset
      <3>5. \A e \in top(d) : \E l \in RealLinks(s.links) : e = [link |-> l, at |-> s.at]
        BY <3>1, <3>4
      <3> HIDE DEF top
      <3> QED
        BY <3>2, <3>4, <3>5 DEF AreLinks, RealLinks
    <2> QED
      BY <2>1, <2>2
  <1>6. \A c \in claims : \E d \in linkless : \E e \in top(d) : c = Claimed(e, d)
    <2> HIDE DEF top, Claimed, linkless
    <2> QED
      OBVIOUS
  <1>7. IsFiniteSet(claims)
    <2>1. ASSUME NEW d \in linkless PROVE IsFiniteSet(of[d])
      <3> DEFINE f == [e \in top(d) |-> Claimed(e, d)]
      <3> HIDE DEF top
      <3>1. DOMAIN f = top(d) /\ IsFiniteSet(top(d))
        BY <1>5
      <3>2. of[d] = {f[e] : e \in top(d)}
        BY DEF of
      <3> HIDE DEF f, of
      <3> QED
        BY <3>1, <3>2, FiniteImage
    <2>2. \A d \in linkless : of[d] = {Claimed(e, d) : e \in top(d)}
      <3> HIDE DEF linkless, top, Claimed
      <3> QED
        OBVIOUS
    <2> HIDE DEF of, linkless, top, Claimed
    <2>3. claims = UNION {of[d] : d \in linkless}
      BY <2>2
    <2> HIDE DEF claims
    <2> QED
      BY <1>4, <2>1, <2>3, FiniteFamily
  <1>8. \A c \in claims : /\ c.at \in Int /\ c.link.source \in Int /\ c.link.target \in Int /\ c.by \in Int
                          /\ c.pair = Ends(c.link) /\ c.by \in linkless
                          /\ \E e \in top(c.by) : c = Claimed(e, c.by) /\ e.link = c.link
    <2> HIDE DEF top, linkless, claims
    <2> QED
      BY <1>4, <1>5, <1>6
  <1>9. ASSUME NEW c \in F, NEW e \in F, c.at = e.at, c.link.source = e.link.source, c.link.target = e.link.target
        PROVE  c = e
    <2> HIDE DEF claims, top, linkless
    <2>1. c.pair = e.pair
      BY <1>8, <1>9 DEF Ends
    <2>2. c.by < e.by \/ c.by = e.by
      BY <2>1
    <2>3. e.by < c.by \/ c.by = e.by
      BY <2>1
    <2>4. c.by = e.by
      BY <1>8, <2>2, <2>3
    <2>5. PICK x \in top(c.by) : c = Claimed(x, c.by) /\ x.link = c.link
      BY <1>8
    <2>6. PICK y \in top(c.by) : e = Claimed(y, c.by) /\ y.link = e.link
      BY <1>8, <2>4
    <2>7. x = y
      BY <1>5, <1>8, <1>9, <2>5, <2>6
    <2> QED
      BY <2>5, <2>6, <2>7
  <1>10. IsFiniteSet(F) /\ F \subseteq claims
    <2> HIDE DEF claims, first
    <2> QED
      BY <1>7, FS_Subset
  <1> HIDE DEF claims, first
  <1>11. \A c \in F : /\ c.at \in Int /\ c.link.source \in Int /\ c.link.target \in Int
                      /\ c.pair = Ends(c.link)
    BY <1>8, <1>10
  <1> HIDE DEF F
  <1>12. key \in [F -> SortKeys(3)]
    BY <1>11 DEF SortKeys
  <1>13. ASSUME NEW x \in F, NEW y \in F PROVE newer(x, y) <=> LexLess(key[y], key[x])
    <2>1. key[x] = <<x.at, x.link.source, x.link.target>> /\ key[y] = <<y.at, y.link.source, y.link.target>>
      OBVIOUS
    <2> HIDE DEF key
    <2>2. LexLess(key[y], key[x]) <=>
             \/ y.at < x.at
             \/ y.at = x.at /\ y.link.source < x.link.source
             \/ y.at = x.at /\ y.link.source = x.link.source /\ y.link.target < x.link.target
      BY <1>11, <2>1, LexOfThree
    <2> QED
      BY <1>11, <2>2
  <1>14. ASSUME NEW x \in F, NEW y \in F, key[x] = key[y] PROVE x = y
    <2>1. x.at = y.at /\ x.link.source = y.link.source /\ x.link.target = y.link.target
      BY <1>14
    <2> QED
      BY <1>9, <2>1
  <1>15. T = RangeOf(NewestOf(InOrder(DownToKey(F, key)), LastKnownTotal))
    <2> HIDE DEF key, newer
    <2>1. [x \in F |-> {y \in F : ~newer(x, y)}] = DownToKey(F, key)
      BY <1>13 DEF DownToKey
    <2> QED
      BY <2>1 DEF TopOf, SortedBy
  <1>16. T \subseteq F
    <2> HIDE DEF key
    <2>1. Lists(InOrder(DownToKey(F, key)), F, DownToKey(F, key))
      BY <1>10, <1>12, <1>14, SortedDown
    <2> QED
      BY <1>15, <2>1, TopIsOf, LinksAssumption
  <1>17. IsFiniteSet({known[e] : e \in T})
    <2>1. IsFiniteSet(T) /\ DOMAIN known = T
      BY <1>10, <1>16, FS_Subset
    <2> HIDE DEF known, T
    <2> QED
      BY <2>1, FiniteImage
  <1>18. ASSUME NEW e \in T PROVE Known(e).at \in Int /\ \E a, b \in Int : Known(e).pair = {a, b}
    <2>1. e \in F
      BY <1>16
    <2>2. Known(e).at = e.at /\ Known(e).pair = {e.link.source, e.link.target}
      BY <1>11, <2>1 DEF Ends
    <2> QED
      BY <1>11, <2>1, <2>2
  <1>19. IsFiniteSet({Known(e) : e \in T})
    <2> HIDE DEF T
    <2> QED
      BY <1>17
  <1> HIDE DEF T, Known
  <1> QED
    BY <1>1, <1>18, <1>19, FS_EmptySet DEF snaps

(***************************************************************************)
(* Windows of events, and the hints drawn from them                        *)
(***************************************************************************)

\* Events in the order of their times.
IsTimeline(ev) ==
    /\ ev \in Seq([at : Int, dev : Int])
    /\ \A i, j \in DOMAIN ev : i <= j => ev[i].at <= ev[j].at

\* The lexicographic order of two places.
LEMMA LexOfTwo ==
    ASSUME NEW a1 \in Int, NEW a2 \in Int, NEW b1 \in Int, NEW b2 \in Int
    PROVE  LexLess(<<a1, a2>>, <<b1, b2>>) <=> a1 < b1 \/ (a1 = b1 /\ a2 < b2)
  <1> DEFINE a == <<a1, a2>>
             b == <<b1, b2>>
  <1>1. DOMAIN a = {1, 2} /\ a[1] = a1 /\ a[2] = a2 /\ b[1] = b1 /\ b[2] = b2
    OBVIOUS
  <1> HIDE DEF a, b
  <1>2. 1 .. 1 - 1 = {} /\ 1 .. 2 - 1 = {1}
    OBVIOUS
  <1>3. LexLess(a, b) <=> \/ a[1] < b[1] /\ \A j \in 1 .. 1 - 1 : a[j] = b[j]
                          \/ a[2] < b[2] /\ \A j \in 1 .. 2 - 1 : a[j] = b[j]
    BY <1>1 DEF LexLess
  <1> QED
    BY <1>1, <1>2, <1>3 DEF a, b

\* A sequence of members of a part.
LEMMA SequenceOfPart ==
    ASSUME NEW T, NEW S \in SUBSET T, NEW s \in Seq(S)
    PROVE  s \in Seq(T)
  <1>1. s \in [1 .. Len(s) -> S] /\ Len(s) \in Nat
    OBVIOUS
  <1>2. s \in [1 .. Len(s) -> T]
    BY <1>1
  <1> QED
    BY <1>1, <1>2

\* The events that count are in order.
LEMMA EventsAre ==
    ASSUME NEW events, IsList(events), RangeOf(events) \subseteq [at : Int, dev : Int], NEW known
    PROVE  IsTimeline(instability_events(events, known))
  <1> DEFINE later(i) == {j \in DOMAIN events : j > i /\ events[j].dev = events[i].dev}
             kept == {i \in DOMAIN events : events[i].dev \in known
                                            /\ Cardinality(later(i)) < EventsPerDevice}
             S == {events[i] : i \in kept}
             key == [x \in S |-> <<x.at, x.dev>>]
             ev == instability_events(events, known)
  <1>1. ev = SortedBy(S, LAMBDA e, f : LexLess(<<e.at, e.dev>>, <<f.at, f.dev>>))
    BY DEF instability_events
  <1>2. S \subseteq RangeOf(events)
    BY DEF RangeOf
  <1> HIDE DEF S
  <1>3. ev = InOrder(UpToKey(S, key))
    BY <1>1 DEF SortedBy, UpToKey
  <1>4. IsFiniteSet(S) /\ S \subseteq [at : Int, dev : Int]
    <2>1. IsFiniteSet(RangeOf(events))
      BY FiniteList
    <2> QED
      BY <1>2, <2>1, FS_Subset
  <1>5. key \in [S -> SortKeys(2)]
    BY <1>4 DEF SortKeys
  <1>6. \A x, y \in S : key[x] = key[y] => x = y
    BY <1>4
  <1>7. /\ Cardinality(S) \in Nat /\ ev \in Seq(S) /\ Len(ev) = Cardinality(S)
        /\ \A k, m \in 1 .. Cardinality(S) : k < m => LexLess(key[ev[k]], key[ev[m]])
    <2> HIDE DEF key, ev
    <2> QED
      BY <1>3, <1>4, <1>5, <1>6, SortedIs
  <1>8. \A x \in S : key[x] = <<x.at, x.dev>> /\ x.at \in Int /\ x.dev \in Int
    BY <1>4
  <1> HIDE DEF key, ev
  <1>9. ASSUME NEW i \in DOMAIN ev, NEW j \in DOMAIN ev, i <= j PROVE ev[i].at <= ev[j].at
    <2>1. ev[i] \in S /\ ev[j] \in S /\ i \in 1 .. Cardinality(S) /\ j \in 1 .. Cardinality(S)
      BY <1>7
    <2>2. CASE i = j
      BY <1>8, <2>1, <2>2
    <2>3. CASE i < j
      <3>1. LexLess(key[ev[i]], key[ev[j]])
        BY <1>7, <2>1, <2>3
      <3>2. LexLess(<<ev[i].at, ev[i].dev>>, <<ev[j].at, ev[j].dev>>)
        BY <1>8, <2>1, <3>1
      <3> QED
        BY <1>8, <2>1, <3>2, LexOfTwo
    <2> QED
      BY <1>7, <1>9, <2>2, <2>3
  <1>10. ev \in Seq([at : Int, dev : Int])
    BY <1>4, <1>7, SequenceOfPart
  <1> QED
    BY <1>9, <1>10 DEF IsTimeline, ev

\* The windows have ends and devices, and each starts at a time of its own.
LEMMA WindowsAre ==
    ASSUME NEW ev, IsTimeline(ev)
    PROVE  /\ IsFiniteSet(cluster_windows(ev))
           /\ \A w \in cluster_windows(ev) :
                 w.start \in Int /\ w.end \in Int /\ IsFiniteSet(w.devices) /\ w.devices \in SUBSET Int
           /\ \A v, w \in cluster_windows(ev) : v.start = w.start => v = w
  <1> DEFINE D == DOMAIN ev
             n == Len(ev)
             starts == {i \in D : i = 1 \/ ev[i].at - ev[i - 1].at > EventGap}
             ends(i) == {j - 1 : j \in {k \in starts : k > i}} \cup {n}
             stop(i) == MinOf(ends(i))
             W(i) == [start |-> ev[i].at, end |-> ev[stop(i)].at,
                      devices |-> {ev[k].dev : k \in i .. stop(i)}]
             win == [i \in starts |-> W(i)]
  <1>1. cluster_windows(ev) = {W(i) : i \in starts}
    BY DEF cluster_windows
  <1>2. /\ n \in Nat /\ D = 1 .. n
        /\ \A i \in 1 .. n : ev[i].at \in Int /\ ev[i].dev \in Int
        /\ \A i, j \in 1 .. n : i <= j => ev[i].at <= ev[j].at
    <2>1. ev \in Seq([at : Int, dev : Int]) /\ \A i, j \in DOMAIN ev : i <= j => ev[i].at <= ev[j].at
      BY DEF IsTimeline
    <2>2. n \in Nat /\ \A i \in 1 .. n : ev[i] \in [at : Int, dev : Int]
      BY <2>1, PlacesOfSequence
    <2>3. D = 1 .. n
      BY <2>1
    <2> HIDE DEF D, n
    <2>4. \A i, j \in D : i <= j => ev[i].at <= ev[j].at
      BY <2>1 DEF D
    <2> QED
      BY <2>2, <2>3, <2>4
  <1> HIDE DEF D, n
  <1>3. IsFiniteSet(starts) /\ starts \subseteq 1 .. n
    <2>1. IsFiniteSet(1 .. n) /\ starts \subseteq 1 .. n
      BY <1>2, FS_Interval
    <2> HIDE DEF starts
    <2> QED
      BY <2>1, FS_Subset
  <1>4. ASSUME NEW i \in starts PROVE stop(i) \in i .. n
    <2> DEFINE L == {k \in starts : k > i}
               f == [j \in L |-> j - 1]
               E == ends(i)
    <2>1. IsFiniteSet({f[j] : j \in L})
      <3>1. IsFiniteSet(L) /\ DOMAIN f = L
        <4> HIDE DEF starts
        <4> QED
          BY <1>3, FS_Subset
      <3> HIDE DEF L, f
      <3> QED
        BY <3>1, FiniteImage
    <2>2. E = {f[j] : j \in L} \cup {n}
      OBVIOUS
    <2>3. IsFiniteSet(E)
      BY <2>1, <2>2, FS_AddElement
    <2>4. E \subseteq i .. n /\ E # {}
      <3> HIDE DEF starts
      <3> QED
        BY <1>2, <1>3
    <2> HIDE DEF E
    <2>5. MinOf(E) \in E
      BY <2>3, <2>4, EndsOfSet
    <2> QED
      BY <2>4, <2>5 DEF E
  <1> HIDE DEF stop
  <1>5. IsFiniteSet({win[i] : i \in starts})
    <2>1. DOMAIN win = starts
      OBVIOUS
    <2> HIDE DEF win, starts
    <2> QED
      BY <1>3, <2>1, FiniteImage
  <1>6. IsFiniteSet(cluster_windows(ev))
    <2>1. {win[i] : i \in starts} = {W(i) : i \in starts}
      <3> HIDE DEF W, starts
      <3> QED
        OBVIOUS
    <2> QED
      BY <1>1, <1>5, <2>1
  <1>7. ASSUME NEW i \in starts
        PROVE  W(i).start \in Int /\ W(i).end \in Int /\ IsFiniteSet(W(i).devices) /\ W(i).devices \in SUBSET Int
    <2> DEFINE P == i .. stop(i)
               f == [k \in P |-> ev[k].dev]
    <2>1. stop(i) \in i .. n /\ i \in 1 .. n
      BY <1>3, <1>4
    <2>2. P \subseteq 1 .. n /\ IsFiniteSet(P)
      <3>1. i \in Int /\ stop(i) \in Int /\ P \subseteq 1 .. n
        BY <1>2, <2>1
      <3> QED
        BY <3>1, FS_Interval
    <2>3. IsFiniteSet({f[k] : k \in P})
      <3>1. DOMAIN f = P
        OBVIOUS
      <3> HIDE DEF f, P
      <3> QED
        BY <2>2, <3>1, FiniteImage
    <2>4. W(i).devices = {f[k] : k \in P}
      OBVIOUS
    <2>5. {f[k] : k \in P} \in SUBSET Int
      BY <1>2, <2>2
    <2>6. W(i).start = ev[i].at /\ W(i).end = ev[stop(i)].at
      OBVIOUS
    <2>7. W(i).start \in Int /\ W(i).end \in Int
      BY <1>2, <2>1, <2>6
    <2> HIDE DEF W, f, P
    <2> QED
      BY <2>3, <2>4, <2>5, <2>7
  <1>8. \A i, j \in starts : i < j => ev[i].at < ev[j].at
    <2>1. ASSUME NEW i \in starts, NEW j \in starts, i < j PROVE ev[i].at < ev[j].at
      <3>1. i \in 1 .. n /\ j \in 1 .. n /\ j - 1 \in 1 .. n /\ i <= j - 1
        BY <1>2, <1>3, <2>1
      <3>2. ev[j].at - ev[j - 1].at > EventGap
        BY <2>1, <3>1
      <3>3. ev[i].at <= ev[j - 1].at
        BY <1>2, <3>1
      <3>4. ev[i].at \in Int /\ ev[j].at \in Int /\ ev[j - 1].at \in Int /\ EventGap \in Nat
        BY <1>2, <3>1, CardAssumption
      <3> QED
        BY <3>2, <3>3, <3>4
    <2> QED
      BY <2>1
  <1>9. \A i, j \in starts : W(i).start = W(j).start => W(i) = W(j)
    <2>1. ASSUME NEW i \in starts, NEW j \in starts, W(i).start = W(j).start PROVE i = j
      <3>1. ev[i].at = ev[j].at
        BY <2>1
      <3>2. i \in 1 .. n /\ j \in 1 .. n /\ ev[i].at \in Int
        BY <1>2, <1>3
      <3> HIDE DEF starts, W
      <3> QED
        BY <1>2, <1>8, <3>1, <3>2
    <2> HIDE DEF W, starts
    <2> QED
      BY <2>1
  <1> HIDE DEF W, starts
  <1> QED
    BY <1>1, <1>6, <1>7, <1>9

\* The largest of what is said of finitely many.
LEMMA LargestIs ==
    ASSUME NEW S, IsFiniteSet(S), S # {}, NEW f, DOMAIN f = S, \A x \in S : f[x] \in Int
    PROVE  MaxOf({f[x] : x \in S}) \in Int
  <1> DEFINE T == {f[x] : x \in S}
  <1>1. IsFiniteSet(T) /\ T \in SUBSET Int /\ T # {}
    BY FiniteImage
  <1> HIDE DEF T
  <1> QED
    BY <1>1, EndsOfSet DEF T

\* A set of two numbers is a pair.
LEMMA PairOfTwo ==
    ASSUME NEW p \in SUBSET Int, IsFiniteSet(p), Cardinality(p) = 2
    PROVE  \E a, b \in Int : a # b /\ p = {a, b}
  <1>1. p # {}
    BY FS_EmptySet
  <1>2. PICK a \in p : TRUE
    BY <1>1
  <1> DEFINE q == p \ {a}
  <1>3. IsFiniteSet(q) /\ Cardinality(q) = 1
    BY <1>2, FS_RemoveElement
  <1>4. q # {}
    BY <1>3, FS_EmptySet
  <1>5. PICK b \in q : TRUE
    BY <1>4
  <1> HIDE DEF q
  <1>6. IsFiniteSet(q \ {b}) /\ Cardinality(q \ {b}) = 0
    BY <1>3, <1>5, FS_RemoveElement
  <1>7. q \ {b} = {}
    BY <1>6, FS_EmptySet
  <1>8. b \in p /\ a # b
    BY <1>5 DEF q
  <1>9. \A x \in p : x = a \/ x = b
    BY <1>7 DEF q
  <1>10. a \in Int /\ b \in Int /\ p = {a, b}
    BY <1>2, <1>8, <1>9
  <1> QED
    BY <1>8, <1>10

\* A hint about two devices.
IsHint(h) == h.at \in Int /\ h.confidence \in 0 .. 2 /\ \E a, b \in Int : a # b /\ h.pair = {a, b}
AreHints(hints) ==
    /\ IsFiniteSet(hints) /\ \A h \in hints : IsHint(h)
    /\ \A h, k \in hints : h.pair = k.pair => h = k

\* The windows of the recorded events.
WindowsOf(g) == cluster_windows(instability_events(g.events, DOMAIN g.rows))

\* Hints are about pairs that were offline together in a window of few devices
\* (passive_hints.py).
LEMMA HintsAre ==
    ASSUME NEW g, AreGraphReads(g)
    PROVE  /\ AreHints(QualifyingHints(g))
           /\ \A h \in QualifyingHints(g) : \E w \in WindowsOf(g) :
                 h.pair \subseteq w.devices /\ ~(Cardinality(w.devices) > StormSize)
  <1> DEFINE all == WindowsOf(g)
             windows == {w \in all : Cardinality(w.devices) \in 2 .. StormSize}
             of(p) == {w \in windows : p \subseteq w.devices}
             sub == [w \in windows |-> kSubset(2, w.devices)]
             P == UNION {sub[w] : w \in windows}
             pairs == {p \in P : Cardinality(of(p)) >= 2}
             issue(p) == p \cap issue_device_ids(g.rows) # {}
             corr(p) == Corroborated(g.snaps, g.now, p)
             H(p) == [pair |-> p, count |-> Cardinality(of(p)), corroborated |-> corr(p), issue |-> issue(p),
                      confidence |-> hint_confidence(Cardinality(of(p)) > 2, corr(p), issue(p)),
                      at |-> MaxOf({w.end : w \in of(p)})]
             hint == [p \in pairs |-> H(p)]
  <1>1. QualifyingHints(g) = {H(p) : p \in pairs}
    BY DEF QualifyingHints, WindowsOf
  <1>2. /\ IsFiniteSet(all)
        /\ \A w \in all : w.end \in Int /\ IsFiniteSet(w.devices) /\ w.devices \in SUBSET Int
    <2>1. IsTimeline(instability_events(g.events, DOMAIN g.rows))
      BY EventsAre DEF AreGraphReads
    <2> QED
      BY <2>1, WindowsAre DEF WindowsOf
  <1> HIDE DEF all
  <1>3. IsFiniteSet(windows) /\ windows \subseteq all
    <2>1. windows \subseteq all
      OBVIOUS
    <2> HIDE DEF windows
    <2> QED
      BY <1>2, <2>1, FS_Subset
  <1>4. \A w \in windows : /\ IsFiniteSet(sub[w])
                           /\ \A p \in sub[w] : p \in SUBSET w.devices /\ Cardinality(p) = 2
    <2>1. ASSUME NEW w \in windows
          PROVE  IsFiniteSet(kSubset(2, w.devices))
      <3>1. IsFiniteSet(SUBSET w.devices)
        BY <1>2, <1>3, FS_SUBSET
      <3>2. kSubset(2, w.devices) \subseteq SUBSET w.devices
        BY DEF kSubset
      <3> QED
        BY <3>1, <3>2, FS_Subset
    <2> HIDE DEF windows
    <2> QED
      BY <2>1 DEF kSubset
  <1>5. IsFiniteSet(pairs) /\ pairs \subseteq P
    <2>1. IsFiniteSet(P)
      <3> HIDE DEF sub, windows
      <3> QED
        BY <1>3, <1>4, FiniteFamily
    <2> HIDE DEF P, of
    <2> QED
      BY <2>1, FS_Subset
  <1>6. ASSUME NEW p \in pairs
        PROVE  /\ \E a, b \in Int : a # b /\ p = {a, b}
               /\ IsFiniteSet(of(p)) /\ of(p) # {} /\ of(p) \subseteq windows
    <2>1. PICK w \in windows : p \in sub[w]
      BY <1>5
    <2>2. p \in SUBSET w.devices /\ Cardinality(p) = 2 /\ w.devices \in SUBSET Int /\ IsFiniteSet(w.devices)
      BY <1>2, <1>3, <1>4, <2>1
    <2>3. IsFiniteSet(p) /\ p \in SUBSET Int
      BY <2>2, FS_Subset
    <2>4. \E a, b \in Int : a # b /\ p = {a, b}
      BY <2>2, <2>3, PairOfTwo
    <2>5. of(p) \subseteq windows
      OBVIOUS
    <2>6. Cardinality(of(p)) >= 2
      OBVIOUS
    <2> HIDE DEF of, windows
    <2>7. IsFiniteSet(of(p))
      BY <1>3, <2>5, FS_Subset
    <2>8. of(p) # {}
      BY <2>6, FS_EmptySet
    <2> QED
      BY <2>4, <2>5, <2>7, <2>8
  <1>7. ASSUME NEW p \in pairs
        PROVE  /\ IsHint(H(p)) /\ H(p).pair = p
               /\ \E w \in all : p \subseteq w.devices /\ ~(Cardinality(w.devices) > StormSize)
    <2> DEFINE O == of(p)
               f == [w \in O |-> w.end]
    <2>1. MaxOf({f[w] : w \in O}) \in Int
      <3>1. DOMAIN f = O /\ IsFiniteSet(O) /\ O # {}
        BY <1>6
      <3>2. \A w \in O : f[w] \in Int
        BY <1>2, <1>3, <1>6
      <3> HIDE DEF f, O
      <3> QED
        BY <3>1, <3>2, LargestIs
    <2>2. H(p).at = MaxOf({f[w] : w \in O})
      OBVIOUS
    <2>3. H(p).confidence \in 0 .. 2
      <3>1. \A a, b, c : hint_confidence(a, b, c) \in 0 .. 2
        BY DEF hint_confidence
      <3>2. H(p).confidence = hint_confidence(Cardinality(of(p)) > 2, corr(p), issue(p))
        OBVIOUS
      <3> HIDE DEF H
      <3> QED
        BY <3>1, <3>2
    <2>4. H(p).pair = p
      OBVIOUS
    <2>5. PICK w \in O : TRUE
      BY <1>6
    <2>6. w \in all /\ p \subseteq w.devices /\ Cardinality(w.devices) \in 2 .. StormSize
      BY <1>3
    <2>7. ~(Cardinality(w.devices) > StormSize)
      BY <2>6, CardAssumption
    <2> HIDE DEF H, of, pairs
    <2> QED
      BY <1>6, <2>1, <2>2, <2>3, <2>4, <2>6, <2>7 DEF IsHint
  <1>8. IsFiniteSet({hint[p] : p \in pairs})
    <2>1. DOMAIN hint = pairs
      OBVIOUS
    <2> HIDE DEF hint, pairs
    <2> QED
      BY <1>5, <2>1, FiniteImage
  <1>9. IsFiniteSet(QualifyingHints(g))
    <2>1. {hint[p] : p \in pairs} = {H(p) : p \in pairs}
      <3> HIDE DEF H, pairs
      <3> QED
        OBVIOUS
    <2> QED
      BY <1>1, <1>8, <2>1
  <1> HIDE DEF H, pairs
  <1>10. AreHints(QualifyingHints(g))
    BY <1>1, <1>7, <1>9 DEF AreHints
  <1> QED
    BY <1>1, <1>7, <1>10 DEF all

\* Hints are listed by confidence, issue, recency and pair.
LEMMA HintsAreSorted ==
    ASSUME NEW hints, AreHints(hints)
    PROVE  /\ SortedBy(hints, HintBefore) \in Seq(hints)
           /\ \A h \in hints : \E i \in 1 .. Len(SortedBy(hints, HintBefore)) :
                 SortedBy(hints, HintBefore)[i] = h
  <1> DEFINE key == [h \in hints |-> HintKey(h)]
             order == SortedBy(hints, HintBefore)
  <1>1. order = InOrder(UpToKey(hints, key))
    <2>1. \A x, y \in hints : HintBefore(x, y) <=> LexLess(key[x], key[y])
      BY DEF HintBefore
    <2> HIDE DEF key
    <2>2. [x \in hints |-> {y \in hints : ~HintBefore(x, y)}] = UpToKey(hints, key)
      BY <2>1 DEF UpToKey
    <2> QED
      BY <2>2 DEF SortedBy
  <1>2. ASSUME NEW h \in hints
        PROVE  /\ MinOf(h.pair) \in Int /\ MaxOf(h.pair) \in Int /\ h.pair = {MinOf(h.pair), MaxOf(h.pair)}
               /\ -h.confidence \in Int /\ -h.at \in Int
    <2>1. PICK a, b \in Int : a # b /\ h.pair = {a, b}
      BY DEF AreHints, IsHint
    <2>2. h.confidence \in Int /\ h.at \in Int
      BY DEF AreHints, IsHint
    <2> QED
      BY <2>1, <2>2, PairEnds
  <1>3. key \in [hints -> SortKeys(5)]
    <2>1. ASSUME NEW h \in hints PROVE HintKey(h) \in SortKeys(5)
      <3>1. (IF h.issue THEN 0 ELSE 1) \in Int
        OBVIOUS
      <3> QED
        BY <1>2, <3>1 DEF HintKey, SortKeys
    <2> QED
      BY <2>1
  <1>4. ASSUME NEW h \in hints, NEW k \in hints, key[h] = key[k] PROVE h = k
    <2>1. MinOf(h.pair) = MinOf(k.pair) /\ MaxOf(h.pair) = MaxOf(k.pair)
      BY <1>4 DEF HintKey
    <2>2. h.pair = k.pair
      BY <1>2, <2>1
    <2> QED
      BY <2>2 DEF AreHints
  <1>5. /\ Cardinality(hints) \in Nat /\ order \in Seq(hints) /\ Len(order) = Cardinality(hints)
        /\ \A h \in hints : \E i \in 1 .. Cardinality(hints) : order[i] = h
    <2> HIDE DEF key, order
    <2>1. IsFiniteSet(hints)
      BY DEF AreHints
    <2> QED
      BY <1>1, <1>3, <1>4, <2>1, SortedIs
  <1> QED
    BY <1>5

\* The evidence the cards are made of.
IsEvidence(e) ==
    /\ AreLinks(e.links)
    /\ IsFiniteSet(e.neighbours) /\ IsFiniteSet(e.routes) /\ IsFiniteSet(e.known)
    /\ \A x \in e.neighbours : x.last \in Int /\ x.key \in SUBSET Int /\ IsFiniteSet(x.key) /\ x.key # {}
    /\ \A x \in e.routes : x.last \in Int /\ x.key[1] \in Int /\ x.key[2] \in Int
    /\ \A x \in e.known : x.at \in Int /\ \E a, b \in Int : x.pair = {a, b}
    /\ AreHints(e.hints)

\* What is drawn from stored reads is such evidence, and a hint is about a pair that
\* was offline together in a window of few devices.
LEMMA EvidenceFromReads ==
    ASSUME NEW g, AreGraphReads(g)
    PROVE  /\ IsEvidence(EvidenceOf(g))
           /\ \A h \in EvidenceOf(g).hints : \E w \in WindowsOf(g) :
                 h.pair \subseteq w.devices /\ ~(Cardinality(w.devices) > StormSize)
  <1> DEFINE e == EvidenceOf(g)
             Q == QualifyingHints(g)
  <1>1. /\ e.links = LatestLinks(g.snaps) /\ e.neighbours = historical_neighbors(g.snaps, g.now)
        /\ e.routes = historical_routes(g.snaps, g.now) /\ e.known = aggregate_last_known_links(g.snaps)
        /\ e.hints = aggregate_passive_hints(g)
    BY DEF EvidenceOf
  <1> HIDE DEF e
  <1>2. AreLinks(e.links)
    <2>1. StoredMaps(g.snaps) /\ \A s \in RangeOf(g.snaps) : AreLinks(s.links)
      BY DEF AreGraphReads
    <2>2. e.links = <<>> \/ \E s \in RangeOf(g.snaps) : e.links = s.links
      BY <1>1, <2>1, MapsOfGraph
    <2>3. AreLinks(<<>>)
      <3>1. RangeOf(<<>>) = {} /\ <<>> \in Seq({})
        BY DEF RangeOf
      <3> QED
        BY <3>1 DEF AreLinks, IsList
    <2> QED
      BY <2>1, <2>2, <2>3
  <1>3. /\ AreHints(Q)
        /\ \A h \in Q : \E w \in WindowsOf(g) :
              h.pair \subseteq w.devices /\ ~(Cardinality(w.devices) > StormSize)
    BY HintsAre
  <1>4. e.hints \subseteq Q
    <2>1. SortedBy(Q, HintBefore) \in Seq(Q)
      <3> HIDE DEF Q
      <3> QED
        BY <1>3, HintsAreSorted
    <2> QED
      BY <1>1, <2>1, TakenQualify
  <1> HIDE DEF Q
  <1>5. AreHints(e.hints)
    BY <1>3, <1>4, FS_Subset DEF AreHints
  <1>6. IsEvidence(e)
    BY <1>1, <1>2, <1>5, HistoryOfGraph, KnownAre DEF IsEvidence
  <1> QED
    BY <1>3, <1>4, <1>6 DEF e

\* No hint joins a device of D with one outside, and no root stands for both.
Separates(D, hints) == \A h \in hints : h.pair \subseteq D \/ h.pair \cap D = {}
OnOneSide(D, root, devs) == \A a, b \in devs : root[a] = root[b] => (a \in D <=> b \in D)

\* The two devices of a hint are in one group, whatever groups are joined for the
\* hints after it, and devices that no chain of hints joins are in different groups
\* (_UnionFind of investigations.py).
LEMMA GroupsAre ==
    ASSUME NEW hints, AreHints(hints)
    PROVE  LET devs == UNION {h.pair : h \in hints}
               root == HintGroups(hints) IN
           /\ IsFiniteSet(devs) /\ devs \in SUBSET Int
           /\ root \in [devs -> Int]
           /\ \A h \in hints : \A a, b \in h.pair : root[a] = root[b]
           /\ \A D : Separates(D, hints) => OnOneSide(D, root, devs)
  <1> DEFINE devs == UNION {h.pair : h \in hints}
             order == SortedBy(hints, HintBefore)
             n == Len(order)
             Union(root, h) ==
                 LET roots == {root[d] : d \in h.pair} IN
                 [d \in devs |-> IF root[d] \in roots THEN MinOf(roots) ELSE root[d]]
             Step(f, i) == IF i = 0 THEN [d \in devs |-> d] ELSE Union(f[i - 1], order[i])
             joined == CHOOSE f : f = [i \in 0 .. n |-> Step(f, i)]
             U == [devs -> Int]
             next == [i \in 1 .. n |-> [root \in U |-> Union(root, order[i])]]
             base == [d \in devs |-> d]
  <1>1. HintGroups(hints) = joined[n]
    BY Zenon DEF HintGroups
  <1>2. /\ n \in Nat /\ \A i \in 1 .. n : order[i] \in hints
        /\ \A h \in hints : \E i \in 1 .. n : order[i] = h
    <2>1. order \in Seq(hints) /\ \A h \in hints : \E i \in 1 .. n : order[i] = h
      BY HintsAreSorted
    <2> HIDE DEF order
    <2> QED
      BY <2>1, PlacesOfSequence
  <1> HIDE DEF order, n
  <1>3. \A h \in hints : /\ h.pair \subseteq devs /\ h.pair # {}
                         /\ IsFiniteSet(h.pair) /\ h.pair \in SUBSET Int
    <2>1. ASSUME NEW h \in hints
          PROVE  h.pair # {} /\ IsFiniteSet(h.pair) /\ h.pair \in SUBSET Int
      <3>1. PICK a, b \in Int : h.pair = {a, b}
        BY DEF AreHints, IsHint
      <3>2. IsFiniteSet({a}) /\ IsFiniteSet({a} \cup {b})
        BY FS_Singleton, FS_AddElement
      <3> QED
        BY <3>1, <3>2
    <2> QED
      BY <2>1
  <1>4. IsFiniteSet(devs) /\ devs \in SUBSET Int
    <2> DEFINE pair == [h \in hints |-> h.pair]
    <2>1. IsFiniteSet(hints) /\ \A h \in hints : IsFiniteSet(pair[h])
      BY <1>3 DEF AreHints
    <2>2. devs = UNION {pair[h] : h \in hints}
      OBVIOUS
    <2>3. devs \in SUBSET Int
      BY <1>3
    <2> HIDE DEF pair, devs
    <2> QED
      BY <2>1, <2>2, <2>3, FiniteFamily
  <1> HIDE DEF devs
  <1>5. ASSUME NEW root \in U, NEW h \in hints
        PROVE  /\ Union(root, h) \in U
               /\ \A a, b \in devs : root[a] = root[b] => Union(root, h)[a] = Union(root, h)[b]
               /\ \A a, b \in h.pair : Union(root, h)[a] = Union(root, h)[b]
               /\ \A D : Separates(D, hints) /\ OnOneSide(D, root, devs) => OnOneSide(D, Union(root, h), devs)
    <2> DEFINE roots == {root[d] : d \in h.pair}
               f == [d \in h.pair |-> root[d]]
    <2>1. \A d \in devs : root[d] \in Int
      OBVIOUS
    <2>2. roots \in SUBSET Int /\ roots # {}
      BY <1>3, <2>1
    <2>3. IsFiniteSet({f[d] : d \in h.pair})
      <3>1. DOMAIN f = h.pair /\ IsFiniteSet(h.pair)
        BY <1>3
      <3> HIDE DEF f
      <3> QED
        BY <3>1, FiniteImage
    <2>4. {f[d] : d \in h.pair} = roots
      OBVIOUS
    <2> HIDE DEF f, roots
    <2>5. MinOf(roots) \in roots
      BY <2>2, <2>3, <2>4, EndsOfSet
    <2>6. Union(root, h) = [d \in devs |-> IF root[d] \in roots THEN MinOf(roots) ELSE root[d]]
      BY DEF roots
    <2>7. /\ \A d \in h.pair : d \in devs /\ root[d] \in roots
          /\ \A q \in roots : \E d \in h.pair : root[d] = q
      BY <1>3 DEF roots
    <2> HIDE DEF Union
    <2>8. Union(root, h) \in U
      BY <2>1, <2>2, <2>5, <2>6
    <2>9. \A a, b \in devs : root[a] = root[b] => Union(root, h)[a] = Union(root, h)[b]
      BY <2>6
    <2>10. \A a, b \in h.pair : Union(root, h)[a] = Union(root, h)[b]
      BY <2>6, <2>7
    <2>11. ASSUME NEW D, Separates(D, hints), OnOneSide(D, root, devs),
                  NEW a \in devs, NEW b \in devs, Union(root, h)[a] = Union(root, h)[b]
           PROVE  a \in D <=> b \in D
      <3>1. \A c, d \in h.pair : c \in D <=> d \in D
        BY <2>11 DEF Separates
      <3>2. \/ root[a] \in roots /\ root[b] \in roots
            \/ root[a] \notin roots /\ root[b] \notin roots /\ root[a] = root[b]
        BY <2>5, <2>6, <2>11
      <3>3. CASE root[a] \in roots /\ root[b] \in roots
        <4>1. PICK c, d \in h.pair : root[c] = root[a] /\ root[d] = root[b]
          BY <2>7, <3>3
        <4>2. (c \in D <=> a \in D) /\ (d \in D <=> b \in D)
          BY <2>7, <2>11, <4>1 DEF OnOneSide
        <4> QED
          BY <3>1, <4>2
      <3>4. CASE root[a] = root[b]
        BY <2>11, <3>4 DEF OnOneSide
      <3> QED
        BY <3>2, <3>3, <3>4
    <2>12. \A D : Separates(D, hints) /\ OnOneSide(D, root, devs) => OnOneSide(D, Union(root, h), devs)
      BY <2>11 DEF OnOneSide
    <2> QED
      BY <2>8, <2>9, <2>10, <2>12
  <1> HIDE DEF Union
  <1>6. base \in U
    BY <1>4
  <1>7. PICK f : IsRun(f, n, U, base, next)
    <2>1. next \in [1 .. n -> [U -> U]]
      BY <1>2, <1>5
    <2>2. next \in Steps(n, U) /\ base \in U /\ n \in Nat
      <3> HIDE DEF next, base
      <3> QED
        BY <1>2, <1>6, <2>1 DEF Steps
    <2> HIDE DEF next, U, base
    <2> QED
      BY <2>2, StepsAreTaken
  <1>8. f = [i \in 0 .. n |-> Step(f, i)]
    <2>1. ASSUME NEW i \in 0 .. n PROVE f[i] = Step(f, i)
      <3>1. CASE i = 0
        BY <1>7, <3>1 DEF IsRun
      <3>2. CASE i # 0
        <4>1. i \in 1 .. n /\ i - 1 \in 0 .. n
          BY <1>2, <3>2
        <4> HIDE DEF U
        <4>2. f[i - 1] \in U /\ f[i] = next[i][f[i - 1]]
          BY <1>7, <4>1 DEF IsRun
        <4> QED
          BY <3>2, <4>1, <4>2
      <3> QED
        BY <3>1, <3>2
    <2>2. f = [i \in 0 .. n |-> f[i]]
      BY <1>7 DEF IsRun
    <2> HIDE DEF Step
    <2> QED
      BY <2>1, <2>2
  <1>9. joined = [i \in 0 .. n |-> Step(joined, i)]
    <2> HIDE DEF Step
    <2> QED
      BY <1>8, Zenon
  <1>10. joined[0] = base /\ \A i \in 1 .. n : joined[i] = Union(joined[i - 1], order[i])
    <2> HIDE DEF joined
    <2>1. \A i \in 0 .. n : joined[i] = Step(joined, i)
      <3> HIDE DEF Step
      <3> QED
        BY <1>9
    <2> QED
      BY <1>2, <2>1
  <1> HIDE DEF joined, U, base
  <1> DEFINE Same(i) == \A j \in 1 .. i : \A a, b \in order[j].pair : joined[i][a] = joined[i][b]
             S == {i \in 0 .. n : joined[i] \in U /\ Same(i)}
  <1>11. 0 \in S
    BY <1>2, <1>6, <1>10
  <1>12. ASSUME NEW i \in 1 .. n, i - 1 \in S PROVE i \in S
    <2>1. joined[i] = Union(joined[i - 1], order[i]) /\ joined[i - 1] \in U /\ Same(i - 1) /\ order[i] \in hints
      BY <1>2, <1>10, <1>12
    <2>2. /\ joined[i] \in U
          /\ \A a, b \in devs : joined[i - 1][a] = joined[i - 1][b] => joined[i][a] = joined[i][b]
          /\ \A a, b \in order[i].pair : joined[i][a] = joined[i][b]
      BY <1>5, <2>1
    <2>3. ASSUME NEW j \in 1 .. i, NEW a \in order[j].pair, NEW b \in order[j].pair
          PROVE  joined[i][a] = joined[i][b]
      <3>1. CASE j = i
        BY <2>2, <3>1
      <3>2. CASE j # i
        <4>1. j \in 1 .. i - 1 /\ j \in 1 .. n
          BY <1>2, <3>2
        <4>2. joined[i - 1][a] = joined[i - 1][b]
          BY <2>1, <4>1
        <4>3. order[j] \in hints
          BY <1>2, <4>1
        <4>4. a \in devs /\ b \in devs
          BY <1>3, <4>3
        <4> QED
          BY <2>2, <4>2, <4>4
      <3> QED
        BY <3>1, <3>2
    <2>4. Same(i)
      BY <2>3
    <2> HIDE DEF Same
    <2> QED
      BY <1>2, <2>2, <2>4
  <1>13. joined[n] \in U /\ Same(n)
    <2> HIDE DEF Same
    <2>1. 0 .. n \subseteq S
      <3> HIDE DEF S
      <3> QED
        BY <1>2, <1>11, <1>12, CountUp
    <2> QED
      BY <1>2, <2>1
  <1>14. \A h \in hints : \A a, b \in h.pair : joined[n][a] = joined[n][b]
    BY <1>2, <1>13
  <1>15. ASSUME NEW D, Separates(D, hints) PROVE OnOneSide(D, joined[n], devs)
    <2> DEFINE T == {i \in 0 .. n : joined[i] \in U /\ OnOneSide(D, joined[i], devs)}
    <2>1. 0 \in T
      <3>1. joined[0] \in U /\ joined[0] = base
        BY <1>6, <1>10
      <3>2. OnOneSide(D, base, devs)
        BY DEF OnOneSide, base
      <3> QED
        BY <1>2, <3>1, <3>2
    <2>2. ASSUME NEW i \in 1 .. n, i - 1 \in T PROVE i \in T
      <3>1. /\ joined[i] = Union(joined[i - 1], order[i]) /\ joined[i - 1] \in U /\ order[i] \in hints
            /\ OnOneSide(D, joined[i - 1], devs)
        BY <1>2, <1>10, <2>2
      <3>2. joined[i] \in U /\ OnOneSide(D, joined[i], devs)
        BY <1>5, <1>15, <3>1
      <3> QED
        BY <1>2, <3>2
    <2>3. 0 .. n \subseteq T
      <3> HIDE DEF T
      <3> QED
        BY <1>2, <2>1, <2>2, CountUp
    <2> QED
      BY <1>2, <2>3
  <1> QED
    BY <1>1, <1>4, <1>13, <1>14, <1>15 DEF U, devs

(***************************************************************************)
(* The families of cards                                                   *)
(***************************************************************************)

\* Cards of one type: an id names one of them, and their edges are drawn.
AreCardsOf(type, cards, e) ==
    /\ IsFiniteSet(cards)
    /\ \A c \in cards : /\ c.type = type /\ c.id \in Int /\ c.score \in Int /\ c.at \in Int \cup {Missing}
                        /\ c.edges \subseteq DrawnEdges(e)
    /\ \A c, k \in cards : c.id = k.id => c = k

\* One card for each of finitely many.
LEMMA FamilyIs ==
    ASSUME NEW type, NEW e, NEW S, IsFiniteSet(S), NEW card, DOMAIN card = S,
           \A x \in S : /\ card[x].type = type /\ card[x].id \in Int /\ card[x].score \in Int
                        /\ card[x].at \in Int \cup {Missing} /\ card[x].edges \subseteq DrawnEdges(e),
           \A x, y \in S : card[x].id = card[y].id => card[x] = card[y]
    PROVE  AreCardsOf(type, {card[x] : x \in S}, e)
  <1>1. IsFiniteSet({card[x] : x \in S})
    BY FiniteImage
  <1> QED
    BY <1>1 DEF AreCardsOf

\* The boost of a recent moment is a number.
LEMMA BoostIs == \A at, now : recency_boost(at, now) \in Int
  BY DEF recency_boost

\* A card has the type, the identity, the score, the time and the links it is made with.
LEMMA CardIs ==
    ASSUME NEW type, NEW id, NEW score, NEW devs, NEW edges, NEW at
    PROVE  LET c == Card(type, id, score, devs, edges, at) IN
           c.type = type /\ c.id = id /\ c.score = score /\ c.edges = edges /\ c.at = at
  BY DEF Card

\* The time of the newest map.
LEMMA NewestAtIs ==
    ASSUME NEW g, AreGraphReads(g)
    PROVE  /\ NewestAt(g) \in Int \cup {Missing}
           /\ Latest(g.snaps) # {} => Usable(g.snaps)[1].at \in Int
  BY MapsOfGraph DEF AreGraphReads, NewestAt

\* The devices with issues are devices of the inventory.
LEMMA IssuesAreFinite ==
    ASSUME NEW g, AreGraphReads(g)
    PROVE  /\ IsFiniteSet(issue_device_ids(g.rows))
           /\ \A S : IsFiniteSet(S \cap issue_device_ids(g.rows))
                     /\ Cardinality(S \cap issue_device_ids(g.rows)) \in Nat
  <1> DEFINE I == issue_device_ids(g.rows)
  <1>1. I \subseteq DOMAIN g.rows
    BY DEF issue_device_ids
  <1>2. IsFiniteSet(DOMAIN g.rows)
    BY DEF AreGraphReads
  <1> HIDE DEF I
  <1>3. IsFiniteSet(I)
    BY <1>1, <1>2, FS_Subset
  <1>4. \A S : IsFiniteSet(S \cap I)
    BY <1>3, FS_Subset
  <1> QED
    BY <1>3, <1>4, FS_CardinalityType DEF I

\* Clusters of devices with issues (_issue_cluster_cards).
LEMMA ClusterCards ==
    ASSUME NEW g, AreGraphReads(g), NEW e, IsEvidence(e)
    PROVE  AreCardsOf("issue_cluster", issue_cluster_cards(g, e), e)
  <1> DEFINE R == IssueRouters(g, e)
             key == RouterKey(g, e)
  <1>1. IsFiniteSet(R) /\ R \in SUBSET Int
    <2>1. IsFiniteSet(LinkedIn(e.links)) /\ LinkedIn(e.links) \in SUBSET Int
      BY LinkedAre DEF IsEvidence
    <2>2. R \subseteq LinkedIn(e.links)
      BY DEF IssueRouters
    <2> HIDE DEF R
    <2> QED
      BY <2>1, <2>2, FS_Subset
  <1>2. RouterOrder(g, e) = InOrder(UpToKey(R, key))
    BY DEF RouterOrder, SortedBy, UpToKey
  <1>3. key = [r \in R |-> <<-Cardinality(Near(g, e, r) \cap issue_device_ids(g.rows)), r>>]
    BY DEF RouterKey
  <1> HIDE DEF R, key
  <1>4. key \in [R -> SortKeys(2)]
    <2>1. \A r \in R : <<-Cardinality(Near(g, e, r) \cap issue_device_ids(g.rows)), r>> \in SortKeys(2)
      <3>1. ASSUME NEW r \in R
            PROVE  <<-Cardinality(Near(g, e, r) \cap issue_device_ids(g.rows)), r>> \in SortKeys(2)
        <4>1. Cardinality(Near(g, e, r) \cap issue_device_ids(g.rows)) \in Nat /\ r \in Int
          BY <1>1, IssuesAreFinite
        <4> QED
          BY <4>1 DEF SortKeys
      <3> QED
        BY <3>1
    <2> QED
      BY <1>3, <2>1
  <1>5. \A x, y \in R : key[x] = key[y] => x = y
    BY <1>3
  <1>6. RouterOrder(g, e) \in Seq(IssueRouters(g, e))
    BY <1>1, <1>2, <1>4, <1>5, SortedIs DEF R
  <1>7. PICK C \in SUBSET R : issue_cluster_cards(g, e) = {ClusterCard(g, e, r) : r \in C}
    BY <1>6, ClaimedAreRouters DEF R
  <1> DEFINE card == [r \in C |-> ClusterCard(g, e, r)]
  <1>8. ASSUME NEW r \in C
        PROVE  LET c == ClusterCard(g, e, r) IN
               /\ c.type = "issue_cluster" /\ c.id = r /\ r \in Int /\ c.score \in Int
               /\ c.at \in Int \cup {Missing} /\ c.edges \subseteq DrawnEdges(e)
    <2> DEFINE edges == {<<"live-neighbor", Ends(l)>> :
                           l \in {k \in RealLinks(e.links) : Ends(k) \subseteq Cluster(g, e, r) \cup {r}}}
               score == 5 * Cardinality(Cluster(g, e, r)) + 2 + recency_boost(NewestAt(g), g.now)
    <2>1. ClusterCard(g, e, r) =
             Card("issue_cluster", r, score, SortedPrefix(Cluster(g, e, r) \cup {r}), edges, NewestAt(g))
      BY DEF ClusterCard
    <2>2. edges \subseteq DrawnEdges(e)
      BY DEF DrawnEdges, NeighbourPairs
    <2>3. score \in Int
      <3>1. Cardinality(Cluster(g, e, r)) \in Nat
        BY IssuesAreFinite DEF Cluster
      <3>2. recency_boost(NewestAt(g), g.now) \in Int
        BY BoostIs
      <3> QED
        BY <3>1, <3>2
    <2> HIDE DEF edges, score
    <2> QED
      BY <1>1, <2>1, <2>2, <2>3, CardIs, NewestAtIs
  <1>9. AreCardsOf("issue_cluster", {card[r] : r \in C}, e)
    <2>1. DOMAIN card = C /\ \A r \in C : card[r] = ClusterCard(g, e, r)
      OBVIOUS
    <2>2. IsFiniteSet(C)
      BY <1>1, FS_Subset
    <2> HIDE DEF card
    <2> QED
      BY <1>8, <2>1, <2>2, FamilyIs
  <1> QED
    BY <1>7, <1>9

\* Recently missing links (_recent_missing_cluster_cards).
LEMMA MissingCards ==
    ASSUME NEW g, AreGraphReads(g), NEW e, IsEvidence(e)
    PROVE  AreCardsOf("recent_missing_cluster", recent_missing_cluster_cards(g, e), e)
  <1> DEFINE nb(d) == {x \in e.neighbours : d \in x.key}
             rt(d) == {x \in e.routes : d \in RouteEnds(x)}
             n(d) == Cardinality(nb(d)) + Cardinality(rt(d))
             at(d) == MaxOf({x.last : x \in nb(d)} \cup {x.last : x \in rt(d)})
             all == UNION ({x.key : x \in e.neighbours} \cup {RouteEnds(x) : x \in e.routes})
             score(d) == 2 * n(d) + (IF d \in issue_device_ids(g.rows) THEN 5 ELSE 0)
                         + recency_boost(at(d), g.now)
             edges(d) == {HistEdge(x) : x \in nb(d)} \cup {HistRoute(x) : x \in rt(d)}
             C(d) == Card("recent_missing_cluster", d, score(d),
                          SortedPrefix(UNION ({x.key : x \in nb(d)} \cup {RouteEnds(x) : x \in rt(d)})),
                          edges(d), at(d))
             D == {x \in all : n(x) >= MissingEdges}
             card == [d \in D |-> C(d)]
  <1>1. recent_missing_cluster_cards(g, e) = {C(d) : d \in D}
    BY DEF recent_missing_cluster_cards
  <1>2. /\ IsFiniteSet(e.neighbours) /\ IsFiniteSet(e.routes)
        /\ \A x \in e.neighbours : x.last \in Int /\ x.key \in SUBSET Int /\ IsFiniteSet(x.key)
        /\ \A x \in e.routes : x.last \in Int /\ x.key[1] \in Int /\ x.key[2] \in Int
    BY DEF IsEvidence
  <1>3. IsFiniteSet(all) /\ all \in SUBSET Int
    <2> DEFINE f == [x \in e.neighbours |-> x.key]
               r == [x \in e.routes |-> RouteEnds(x)]
               A == UNION {f[x] : x \in e.neighbours}
               B == UNION {r[x] : x \in e.routes}
    <2>1. all = A \cup B
      OBVIOUS
    <2>2. ASSUME NEW x \in e.routes PROVE IsFiniteSet(RouteEnds(x)) /\ RouteEnds(x) \in SUBSET Int
      <3>1. IsFiniteSet({x.key[1]}) /\ IsFiniteSet({x.key[1]} \cup {x.key[2]})
        BY FS_Singleton, FS_AddElement
      <3>2. RouteEnds(x) = {x.key[1]} \cup {x.key[2]}
        BY DEF RouteEnds
      <3> QED
        BY <1>2, <3>1, <3>2
    <2>3. all \in SUBSET Int
      BY <1>2, <2>2
    <2>4. \A x \in e.neighbours : IsFiniteSet(f[x])
      BY <1>2
    <2>5. \A x \in e.routes : IsFiniteSet(r[x])
      BY <2>2
    <2> HIDE DEF f, r
    <2>6. IsFiniteSet(A)
      BY <1>2, <2>4, FiniteFamily
    <2>7. IsFiniteSet(B)
      BY <1>2, <2>5, FiniteFamily
    <2> HIDE DEF A, B, all
    <2> QED
      BY <2>1, <2>3, <2>6, <2>7, FS_Union
  <1>4. IsFiniteSet(D) /\ D \subseteq all
    <2> HIDE DEF all, n
    <2> QED
      BY <1>3, FS_Subset
  <1>5. ASSUME NEW d \in D PROVE at(d) \in Int /\ n(d) \in Nat
    <2> DEFINE N == nb(d)
               R == rt(d)
               f == [x \in N |-> x.last]
               h == [x \in R |-> x.last]
               F == {f[x] : x \in N}
               H == {h[x] : x \in R}
    <2>1. F \cup H # {}
      <3>1. d \in all
        BY <1>4
      <3>2. N # {} \/ R # {}
        BY <3>1
      <3> HIDE DEF N, R
      <3>3. \A x \in N : f[x] \in F
        OBVIOUS
      <3>4. \A x \in R : h[x] \in H
        OBVIOUS
      <3> HIDE DEF F, H
      <3> QED
        BY <3>2, <3>3, <3>4
    <2>2. IsFiniteSet(N) /\ IsFiniteSet(R)
      BY <1>2, FS_Subset
    <2>3. F \in SUBSET Int /\ H \in SUBSET Int
      BY <1>2
    <2>4. DOMAIN f = N /\ DOMAIN h = R /\ at(d) = MaxOf(F \cup H) /\ n(d) = Cardinality(N) + Cardinality(R)
      OBVIOUS
    <2> HIDE DEF N, R, f, h, at, n
    <2>5. IsFiniteSet(F) /\ IsFiniteSet(H)
      BY <2>2, <2>4, FiniteImage
    <2> HIDE DEF F, H
    <2>6. IsFiniteSet(F \cup H)
      BY <2>5, FS_Union
    <2>7. MaxOf(F \cup H) \in F \cup H
      BY <2>1, <2>3, <2>6, EndsOfSet
    <2>8. n(d) \in Nat
      BY <2>2, <2>4, FS_CardinalityType
    <2> QED
      BY <2>3, <2>4, <2>7, <2>8
  <1>6. ASSUME NEW d \in D PROVE edges(d) \subseteq DrawnEdges(e)
    BY DEF DrawnEdges
  <1> HIDE DEF at, n, edges, all
  <1>7. ASSUME NEW d \in D
        PROVE  /\ C(d).type = "recent_missing_cluster" /\ C(d).id = d /\ d \in Int /\ C(d).score \in Int
               /\ C(d).at \in Int \cup {Missing} /\ C(d).edges \subseteq DrawnEdges(e)
    <2>1. score(d) \in Int
      <3>1. recency_boost(at(d), g.now) \in Int
        BY BoostIs
      <3> QED
        BY <1>5, <3>1
    <2>2. d \in Int
      BY <1>3, <1>4
    <2> HIDE DEF score, D
    <2> QED
      BY <1>5, <1>6, <2>1, <2>2, CardIs
  <1>8. AreCardsOf("recent_missing_cluster", {card[d] : d \in D}, e)
    <2>1. DOMAIN card = D /\ \A d \in D : card[d] = C(d)
      OBVIOUS
    <2> HIDE DEF card, D, C
    <2> QED
      BY <1>4, <1>7, <2>1, FamilyIs
  <1>9. {card[d] : d \in D} = {C(d) : d \in D}
    <2> HIDE DEF C, D
    <2> QED
      OBVIOUS
  <1> QED
    BY <1>1, <1>8, <1>9

\* As many as there are pairs of a key and a number up to its count.
LEMMA SumIsNumber ==
    ASSUME NEW K, IsFiniteSet(K), NEW f, DOMAIN f = K, \A k \in K : f[k] \in Nat
    PROVE  SumOfCounts(f) \in Nat
  <1> DEFINE of == [k \in K |-> {k} \X (1 .. f[k])]
  <1>1. \A k \in K : IsFiniteSet(of[k])
    <2>1. ASSUME NEW k \in K PROVE IsFiniteSet({k} \X (1 .. f[k]))
      <3>1. IsFiniteSet({k}) /\ IsFiniteSet(1 .. f[k])
        <4>1. f[k] \in Int /\ 1 \in Int
          OBVIOUS
        <4> QED
          BY <4>1, FS_Singleton, FS_Interval
      <3> QED
        BY <3>1, FS_Product
    <2> QED
      BY <2>1
  <1>2. SumOfCounts(f) = Cardinality(UNION {of[k] : k \in K})
    BY DEF SumOfCounts
  <1> HIDE DEF of
  <1> QED
    BY <1>1, <1>2, FiniteFamily, FS_CardinalityType

\* What is joined to a group by a hint is in the group.
Closed(hints, edges) ==
    \A h \in hints : h.pair \cap UNION {x[2] : x \in edges} # {} => h.pair \in {x[2] : x \in edges}

\* A group is a connected component of the drawn hints.
Component(hints, edges) == Closed(hints, edges) /\ Connected({x[2] : x \in edges})

\* Groups of devices that went offline together (_passive_group_cards).
LEMMA GroupCards ==
    ASSUME NEW g, AreGraphReads(g), NEW e, IsEvidence(e)
    PROVE  /\ AreCardsOf("passive_instability_group", passive_group_cards(g, e), e)
           /\ \A c \in passive_group_cards(g, e) : Component(e.hints, c.edges)
  <1> DEFINE root == HintGroups(e.hints)
             devs == UNION {h.pair : h \in e.hints}
             of(r) == {h \in e.hints : \E d \in h.pair : root[d] = r}
             members(r) == UNION {h.pair : h \in of(r)}
             at(r) == MaxOf({h.at : h \in of(r)})
             counts(r) == [h \in of(r) |-> h.confidence + 1]
             score(r) == SumOfCounts(counts(r))
                         + 5 * Cardinality(members(r) \cap issue_device_ids(g.rows))
                         + (IF \E h \in of(r) : h.corroborated THEN 2 ELSE 0) + recency_boost(at(r), g.now)
             edges(r) == {<<"passive-hint", h.pair>> : h \in of(r)}
             C(r) == Card("passive_instability_group", r, score(r), SortedPrefix(members(r)), edges(r), at(r))
             G == {x \in RangeOf(root) : \/ Cardinality(of(x)) >= 2
                                         \/ \E h \in of(x) : h.confidence > 0}
             card == [r \in G |-> C(r)]
  <1>1. passive_group_cards(g, e) = {C(r) : r \in G}
    BY DEF passive_group_cards
  <1>2. AreHints(e.hints)
    BY DEF IsEvidence
  <1>3. /\ IsFiniteSet(devs) /\ devs \in SUBSET Int /\ root \in [devs -> Int]
        /\ \A h \in e.hints : \A a, b \in h.pair : root[a] = root[b]
        /\ \A D : Separates(D, e.hints) => OnOneSide(D, root, devs)
        /\ \A h \in e.hints : h.pair # {} /\ h.pair \subseteq devs
    <2>1. \A h \in e.hints : h.pair # {} /\ h.pair \subseteq devs
      BY <1>2 DEF AreHints, IsHint
    <2> HIDE DEF root, devs
    <2> QED
      BY <1>2, <2>1, GroupsAre DEF root, devs
  <1> HIDE DEF root, devs
  <1>4. IsFiniteSet(G) /\ G \in SUBSET Int
    <2>1. IsFiniteSet({root[d] : d \in devs})
      BY <1>3, FiniteImage
    <2>2. RangeOf(root) = {root[d] : d \in devs} /\ RangeOf(root) \in SUBSET Int
      BY <1>3 DEF RangeOf
    <2>3. G \subseteq RangeOf(root)
      OBVIOUS
    <2> HIDE DEF G
    <2> QED
      BY <2>1, <2>2, <2>3, FS_Subset
  <1>5. ASSUME NEW r \in G
        PROVE  IsFiniteSet(of(r)) /\ of(r) # {} /\ of(r) \subseteq e.hints
    <2> DEFINE O == of(r)
    <2>1. O \subseteq e.hints /\ (Cardinality(O) >= 2 \/ \E h \in O : h.confidence > 0)
      OBVIOUS
    <2> HIDE DEF O
    <2>2. IsFiniteSet(O)
      BY <1>2, <2>1, FS_Subset DEF AreHints
    <2>3. O # {}
      BY <2>1, FS_EmptySet
    <2> QED
      BY <2>1, <2>2, <2>3 DEF O
  <1>6. ASSUME NEW r \in G PROVE at(r) \in Int /\ SumOfCounts(counts(r)) \in Nat
    <2> DEFINE O == of(r)
               f == [h \in O |-> h.at]
               k == counts(r)
    <2>1. \A h \in O : h.at \in Int /\ h.confidence \in 0 .. 2
      BY <1>2, <1>5 DEF AreHints, IsHint
    <2>2. DOMAIN f = O /\ DOMAIN k = O /\ IsFiniteSet(O) /\ O # {} /\ at(r) = MaxOf({f[h] : h \in O})
      BY <1>5
    <2>3. (\A h \in O : f[h] \in Int) /\ \A h \in O : k[h] \in Nat
      BY <2>1
    <2> HIDE DEF O, f, k, at
    <2>4. at(r) \in Int
      BY <2>2, <2>3, LargestIs
    <2>5. SumOfCounts(k) \in Nat
      BY <2>2, <2>3, SumIsNumber
    <2> QED
      BY <2>4, <2>5 DEF k
  <1>7. ASSUME NEW r \in G PROVE score(r) \in Int
    <2>1. Cardinality(members(r) \cap issue_device_ids(g.rows)) \in Nat
      BY IssuesAreFinite
    <2>2. recency_boost(at(r), g.now) \in Int
      BY BoostIs
    <2>3. (IF \E h \in of(r) : h.corroborated THEN 2 ELSE 0) \in Int
      OBVIOUS
    <2> HIDE DEF counts, members, at, of
    <2> QED
      BY <1>6, <2>1, <2>2, <2>3
  <1>8. ASSUME NEW r \in G PROVE edges(r) \subseteq DrawnEdges(e)
    BY DEF DrawnEdges
  <1>9. ASSUME NEW r \in G PROVE Component(e.hints, edges(r))
    <2>1. {x[2] : x \in edges(r)} = {h.pair : h \in of(r)}
      <3>1. \A h \in of(r) : <<"passive-hint", h.pair>>[2] = h.pair
        OBVIOUS
      <3> HIDE DEF of
      <3> QED
        BY <3>1
    <2>2. ASSUME NEW h \in e.hints, NEW d \in h.pair, NEW k \in of(r), d \in k.pair
          PROVE  h \in of(r)
      <3>1. PICK c \in k.pair : root[c] = r
        OBVIOUS
      <3>2. root[d] = r
        BY <1>3, <2>2, <3>1
      <3> QED
        BY <3>2
    <2>3. ASSUME NEW part \in SUBSET {h.pair : h \in of(r)}, part # {}, part # {h.pair : h \in of(r)},
                 \A p \in part, q \in {h.pair : h \in of(r)} \ part : p \cap q = {}
          PROVE  FALSE
      <3> DEFINE D == UNION part
      <3>1. \A k \in of(r) : k \in e.hints /\ \A d \in k.pair : root[d] = r
        BY <1>3
      <3>2. \A d \in D : root[d] = r
        BY <3>1
      <3>3. ASSUME NEW h \in e.hints PROVE h.pair \subseteq D \/ h.pair \cap D = {}
        <4>1. CASE h \in of(r)
          <5>1. CASE h.pair \in part
            BY <5>1
          <5>2. CASE h.pair \notin part
            <6>1. \A p \in part : p \cap h.pair = {}
              BY <2>3, <4>1, <5>2
            <6> QED
              BY <6>1
          <5> QED
            BY <5>1, <5>2
        <4>2. CASE h \notin of(r)
          <5>1. \A d \in h.pair : root[d] # r
            BY <4>2
          <5> HIDE DEF D
          <5> QED
            BY <3>2, <5>1
        <4> QED
          BY <4>1, <4>2
      <3>4. OnOneSide(D, root, devs)
        <4> HIDE DEF D
        <4> QED
          BY <1>3, <3>3 DEF Separates
      <3>5. PICK k \in of(r), h \in of(r) : k.pair \in part /\ h.pair \notin part
        BY <2>3
      <3>6. PICK a \in k.pair, b \in h.pair : a \in devs /\ b \in devs /\ root[a] = root[b]
        <4> HIDE DEF of
        <4>1. k \in e.hints /\ h \in e.hints
          BY <3>1
        <4>2. PICK a \in k.pair, b \in h.pair : TRUE
          BY <1>3, <4>1
        <4> QED
          BY <1>3, <3>1, <4>1, <4>2
      <3>7. a \in D
        BY <3>5, <3>6
      <3>8. b \in D
        <4> HIDE DEF D
        <4> QED
          BY <3>4, <3>6, <3>7 DEF OnOneSide
      <3>9. PICK p \in part : b \in p
        BY <3>8
      <3> HIDE DEF of
      <3> QED
        BY <2>3, <3>5, <3>6, <3>9
    <2>4. Connected({h.pair : h \in of(r)})
      <3> HIDE DEF of
      <3> QED
        BY <2>3 DEF Connected
    <2> HIDE DEF of, edges
    <2>5. Closed(e.hints, edges(r))
      BY <2>1, <2>2 DEF Closed
    <2> QED
      BY <2>1, <2>4, <2>5 DEF Component
  <1> HIDE DEF edges, score, at, of, members, G
  <1>10. ASSUME NEW r \in G
         PROVE  /\ C(r).type = "passive_instability_group" /\ C(r).id = r /\ r \in Int /\ C(r).score \in Int
                /\ C(r).at \in Int \cup {Missing} /\ C(r).edges \subseteq DrawnEdges(e)
                /\ Component(e.hints, C(r).edges)
    <2>1. /\ C(r).type = "passive_instability_group" /\ C(r).id = r /\ C(r).score = score(r)
          /\ C(r).edges = edges(r) /\ C(r).at = at(r)
      BY CardIs
    <2>2. at(r) \in Int
      BY <1>6
    <2> HIDE DEF C
    <2> QED
      BY <1>4, <1>7, <1>8, <1>9, <2>1, <2>2
  <1>11. AreCardsOf("passive_instability_group", {card[r] : r \in G}, e)
    <2>1. DOMAIN card = G /\ \A r \in G : card[r] = C(r)
      OBVIOUS
    <2> HIDE DEF card, C
    <2>2. \A r \in G : /\ card[r].type = "passive_instability_group" /\ card[r].id = r /\ r \in Int
                       /\ card[r].score \in Int /\ card[r].at \in Int \cup {Missing}
                       /\ card[r].edges \subseteq DrawnEdges(e)
      BY <1>10, <2>1
    <2>3. \A r, q \in G : card[r].id = card[q].id => card[r] = card[q]
      BY <2>2
    <2>4. IsFiniteSet(G)
      BY <1>4
    <2> QED
      BY <2>1, <2>2, <2>3, <2>4, FamilyIs
  <1>12. {card[r] : r \in G} = {C(r) : r \in G}
    <2> HIDE DEF C
    <2> QED
      OBVIOUS
  <1> HIDE DEF C
  <1> QED
    BY <1>1, <1>10, <1>11, <1>12

\* Windows with many devices (_shared_availability_event_cards).
LEMMA SharedEventCards ==
    ASSUME NEW g, AreGraphReads(g), NEW e
    PROVE  AreCardsOf("shared_availability_event", shared_availability_event_cards(g), e)
  <1> DEFINE S == shared_availability_events(g)
             C(w) == Card("shared_availability_event", w.start, 5 + recency_boost(w.end, g.now),
                          SortedPrefix(w.devices), {}, w.end)
             card == [w \in S |-> C(w)]
  <1>1. shared_availability_event_cards(g) = {C(w) : w \in S}
    BY DEF shared_availability_event_cards
  <1>2. /\ IsFiniteSet(WindowsOf(g))
        /\ \A w \in WindowsOf(g) : w.start \in Int /\ w.end \in Int
        /\ \A v, w \in WindowsOf(g) : v.start = w.start => v = w
    <2>1. IsTimeline(instability_events(g.events, DOMAIN g.rows))
      BY EventsAre DEF AreGraphReads
    <2> QED
      BY <2>1, WindowsAre DEF WindowsOf
  <1>3. S \subseteq WindowsOf(g)
    BY DEF shared_availability_events, WindowsOf
  <1> HIDE DEF S
  <1>4. IsFiniteSet(S)
    BY <1>2, <1>3, FS_Subset
  <1>5. ASSUME NEW w \in S
        PROVE  /\ C(w).type = "shared_availability_event" /\ C(w).id = w.start /\ w.start \in Int
               /\ C(w).score \in Int /\ C(w).at \in Int \cup {Missing} /\ C(w).edges \subseteq DrawnEdges(e)
    <2>1. 5 + recency_boost(w.end, g.now) \in Int
      BY BoostIs
    <2>2. /\ C(w).type = "shared_availability_event" /\ C(w).id = w.start
          /\ C(w).score = 5 + recency_boost(w.end, g.now) /\ C(w).edges = {} /\ C(w).at = w.end
      BY CardIs
    <2> HIDE DEF C
    <2> QED
      BY <1>2, <1>3, <2>1, <2>2
  <1>6. AreCardsOf("shared_availability_event", {card[w] : w \in S}, e)
    <2>1. DOMAIN card = S /\ \A w \in S : card[w] = C(w)
      OBVIOUS
    <2>2. \A v, w \in S : card[v].id = card[w].id => card[v] = card[w]
      <3> HIDE DEF C, card
      <3> QED
        BY <1>2, <1>3, <1>5, <2>1
    <2> HIDE DEF card, C
    <2> QED
      BY <1>4, <1>5, <2>1, <2>2, FamilyIs
  <1>7. {card[w] : w \in S} = {C(w) : w \in S}
    <2> HIDE DEF C
    <2> QED
      OBVIOUS
  <1> QED
    BY <1>1, <1>6, <1>7

\* Devices of one model, several of them offline (_model_pattern_cards).
LEMMA ModelCards ==
    ASSUME NEW g, AreGraphReads(g), NEW e
    PROVE  AreCardsOf("model_pattern_review", model_pattern_cards(g), e)
  <1> DEFINE E == DOMAIN g.events
             offline == {g.events[i].dev : i \in E} \cap DOMAIN g.rows
             hit == {d \in DOMAIN g.models : qualifying_pattern_for_device(g.models, offline, d)}
             of(d) == ModelGroup(g.models, d) \cap offline
             at(d) == MaxOf({g.events[i].at : i \in {j \in E : g.events[j].dev \in of(d)}})
             score(d) == 4 + recency_boost(at(d), g.now)
             C(d) == Card("model_pattern_review", MinOf(of(d)), score(d), SortedPrefix(of(d)), {}, at(d))
             card == [d \in hit |-> C(d)]
  <1>1. model_pattern_cards(g) = {C(d) : d \in hit}
    BY DEF model_pattern_cards
  <1>2. /\ IsFiniteSet(DOMAIN g.models) /\ DOMAIN g.models \in SUBSET Int
        /\ IsFiniteSet(DOMAIN g.rows) /\ IsFiniteSet(E) /\ \A i \in E : g.events[i].at \in Int
    <2>1. IsList(g.events) /\ RangeOf(g.events) \subseteq [at : Int, dev : Int]
      BY DEF AreGraphReads
    <2>2. IsFiniteSet(E)
      BY <2>1, FiniteList
    <2>3. \A i \in E : g.events[i] \in RangeOf(g.events)
      BY DEF RangeOf
    <2>4. \A i \in E : g.events[i].at \in Int
      BY <2>1, <2>3
    <2> HIDE DEF E
    <2> QED
      BY <2>2, <2>4 DEF AreGraphReads
  <1> HIDE DEF E
  <1>3. IsFiniteSet(hit) /\ hit \subseteq DOMAIN g.models
    BY <1>2, FS_Subset
  <1>4. ASSUME NEW d \in hit
        PROVE  /\ IsFiniteSet(of(d)) /\ of(d) # {} /\ of(d) \subseteq DOMAIN g.models
               /\ of(d) \subseteq ModelGroup(g.models, d)
               /\ \A x \in of(d) : \E i \in E : g.events[i].dev = x
    <2>1. of(d) \subseteq DOMAIN g.models /\ of(d) \subseteq ModelGroup(g.models, d)
      BY DEF ModelGroup
    <2>2. Cardinality(of(d)) >= GroupAffected
      BY DEF qualifying_pattern_for_device
    <2>3. \A x \in of(d) : \E i \in E : g.events[i].dev = x
      OBVIOUS
    <2> HIDE DEF of
    <2>4. IsFiniteSet(of(d))
      BY <1>2, <2>1, FS_Subset
    <2>5. of(d) # {}
      <3>1. SUFFICES ASSUME of(d) = {} PROVE FALSE
        OBVIOUS
      <3>2. Cardinality(of(d)) = 0
        BY <3>1, FS_EmptySet
      <3> QED
        BY <2>2, <3>2, GroupAssumption
    <2> QED
      BY <2>1, <2>3, <2>4, <2>5
  <1>5. ASSUME NEW d \in hit PROVE at(d) \in Int
    <2> DEFINE I == {j \in E : g.events[j].dev \in of(d)}
               f == [i \in I |-> g.events[i].at]
    <2>1. IsFiniteSet(I) /\ I # {}
      <3>1. PICK x \in of(d) : TRUE
        BY <1>4
      <3>2. PICK i \in E : g.events[i].dev = x
        BY <1>4
      <3>3. i \in I
        BY <3>1, <3>2
      <3> HIDE DEF of
      <3>4. IsFiniteSet(I)
        BY <1>2, FS_Subset
      <3> QED
        BY <3>3, <3>4
    <2>2. DOMAIN f = I /\ at(d) = MaxOf({f[i] : i \in I})
      OBVIOUS
    <2>3. \A i \in I : f[i] \in Int
      BY <1>2
    <2> HIDE DEF I, f, at
    <2> QED
      BY <2>1, <2>2, <2>3, LargestIs
  <1>6. ASSUME NEW d \in hit PROVE MinOf(of(d)) \in of(d) /\ MinOf(of(d)) \in Int
    <2> DEFINE O == of(d)
    <2>1. IsFiniteSet(O) /\ O # {} /\ O \in SUBSET Int
      BY <1>2, <1>4
    <2> HIDE DEF O
    <2>2. MinOf(O) \in O
      BY <2>1, EndsOfSet
    <2> QED
      BY <2>1, <2>2 DEF O
  <1>7. ASSUME NEW d \in hit, NEW c \in hit, MinOf(of(d)) = MinOf(of(c)) PROVE of(d) = of(c)
    <2>1. MinOf(of(d)) \in ModelGroup(g.models, d) /\ MinOf(of(c)) \in ModelGroup(g.models, c)
      BY <1>4, <1>6
    <2>2. g.models[d] = g.models[c]
      <3> HIDE DEF of
      <3> QED
        BY <1>7, <2>1 DEF ModelGroup
    <2> QED
      BY <2>2 DEF ModelGroup
  <1>8. ASSUME NEW d \in hit, NEW c \in hit, of(d) = of(c) PROVE C(d) = C(c)
    <2>1. at(d) = at(c)
      BY <1>8
    <2> HIDE DEF of, at
    <2> QED
      BY <1>8, <2>1
  <1> HIDE DEF of, at, hit
  <1>9. ASSUME NEW d \in hit
        PROVE  /\ C(d).type = "model_pattern_review" /\ C(d).id = MinOf(of(d)) /\ C(d).id \in Int
               /\ C(d).score \in Int /\ C(d).at \in Int \cup {Missing} /\ C(d).edges \subseteq DrawnEdges(e)
    <2>1. score(d) \in Int
      BY BoostIs
    <2>2. /\ C(d).type = "model_pattern_review" /\ C(d).id = MinOf(of(d)) /\ C(d).score = score(d)
          /\ C(d).edges = {} /\ C(d).at = at(d)
      BY CardIs
    <2> HIDE DEF C, score
    <2> QED
      BY <1>5, <1>6, <2>1, <2>2
  <1>10. AreCardsOf("model_pattern_review", {card[d] : d \in hit}, e)
    <2>1. DOMAIN card = hit /\ \A d \in hit : card[d] = C(d)
      OBVIOUS
    <2> HIDE DEF C, card
    <2>2. \A d, c \in hit : card[d].id = card[c].id => card[d] = card[c]
      BY <1>7, <1>8, <1>9, <2>1
    <2> QED
      BY <1>3, <1>9, <2>1, <2>2, FamilyIs
  <1>11. {card[d] : d \in hit} = {C(d) : d \in hit}
    <2> HIDE DEF C
    <2> QED
      OBVIOUS
  <1> QED
    BY <1>1, <1>10, <1>11

\* What some of finitely many say is finite.
LEMMA SomeSayFinitely ==
    ASSUME NEW S, IsFiniteSet(S), NEW f, DOMAIN f = S, NEW P \in SUBSET S
    PROVE  IsFiniteSet({f[x] : x \in P})
  <1> DEFINE h == [x \in P |-> f[x]]
  <1>1. IsFiniteSet(P) /\ DOMAIN h = P
    BY FS_Subset
  <1>2. IsFiniteSet({h[x] : x \in P})
    <2> HIDE DEF h
    <2> QED
      BY <1>1, FiniteImage
  <1> QED
    BY <1>2

\* The area of one router.
LEMMA AreaIs ==
    ASSUME NEW g, AreGraphReads(g), NEW e, IsEvidence(e), NEW r
    PROVE  LET a == build_observed_router_area(e, g.rows, r) IN
           /\ a.router = r /\ Cardinality(a.issues \ {r}) \in Nat /\ a.at \in Int \cup {Missing}
           /\ router_area_edge_ids(a, e) \subseteq DrawnEdges(e)
  <1> DEFINE infra == is_infra(g.rows, r, "None")
             latest == InfraLinks(e, g.rows, r)
             nb == {x \in e.neighbours : infra /\ r \in x.key}
             rt == {x \in e.routes : infra /\ r \in RouteEnds(x)}
             known == {x \in e.known : infra /\ r \in x.pair}
             hints == {x \in e.hints : infra /\ r \in x.pair}
             routed == {l \in latest : HasRoute(l)}
             others(S) == (UNION S) \ {r}
             times == {x.last : x \in nb} \cup {x.last : x \in rt} \cup
                      {x.at : x \in known} \cup {x.at : x \in hints}
             members == others({Ends(l) : l \in latest} \cup {x.key : x \in nb}
                               \cup {RouteEnds(x) : x \in rt} \cup {x.pair : x \in known}
                               \cup {x.pair : x \in hints})
             a == build_observed_router_area(e, g.rows, r)
  <1>1. /\ a.router = r /\ a.latest = others({Ends(l) : l \in latest})
        /\ a.known = others({x.pair : x \in known})
        /\ a.routed = {<<l.source, l.target>> : l \in routed}
        /\ a.issues = (members \cup {r}) \cap issue_device_ids(g.rows)
        /\ a.at = IF times = {} THEN Missing ELSE MaxOf(times)
    BY DEF build_observed_router_area
  <1> HIDE DEF a
  <1>2. Cardinality(a.issues \ {r}) \in Nat
    <2>1. a.issues \ {r} = (members \ {r}) \cap issue_device_ids(g.rows)
      <3> HIDE DEF members
      <3> QED
        BY <1>1
    <2> HIDE DEF members
    <2> QED
      BY <2>1, IssuesAreFinite
  <1>3. a.at \in Int \cup {Missing}
    <2>1. times \in SUBSET Int /\ IsFiniteSet(times)
      <3> DEFINE N == [x \in e.neighbours |-> x.last]
                 R == [x \in e.routes |-> x.last]
                 K == [x \in e.known |-> x.at]
                 H == [x \in e.hints |-> x.at]
                 A == {N[x] : x \in nb}
                 B == {R[x] : x \in rt}
                 C == {K[x] : x \in known}
                 D == {H[x] : x \in hints}
      <3>1. /\ IsFiniteSet(e.neighbours) /\ IsFiniteSet(e.routes) /\ IsFiniteSet(e.known)
            /\ IsFiniteSet(e.hints)
        BY DEF IsEvidence, AreHints
      <3>0. /\ \A x \in e.neighbours : x.last \in Int
            /\ \A x \in e.routes : x.last \in Int
            /\ \A x \in e.known : x.at \in Int
            /\ \A x \in e.hints : x.at \in Int
        <4> HIDE DEF nb, rt, known, hints, times
        <4> QED
          BY DEF IsEvidence, AreHints, IsHint
      <3>2. /\ A \in SUBSET Int /\ B \in SUBSET Int /\ C \in SUBSET Int /\ D \in SUBSET Int
        BY <3>0
      <3>3. DOMAIN N = e.neighbours /\ DOMAIN R = e.routes /\ DOMAIN K = e.known /\ DOMAIN H = e.hints
        OBVIOUS
      <3>4. times = A \cup B \cup C \cup D
        OBVIOUS
      <3>5. nb \subseteq e.neighbours /\ rt \subseteq e.routes /\ known \subseteq e.known /\ hints \subseteq e.hints
        OBVIOUS
      <3> HIDE DEF N, R, K, H, nb, rt, known, hints, times
      <3>6. IsFiniteSet(A) /\ IsFiniteSet(B) /\ IsFiniteSet(C) /\ IsFiniteSet(D)
        BY <3>1, <3>3, <3>5, SomeSayFinitely
      <3> HIDE DEF A, B, C, D
      <3>7. IsFiniteSet(A \cup B)
        BY <3>6, FS_Union
      <3>8. IsFiniteSet(A \cup B \cup C)
        BY <3>6, <3>7, FS_Union
      <3>9. IsFiniteSet(times)
        BY <3>4, <3>6, <3>8, FS_Union
      <3> QED
        BY <3>2, <3>4, <3>9
    <2> HIDE DEF times
    <2>2. CASE times = {}
      BY <1>1, <2>2
    <2>3. CASE times # {}
      <3>1. MaxOf(times) \in Int
        BY <2>1, <2>3, EndsOfSet
      <3> QED
        BY <1>1, <2>3, <3>1
    <2> QED
      BY <2>2, <2>3
  <1>4. ASSUME NEW l \in latest, NEW d \in Ends(l), d # r PROVE Ends(l) = {r, d} /\ l \in RealLinks(e.links)
    <2>1. l \in RealLinks(e.links) /\ (l.source = r \/ l.target = r)
      BY DEF InfraLinks
    <2> QED
      BY <1>4, <2>1 DEF Ends
  <1>5. {<<"live-neighbor", {r, d}>> : d \in a.latest} \subseteq {<<"live-neighbor", p>> : p \in NeighbourPairs(e.links)}
    <2>1. ASSUME NEW d \in a.latest PROVE {r, d} \in NeighbourPairs(e.links)
      <3> HIDE DEF latest, times, members, routed, known
      <3>0. d \in others({Ends(l) : l \in latest})
        <4> HIDE DEF others
        <4> QED
          BY <1>1
      <3>1. PICK l \in latest : d \in Ends(l) /\ d # r
        BY <3>0
      <3>2. Ends(l) = {r, d} /\ l \in RealLinks(e.links)
        BY <1>4, <3>1
      <3>3. Ends(l) \in NeighbourPairs(e.links)
        BY <3>2 DEF NeighbourPairs
      <3> QED
        BY <3>2, <3>3
    <2> QED
      BY <2>1
  <1>6. {<<"last-known", {r, d}>> : d \in a.known} \subseteq {<<"last-known", x.pair>> : x \in e.known}
    <2>1. ASSUME NEW d \in a.known PROVE \E x \in e.known : x.pair = {r, d}
      <3>1. PICK x \in known : d \in x.pair /\ d # r
        <4> HIDE DEF latest, times, members, routed, known
        <4>1. d \in others({y.pair : y \in known})
          <5> HIDE DEF others
          <5> QED
            BY <1>1
        <4> QED
          BY <4>1
      <3>2. x \in e.known /\ r \in x.pair
        OBVIOUS
      <3>3. PICK b, c \in Int : x.pair = {b, c}
        BY <3>2 DEF IsEvidence
      <3>4. x.pair = {r, d}
        BY <3>1, <3>2, <3>3
      <3> QED
        BY <3>2, <3>4
    <2> QED
      BY <2>1
  <1>7. {<<"live-route", x>> : x \in a.routed} \subseteq {<<"live-route", x>> : x \in RoutePairs(e.links)}
    <2>1. a.routed \subseteq RoutePairs(e.links)
      BY <1>1 DEF InfraLinks, RoutePairs
    <2> QED
      BY <2>1
  <1>8. router_area_edge_ids(a, e) \subseteq DrawnEdges(e)
    <2> DEFINE HN == {HistEdge(x) : x \in {y \in e.neighbours :
                                    a.router \in y.key /\ y.key \ {a.router} \subseteq a.missing}}
               HR == {HistRoute(x) : x \in {y \in e.routes : a.router \in RouteEnds(y)
                                                 /\ RouteEnds(y) \ {a.router} \subseteq a.missing}}
               PH == {<<"passive-hint", h.pair>> :
                        h \in {k \in e.hints : a.router \in k.pair /\ k.pair \ {a.router} \subseteq a.passive}}
               LN == {<<"live-neighbor", {a.router, d}>> : d \in a.latest}
               LK == {<<"last-known", {a.router, d}>> : d \in a.known}
               LR == {<<"live-route", x>> : x \in a.routed}
    <2>1. router_area_edge_ids(a, e) = LN \cup HN \cup HR \cup LK \cup LR \cup PH
      BY DEF router_area_edge_ids
    <2>2. HN \subseteq DrawnEdges(e) /\ HR \subseteq DrawnEdges(e) /\ PH \subseteq DrawnEdges(e)
      BY DEF DrawnEdges
    <2>3. LN \subseteq DrawnEdges(e)
      BY <1>1, <1>5 DEF DrawnEdges
    <2>4. LK \subseteq DrawnEdges(e)
      BY <1>1, <1>6 DEF DrawnEdges
    <2>5. LR \subseteq DrawnEdges(e)
      BY <1>7 DEF DrawnEdges
    <2> HIDE DEF LN, HN, HR, LK, LR, PH
    <2> QED
      BY <2>1, <2>2, <2>3, <2>4, <2>5
  <1> QED
    BY <1>1, <1>2, <1>3, <1>8 DEF a

\* Observed areas of routers (_router_review_cards).
LEMMA ReviewCards ==
    ASSUME NEW g, AreGraphReads(g), NEW e, IsEvidence(e)
    PROVE  AreCardsOf("router_neighbourhood_review", router_review_cards(g, e), e)
  <1> DEFINE at == NewestAt(g)
             key == [x \in e.neighbours |-> x.key]
             pair == [x \in e.known |-> x.pair]
             B == UNION {key[x] : x \in e.neighbours}
             K == UNION {pair[x] : x \in e.known}
             all == DOMAIN g.rows \cup LinkedIn(e.links)
                    \cup (UNION {x.key : x \in e.neighbours}) \cup UNION {x.pair : x \in e.known}
             area == [r \in all |-> build_observed_router_area(e, g.rows, r)]
             A == {x \in observed_router_areas(e, g.rows) : router_area_qualifies(x)}
             devs(a) == {a.router} \cup TopOf(a.members, DevicesPerCard - 1,
                                LAMBDA x, y : \/ x \in a.issues /\ y \notin a.issues
                                              \/ (x \in a.issues <=> y \in a.issues) /\ x < y)
             when(a) == IF a.at = Missing THEN at ELSE a.at
             C(a) == Card("router_neighbourhood_review", a.router, router_area_score(a, at, g.now),
                          devs(a), router_area_edge_ids(a, e), when(a))
             card == [a \in A |-> C(a)]
  <1>1. router_review_cards(g, e) = {C(a) : a \in A}
    BY DEF router_review_cards, NewestAt
  <1> HIDE DEF devs, at
  <1>2. A \subseteq {area[r] : r \in all}
    BY DEF observed_router_areas
  <1> HIDE DEF A
  <1>3. IsFiniteSet(all) /\ all \in SUBSET Int
    <2> DEFINE L == LinkedIn(e.links)
    <2>1. IsFiniteSet(L) /\ L \in SUBSET Int
      BY LinkedAre DEF IsEvidence
    <2>2. IsFiniteSet(DOMAIN g.rows) /\ DOMAIN g.rows \in SUBSET Int
      BY DEF AreGraphReads
    <2>3. ASSUME NEW x \in e.known PROVE IsFiniteSet(x.pair) /\ x.pair \in SUBSET Int
      <3>1. PICK b, c \in Int : x.pair = {b, c}
        BY DEF IsEvidence
      <3>2. IsFiniteSet({b}) /\ IsFiniteSet({b} \cup {c})
        BY FS_Singleton, FS_AddElement
      <3> QED
        BY <3>1, <3>2
    <2>4. /\ IsFiniteSet(e.neighbours) /\ IsFiniteSet(e.known)
          /\ \A x \in e.neighbours : IsFiniteSet(key[x]) /\ key[x] \in SUBSET Int
          /\ \A x \in e.known : IsFiniteSet(pair[x]) /\ pair[x] \in SUBSET Int
      BY <2>3 DEF IsEvidence
    <2>5. all = DOMAIN g.rows \cup L \cup B \cup K
      OBVIOUS
    <2> HIDE DEF key, pair, L
    <2>6. IsFiniteSet(B) /\ IsFiniteSet(K) /\ B \in SUBSET Int /\ K \in SUBSET Int
      BY <2>4, FiniteFamily
    <2> HIDE DEF B, K, all
    <2>7. IsFiniteSet(DOMAIN g.rows \cup L)
      BY <2>1, <2>2, FS_Union
    <2>8. IsFiniteSet(DOMAIN g.rows \cup L \cup B)
      BY <2>6, <2>7, FS_Union
    <2>9. IsFiniteSet(all)
      BY <2>5, <2>6, <2>8, FS_Union
    <2> QED
      BY <2>1, <2>2, <2>5, <2>6, <2>9
  <1> HIDE DEF all
  <1>4. IsFiniteSet(A)
    <2>1. DOMAIN area = all
      OBVIOUS
    <2> HIDE DEF area
    <2>2. IsFiniteSet({area[r] : r \in all})
      BY <1>3, <2>1, FiniteImage
    <2> QED
      BY <1>2, <2>2, FS_Subset
  <1>5. ASSUME NEW a \in A
        PROVE  /\ a.router \in Int /\ a = build_observed_router_area(e, g.rows, a.router)
               /\ Cardinality(a.issues \ {a.router}) \in Nat /\ a.at \in Int \cup {Missing}
               /\ router_area_edge_ids(a, e) \subseteq DrawnEdges(e)
    <2>1. PICK r \in all : a = build_observed_router_area(e, g.rows, r)
      BY <1>2
    <2>2. a.router = r
      BY <2>1, AreaIs
    <2>3. r \in Int
      BY <1>3
    <2> QED
      BY <2>1, <2>2, <2>3, AreaIs
  <1>6. ASSUME NEW a \in A
        PROVE  /\ C(a).type = "router_neighbourhood_review" /\ C(a).id = a.router /\ C(a).score \in Int
               /\ C(a).at \in Int \cup {Missing} /\ C(a).edges \subseteq DrawnEdges(e)
    <2>1. router_area_score(a, at, g.now) \in Int
      <3>1. recency_boost(IF a.at = Missing THEN at ELSE a.at, g.now) \in Int
        BY BoostIs
      <3>2. /\ (IF Cardinality(a.classes) > 1 THEN 2 ELSE 0) \in Int
            /\ (IF a.router \in a.issues THEN 5 ELSE 0) \in Int
        OBVIOUS
      <3> QED
        BY <1>5, <3>1, <3>2 DEF router_area_score
    <2>2. when(a) \in Int \cup {Missing}
      BY <1>5, NewestAtIs DEF at
    <2>3. /\ C(a).type = "router_neighbourhood_review" /\ C(a).id = a.router
          /\ C(a).score = router_area_score(a, at, g.now) /\ C(a).at = when(a)
          /\ C(a).edges = router_area_edge_ids(a, e)
      BY CardIs
    <2> HIDE DEF C, when
    <2> QED
      BY <1>5, <2>1, <2>2, <2>3
  <1>7. AreCardsOf("router_neighbourhood_review", {card[a] : a \in A}, e)
    <2>1. DOMAIN card = A /\ \A a \in A : card[a] = C(a)
      OBVIOUS
    <2> HIDE DEF card, C
    <2>2. \A a, b \in A : card[a].id = card[b].id => card[a] = card[b]
      <3>1. ASSUME NEW a \in A, NEW b \in A, a.router = b.router PROVE a = b
        BY <1>5, <3>1
      <3> QED
        BY <1>6, <2>1, <3>1
    <2>3. \A a \in A : /\ card[a].type = "router_neighbourhood_review" /\ card[a].id \in Int
                       /\ card[a].score \in Int /\ card[a].at \in Int \cup {Missing}
                       /\ card[a].edges \subseteq DrawnEdges(e)
      <3>1. ASSUME NEW a \in A PROVE a.router \in Int
        BY <1>5
      <3> QED
        BY <1>6, <2>1, <3>1
    <2> QED
      BY <1>4, <2>1, <2>2, <2>3, FamilyIs
  <1>8. {card[a] : a \in A} = {C(a) : a \in A}
    <2> HIDE DEF C
    <2> QED
      OBVIOUS
  <1> QED
    BY <1>1, <1>7, <1>8

\* The card for devices the latest map does not show (_diagnostics_limited_card).
LEMMA LimitedCards ==
    ASSUME NEW g, AreGraphReads(g), NEW e, IsEvidence(e)
    PROVE  AreCardsOf("diagnostics_limited_group", diagnostics_limited_card(g, e), e)
  <1> DEFINE absent == DOMAIN g.rows \ (LinkedIn(e.links) \cup UNION {s.nodes : s \in Latest(g.snaps)})
             n == Cardinality(absent)
             at == Usable(g.snaps)[1].at
             c == Card("diagnostics_limited_group", 0, n, SortedPrefix(absent), {}, at)
             limited == [c EXCEPT !.priority = "Lower priority"]
             cards == diagnostics_limited_card(g, e)
  <1>1. cards = {} \/ (cards = {limited} /\ LatestLayout(g.snaps))
    BY DEF diagnostics_limited_card
  <1>2. n \in Nat
    <2>1. IsFiniteSet(DOMAIN g.rows)
      BY DEF AreGraphReads
    <2>2. absent \subseteq DOMAIN g.rows
      OBVIOUS
    <2> HIDE DEF absent
    <2> QED
      BY <2>1, <2>2, FS_Subset, FS_CardinalityType
  <1> HIDE DEF n, absent, cards
  <1>3. LatestLayout(g.snaps) => at \in Int
    BY NewestAtIs DEF LatestLayout
  <1>4. /\ limited.type = "diagnostics_limited_group" /\ limited.id = 0 /\ limited.score = n
        /\ limited.edges = {} /\ limited.at = at
    BY DEF Card
  <1> HIDE DEF limited, at
  <1>5. IsFiniteSet({}) /\ IsFiniteSet({limited})
    BY FS_EmptySet, FS_Singleton
  <1> QED
    BY <1>1, <1>2, <1>3, <1>4, <1>5 DEF AreCardsOf, cards

(***************************************************************************)
(* The cards of a graph, ranked and cut                                    *)
(***************************************************************************)

\* Two families of cards of different types.
CardTypes == RangeOf(CARD_TYPE_ORDER)
AreCardsOfTypes(types, cards, e) ==
    /\ IsFiniteSet(cards) /\ types \subseteq CardTypes
    /\ \A c \in cards : /\ c.type \in types /\ c.id \in Int /\ c.score \in Int /\ c.at \in Int \cup {Missing}
                        /\ c.edges \subseteq DrawnEdges(e)
    /\ \A c, k \in cards : c.type = k.type /\ c.id = k.id => c = k

LEMMA OneMoreFamily ==
    ASSUME NEW e, NEW types, NEW cards, AreCardsOfTypes(types, cards, e),
           NEW type \in CardTypes \ types, NEW more, AreCardsOf(type, more, e)
    PROVE  AreCardsOfTypes(types \cup {type}, cards \cup more, e)
  <1>1. IsFiniteSet(cards \cup more)
    BY FS_Union DEF AreCardsOf, AreCardsOfTypes
  <1> QED
    BY <1>1 DEF AreCardsOf, AreCardsOfTypes

\* The order of types knows each type once.
LEMMA RankOfType ==
    /\ CardTypes = {"issue_cluster", "recent_missing_cluster", "shared_availability_event",
                    "model_pattern_review", "passive_instability_group", "router_neighbourhood_review",
                    "diagnostics_limited_group"}
    /\ \A c : c.type \in CardTypes => TypeRank(c) \in Int /\ CARD_TYPE_ORDER[TypeRank(c)] = c.type
  <1>1. DOMAIN CARD_TYPE_ORDER = {1, 2, 3, 4, 5, 6, 7}
    BY DEF CARD_TYPE_ORDER
  <1>2. CardTypes = {CARD_TYPE_ORDER[1], CARD_TYPE_ORDER[2], CARD_TYPE_ORDER[3], CARD_TYPE_ORDER[4],
                     CARD_TYPE_ORDER[5], CARD_TYPE_ORDER[6], CARD_TYPE_ORDER[7]}
    BY <1>1 DEF CardTypes, RangeOf
  <1>3. ASSUME NEW c, c.type \in CardTypes
        PROVE  TypeRank(c) \in Int /\ CARD_TYPE_ORDER[TypeRank(c)] = c.type
    <2>1. \E i \in DOMAIN CARD_TYPE_ORDER : CARD_TYPE_ORDER[i] = c.type
      BY <1>3 DEF CardTypes, RangeOf
    <2>2. TypeRank(c) \in DOMAIN CARD_TYPE_ORDER /\ CARD_TYPE_ORDER[TypeRank(c)] = c.type
      BY <2>1 DEF TypeRank
    <2> QED
      BY <1>1, <2>2
  <1> QED
    BY <1>2, <1>3 DEF CARD_TYPE_ORDER

\* All cards of a graph (build_investigations).
LEMMA CardsOfGraph ==
    ASSUME NEW g, AreGraphReads(g), NEW e, IsEvidence(e)
    PROVE  /\ AreCardsOfTypes(CardTypes, AllCards(g, e), e)
           /\ \A c \in AllCards(g, e) : c.type = "passive_instability_group" => Component(e.hints, c.edges)
  <1> DEFINE A1 == issue_cluster_cards(g, e)
             A2 == recent_missing_cluster_cards(g, e)
             A3 == shared_availability_event_cards(g)
             A4 == model_pattern_cards(g)
             A5 == passive_group_cards(g, e)
             A6 == router_review_cards(g, e)
             A7 == diagnostics_limited_card(g, e)
  <1>1. /\ AreCardsOf("issue_cluster", A1, e) /\ AreCardsOf("recent_missing_cluster", A2, e)
        /\ AreCardsOf("shared_availability_event", A3, e) /\ AreCardsOf("model_pattern_review", A4, e)
        /\ AreCardsOf("passive_instability_group", A5, e)
        /\ AreCardsOf("router_neighbourhood_review", A6, e)
        /\ AreCardsOf("diagnostics_limited_group", A7, e)
    BY ClusterCards, MissingCards, SharedEventCards, ModelCards, GroupCards, ReviewCards, LimitedCards
  <1>2. \A c \in A5 : Component(e.hints, c.edges)
    BY GroupCards
  <1>3. AllCards(g, e) = A1 \cup A2 \cup A3 \cup A4 \cup A5 \cup A6 \cup A7
    BY DEF AllCards
  <1> HIDE DEF A1, A2, A3, A4, A5, A6, A7
  <1> DEFINE T1 == {"issue_cluster"}
             T2 == T1 \cup {"recent_missing_cluster"}
             T3 == T2 \cup {"shared_availability_event"}
             T4 == T3 \cup {"model_pattern_review"}
             T5 == T4 \cup {"passive_instability_group"}
             T6 == T5 \cup {"router_neighbourhood_review"}
             T7 == T6 \cup {"diagnostics_limited_group"}
  <1>4. /\ T1 \subseteq CardTypes /\ T7 = CardTypes
        /\ "recent_missing_cluster" \in CardTypes \ T1 /\ "shared_availability_event" \in CardTypes \ T2
        /\ "model_pattern_review" \in CardTypes \ T3 /\ "passive_instability_group" \in CardTypes \ T4
        /\ "router_neighbourhood_review" \in CardTypes \ T5 /\ "diagnostics_limited_group" \in CardTypes \ T6
    BY RankOfType
  <1>5. AreCardsOfTypes(T1, A1, e)
    BY <1>1, <1>4 DEF AreCardsOf, AreCardsOfTypes
  <1> DEFINE B2 == A1 \cup A2
             B3 == B2 \cup A3
             B4 == B3 \cup A4
             B5 == B4 \cup A5
             B6 == B5 \cup A6
             B7 == B6 \cup A7
  <1>c. CardTypes \subseteq CardTypes
    OBVIOUS
  <1>6. AreCardsOfTypes(T2, B2, e)
    <2> HIDE DEF T1
    <2> QED
      BY <1>1, <1>4, <1>5, OneMoreFamily
  <1>7. AreCardsOfTypes(T3, B3, e)
    <2> HIDE DEF T2, B2
    <2> QED
      BY <1>1, <1>4, <1>6, OneMoreFamily
  <1>8. AreCardsOfTypes(T4, B4, e)
    <2> HIDE DEF T3, B3
    <2> QED
      BY <1>1, <1>4, <1>7, OneMoreFamily
  <1>9. AreCardsOfTypes(T5, B5, e)
    <2> HIDE DEF T4, B4
    <2> QED
      BY <1>1, <1>4, <1>8, OneMoreFamily
  <1>10. AreCardsOfTypes(T6, B6, e)
    <2> HIDE DEF T5, B5
    <2> QED
      BY <1>1, <1>4, <1>9, OneMoreFamily
  <1>11. AreCardsOfTypes(T7, B7, e)
    <2> HIDE DEF T6, B6
    <2> QED
      BY <1>1, <1>4, <1>10, OneMoreFamily
  <1>12. AreCardsOfTypes(CardTypes, AllCards(g, e), e)
    <2>1. B7 = AllCards(g, e)
      BY <1>3
    <2> HIDE DEF T7, B7
    <2> QED
      BY <1>4, <1>11, <2>1
  <1>13. ASSUME NEW c \in AllCards(g, e), c.type = "passive_instability_group" PROVE c \in A5
    BY <1>1, <1>3, <1>13 DEF AreCardsOf
  <1> QED
    BY <1>2, <1>12, <1>13

\* Cards are ranked by score, recency, type and id.
LEMMA RankedCards ==
    ASSUME NEW e, NEW cards, AreCardsOfTypes(CardTypes, cards, e)
    PROVE  LET order == SortedBy(cards, CardBefore) IN
           /\ order \in Seq(cards) /\ Cardinality(cards) \in Nat /\ Len(order) = Cardinality(cards)
           /\ \A k, m \in 1 .. Cardinality(cards) : k < m => order[m].score <= order[k].score
           /\ \A c \in cards : \E k \in 1 .. Cardinality(cards) : order[k] = c
  <1> DEFINE key == [c \in cards |-> CardKey(c)]
             order == SortedBy(cards, CardBefore)
  <1>1. order = InOrder(UpToKey(cards, key))
    <2>1. \A x, y \in cards : CardBefore(x, y) <=> LexLess(key[x], key[y])
      BY DEF CardBefore
    <2> HIDE DEF key
    <2>2. [x \in cards |-> {y \in cards : ~CardBefore(x, y)}] = UpToKey(cards, key)
      BY <2>1 DEF UpToKey
    <2> QED
      BY <2>2 DEF SortedBy
  <1>2. ASSUME NEW c \in cards
        PROVE  /\ c.type \in CardTypes /\ c.id \in Int /\ c.score \in Int /\ c.at \in Int \cup {Missing}
               /\ TypeRank(c) \in Int /\ CARD_TYPE_ORDER[TypeRank(c)] = c.type
    BY RankOfType DEF AreCardsOfTypes
  <1>3. ASSUME NEW c \in cards PROVE CardKey(c) \in SortKeys(4)
    <2>1. (IF c.at = Missing THEN 0 ELSE -c.at) \in Int
      BY <1>2
    <2>2. -c.score \in Int /\ TypeRank(c) \in Int /\ c.id \in Int
      BY <1>2
    <2> QED
      BY <2>1, <2>2 DEF CardKey, SortKeys
  <1>4. ASSUME NEW x \in cards, NEW y \in cards, key[x] = key[y] PROVE x = y
    <2>1. TypeRank(x) = TypeRank(y) /\ x.id = y.id
      BY <1>4 DEF CardKey
    <2>2. x.type = y.type
      BY <1>2, <2>1
    <2> QED
      BY <2>1, <2>2 DEF AreCardsOfTypes
  <1>5. key \in [cards -> SortKeys(4)]
    BY <1>3
  <1>6. /\ Cardinality(cards) \in Nat /\ order \in Seq(cards) /\ Len(order) = Cardinality(cards)
        /\ \A k, m \in 1 .. Cardinality(cards) : k < m => LexLess(key[order[k]], key[order[m]])
        /\ \A c \in cards : \E k \in 1 .. Cardinality(cards) : order[k] = c
    <2> HIDE DEF key, order
    <2>1. IsFiniteSet(cards)
      BY DEF AreCardsOfTypes
    <2> QED
      BY <1>1, <1>4, <1>5, <2>1, SortedIs
  <1>7. ASSUME NEW x \in cards, NEW y \in cards, LexLess(CardKey(x), CardKey(y)) PROVE y.score <= x.score
    <2>1. CardKey(x)[1] = -x.score /\ CardKey(y)[1] = -y.score
      BY DEF CardKey
    <2>2. PICK i \in DOMAIN CardKey(x) : CardKey(x)[i] < CardKey(y)[i]
                                         /\ \A j \in 1 .. i - 1 : CardKey(x)[j] = CardKey(y)[j]
      BY <1>7 DEF LexLess
    <2>3. DOMAIN CardKey(x) = 1 .. 4
      BY <1>3 DEF SortKeys
    <2>4. CASE i = 1
      BY <1>2, <2>1, <2>2, <2>4
    <2>5. CASE i # 1
      <3>1. 1 \in 1 .. i - 1
        BY <2>3, <2>5
      <3>2. CardKey(x)[1] = CardKey(y)[1]
        BY <2>2, <3>1
      <3> QED
        BY <1>2, <2>1, <3>2
    <2> QED
      BY <2>4, <2>5
  <1>8. ASSUME NEW k \in 1 .. Cardinality(cards), NEW m \in 1 .. Cardinality(cards), k < m
        PROVE  order[m].score <= order[k].score
    <2> HIDE DEF order
    <2>1. order[k] \in cards /\ order[m] \in cards
      BY <1>6
    <2>2. LexLess(key[order[k]], key[order[m]])
      BY <1>6, <1>8
    <2>3. LexLess(CardKey(order[k]), CardKey(order[m]))
      BY <2>1, <2>2
    <2> QED
      BY <1>7, <2>1, <2>3
  <1> QED
    BY <1>6, <1>8

\* Served cards stand on the graph they are served with (investigations.py,
\* passive_hints.py, evidence_graph.py).
THEOREM CardsStandAlways ==
    ASSUME NEW g, AreGraphReads(g)
    PROVE  CardsStandOnTheGraph(g)
  <1> DEFINE e == EvidenceOf(g)
             all == AllCards(g, e)
             order == SortedBy(all, CardBefore)
             top == NewestOf(order, CardLimit)
             graph == evidence_graph(g)
             kept == graph.investigations.cards
             n == Cardinality(all)
  <1>1. /\ IsEvidence(e)
        /\ \A h \in e.hints : \E w \in WindowsOf(g) :
              h.pair \subseteq w.devices /\ ~(Cardinality(w.devices) > StormSize)
    BY EvidenceFromReads
  <1>2. graph.evidence = e /\ graph.investigations = build_investigations(g, e)
    BY DEF evidence_graph, GraphOf
  <1> HIDE DEF e
  <1>3. /\ build_investigations(g, e).available = Cardinality(all)
        /\ \E full : build_investigations(g, e).cards = [i \in DOMAIN top |-> full[i]]
                     /\ \A i \in DOMAIN top : full[i].card = top[i]
    <2> DEFINE full == [i \in DOMAIN top |->
                          [card |-> top[i], facts |-> Tailored(g, e, top[i]), group |-> action_group(top[i])]]
    <2>1. build_investigations(g, e) = [available |-> Cardinality(all), cards |-> full]
      BY DEF build_investigations, AllCards
    <2>2. full = [i \in DOMAIN top |-> full[i]] /\ \A i \in DOMAIN top : full[i].card = top[i]
      OBVIOUS
    <2> HIDE DEF full, top, all
    <2> QED
      BY <2>1, <2>2
  <1>4. PICK full : kept = [i \in DOMAIN top |-> full[i]] /\ \A i \in DOMAIN top : full[i].card = top[i]
    BY <1>2, <1>3
  <1>5. graph.investigations.available = n
    BY <1>2, <1>3
  <1> HIDE DEF graph
  <1>6. /\ AreCardsOfTypes(CardTypes, all, e)
        /\ \A c \in all : c.type = "passive_instability_group" => Component(e.hints, c.edges)
    BY <1>1, CardsOfGraph
  <1> HIDE DEF all
  <1>7. /\ order \in Seq(all) /\ n \in Nat /\ Len(order) = n
        /\ \A k, m \in 1 .. n : k < m => order[m].score <= order[k].score
        /\ \A c \in all : \E k \in 1 .. n : order[k] = c
    BY <1>6, RankedCards
  <1> HIDE DEF order, n
  <1>8. /\ top \in Seq(all) /\ Len(top) = (IF n < CardLimit THEN n ELSE CardLimit)
        /\ \A i \in 1 .. Len(top) : top[i] = order[i]
    BY <1>7, CardAssumption, NewestOfFacts
  <1> HIDE DEF top
  <1>9. DOMAIN top = 1 .. Len(top) /\ Len(top) \in Nat /\ \A i \in 1 .. Len(top) : top[i] \in all
    BY <1>8
  <1>10. /\ DOMAIN kept = 1 .. Len(top) /\ Len(kept) = Len(top)
         /\ \A i \in 1 .. Len(top) : kept[i].card = top[i]
    <2> HIDE DEF kept
    <2>1. DOMAIN kept = 1 .. Len(top) /\ \A i \in 1 .. Len(top) : kept[i].card = top[i]
      BY <1>4, <1>9
    <2>2. kept = [i \in 1 .. Len(top) |-> full[i]]
      BY <1>4, <1>9
    <2>3. Len(kept) = Len(top)
      BY <1>9, <2>2
    <2> QED
      BY <2>1, <2>3
  <1> HIDE DEF kept
  <1> DEFINE card(i) == kept[i].card
             windows == WindowsOf(g)
             storm == {w \in windows : Cardinality(w.devices) > StormSize}
             together(p) == {w \in windows : p \subseteq w.devices}
             groups == {i \in DOMAIN kept : card(i).type = "passive_instability_group"}
             hinted(i) == {x[2] : x \in card(i).edges}
  <1>11. \A i \in DOMAIN kept : card(i) \in all
    BY <1>9, <1>10
  <1>12. \A i \in DOMAIN kept : card(i).edges \subseteq DrawnEdges(e)
    BY <1>6, <1>11 DEF AreCardsOfTypes
  <1>13. \A i \in groups : /\ \A h \in e.hints : h.pair \cap UNION hinted(i) # {} => h.pair \in hinted(i)
                          /\ Connected(hinted(i))
    <2>1. \A i \in groups : Component(e.hints, card(i).edges)
      BY <1>6, <1>11
    <2> HIDE DEF card, groups
    <2> QED
      BY <2>1 DEF Closed, Component
  <1>14. \A h \in e.hints : ~(together(h.pair) \subseteq storm)
    <2> HIDE DEF windows
    <2>1. \A h \in e.hints : \E w \in windows :
             h.pair \subseteq w.devices /\ ~(Cardinality(w.devices) > StormSize)
      BY <1>1 DEF windows
    <2> QED
      BY <2>1
  <1>15. \A i \in DOMAIN kept : i > 1 => card(i).score <= card(i - 1).score
    <2>1. ASSUME NEW i \in DOMAIN kept, i > 1 PROVE card(i).score <= card(i - 1).score
      <3>1. i \in 1 .. Len(top) /\ i - 1 \in 1 .. Len(top) /\ i \in 1 .. n /\ i - 1 \in 1 .. n /\ i - 1 < i
        BY <1>7, <1>8, <1>9, <1>10, <2>1, CardAssumption
      <3>2. order[i].score <= order[i - 1].score
        BY <1>7, <3>1
      <3>3. card(i) = order[i] /\ card(i - 1) = order[i - 1]
        BY <1>8, <1>10, <3>1
      <3> QED
        BY <3>2, <3>3
    <2> QED
      BY <2>1
  <1>16. Len(kept) = MinOf({CardLimit, n})
    <2> DEFINE S == {CardLimit, n}
    <2>1. IsFiniteSet({CardLimit}) /\ IsFiniteSet({CardLimit} \cup {n})
      BY FS_Singleton, FS_AddElement
    <2>2. S = {CardLimit} \cup {n} /\ S # {} /\ S \in SUBSET Int
      BY <1>7, CardAssumption
    <2>3. MinOf(S) \in S /\ \A y \in S : MinOf(S) <= y
      BY <2>1, <2>2, EndsOfSet
    <2> QED
      BY <1>7, <1>8, <1>10, <2>3, CardAssumption
  <1>17. ASSUME NEW i \in DOMAIN kept, NEW c \in all, \A j \in DOMAIN kept : card(j) # c
         PROVE  c.score <= card(i).score
    <2>1. PICK k \in 1 .. n : order[k] = c
      BY <1>7
    <2>2. i \in 1 .. Len(top) /\ i \in 1 .. n
      BY <1>7, <1>8, <1>9, <1>10, CardAssumption
    <2>3. ~(k \in 1 .. Len(top))
      BY <1>8, <1>10, <1>17, <2>1
    <2>4. i < k
      BY <1>7, <1>9, <2>2, <2>3
    <2>5. order[k].score <= order[i].score
      BY <1>7, <2>2, <2>4
    <2> QED
      BY <1>8, <1>10, <2>1, <2>2, <2>5
  <1>18. StandOn(windows, all, graph)
    <2> HIDE DEF windows
    <2> QED
      BY <1>2, <1>5, <1>12, <1>13, <1>14, <1>15, <1>16, <1>17 DEF StandOn, kept
  <1> QED
    BY <1>2, <1>18 DEF CardsStandOnTheGraph, WindowsOf, graph, all

(***************************************************************************)
(* The graphs of the run                                                   *)
(***************************************************************************)

\* What the run holds before and when it asks for the cards of a graph.
CardsInput == (topic = "seed cards" => SeedCards) /\ (topic = "cards" => AreGraphReads(input))

\* What a list is made of, it is a list of.
LEMMA MadeOf ==
    ASSUME NEW S, NEW s \in Seq(S)
    PROVE  RangeOf(s) \subseteq S
  BY DEF RangeOf

\* A list out of links of different ends is a list of links.
LEMMA LinksMadeOf ==
    ASSUME NEW S, NEW links \in Seq(S),
           \A l \in S : l.source \in Int /\ l.target \in Int /\ l.lqi \in Int \cup {Missing},
           \A l, k \in S : l.source = k.source /\ l.target = k.target => l = k
    PROVE  AreLinks(links)
  <1>1. RangeOf(links) \subseteq S /\ IsList(links)
    BY MadeOf, SequenceIsList
  <1> QED
    BY <1>1 DEF AreLinks

\* A link of numbers, and links of different ends.
IsLink(l) == l.source \in Int /\ l.target \in Int /\ l.lqi \in Int \cup {Missing}
Apart(l, k) == ~(l.source = k.source /\ l.target = k.target)

\* Lists of no, one, two and three links.
LEMMA ShortLists ==
    /\ AreLinks(<<>>)
    /\ \A a : IsLink(a) => AreLinks(<<a>>)
    /\ \A a, b : IsLink(a) /\ IsLink(b) /\ Apart(a, b) => AreLinks(<<a, b>>)
    /\ \A a, b, c : /\ IsLink(a) /\ IsLink(b) /\ IsLink(c)
                   /\ Apart(a, b) /\ Apart(a, c) /\ Apart(b, c) => AreLinks(<<a, b, c>>)
  <1>1. AreLinks(<<>>)
    <2> DEFINE S == {}
               t == <<>>
    <2>1. t \in Seq(S) /\ S = {}
      OBVIOUS
    <2> HIDE DEF S, t
    <2>2. AreLinks(t)
      BY <2>1, LinksMadeOf
    <2> QED
      BY <2>2 DEF t
  <1>2. ASSUME NEW a, IsLink(a) PROVE AreLinks(<<a>>)
    <2> DEFINE S == {a}
               t == <<a>>
    <2>1. t \in Seq(S) /\ S = {a}
      OBVIOUS
    <2> HIDE DEF S, t
    <2>2. AreLinks(t)
      BY <1>2, <2>1, LinksMadeOf DEF IsLink
    <2> QED
      BY <2>2 DEF t
  <1>3. ASSUME NEW a, NEW b, IsLink(a), IsLink(b), Apart(a, b) PROVE AreLinks(<<a, b>>)
    <2> DEFINE S == {a, b}
               t == <<a, b>>
    <2>1. t \in Seq(S) /\ S = {a, b}
      OBVIOUS
    <2> HIDE DEF S, t
    <2>2. AreLinks(t)
      BY <1>3, <2>1, LinksMadeOf DEF IsLink, Apart
    <2> QED
      BY <2>2 DEF t
  <1>4. ASSUME NEW a, NEW b, NEW c, IsLink(a), IsLink(b), IsLink(c), Apart(a, b), Apart(a, c), Apart(b, c)
        PROVE  AreLinks(<<a, b, c>>)
    <2> DEFINE S == {a, b, c}
               t == <<a, b, c>>
    <2>1. t \in Seq(S) /\ S = {a, b, c}
      OBVIOUS
    <2> HIDE DEF S, t
    <2>2. AreLinks(t)
      BY <1>4, <2>1, LinksMadeOf DEF IsLink, Apart
    <2> QED
      BY <2>2 DEF t
  <1> QED
    BY <1>1, <1>2, <1>3, <1>4

\* The link lists of the run are lists of links.
LEMMA GraphLinksAre == (\A links \in GraphLinks : AreLinks(links)) /\ AreLinks(<<>>) /\ AreLinks(<<Link(4, 3, 70, 1)>>)
  <1> DEFINE a == Link(1, 3, 80, 1)
             b == Link(2, 3, 40, Missing)
             c == Link(4, 3, Missing, 2)
             d == Link(2, 3, 40, 0)
             f == Link(1, 3, 20, Missing)
             h == Link(1, 2, 80, 1)
             j == Link(3, 1, 30, 1)
             m == Link(4, 3, 70, 1)
  <1>1. /\ IsLink(a) /\ IsLink(b) /\ IsLink(c) /\ IsLink(d) /\ IsLink(f) /\ IsLink(h) /\ IsLink(j) /\ IsLink(m)
        /\ Apart(a, b) /\ Apart(c, d) /\ Apart(c, f) /\ Apart(d, f) /\ Apart(h, j)
    BY DEF Link, IsLink, Apart
  <1>2. GraphLinks = {<<>>, <<a, b>>, <<a>>, <<c, d, f>>, <<h, j>>}
    BY DEF GraphLinks
  <1> HIDE DEF a, b, c, d, f, h, j, m
  <1>3. /\ AreLinks(<<>>) /\ AreLinks(<<a, b>>) /\ AreLinks(<<a>>) /\ AreLinks(<<c, d, f>>)
        /\ AreLinks(<<h, j>>) /\ AreLinks(<<m>>)
    BY <1>1, ShortLists
  <1>4. \A links \in GraphLinks : AreLinks(links)
    BY <1>2, <1>3
  <1> QED
    BY <1>3, <1>4 DEF m

\* The events that the run asks about.
EventsOf(first, second, storm) ==
    first \o (IF storm THEN Storm(200) ELSE <<>>) \o [i \in DOMAIN second |-> Event(second[i].at + 300, second[i].dev)]
Seconds == {<<>>, Together(0, <<1, 2>>), Together(0, <<4, 2>>)}

\* The events of the run are events.
LEMMA GraphEventsAre ==
    ASSUME NEW first \in Spells, NEW second \in Seconds, NEW storm \in BOOLEAN
    PROVE  EventsOf(first, second, storm) \in Seq([at : Int, dev : Int])
  <1> DEFINE S == [at : Int, dev : Int]
             middle == IF storm THEN Storm(200) ELSE <<>>
             last == [i \in DOMAIN second |-> Event(second[i].at + 300, second[i].dev)]
  <1>1. \A at \in Int, d \in Int : Event(at, d) \in S
    BY DEF Event
  <1> HIDE DEF S
  <1>2. \A at, d, f \in Int : Together(at, <<d, f>>) \in Seq(S)
    <2>1. ASSUME NEW at \in Int, NEW d \in Int, NEW f \in Int PROVE Together(at, <<d, f>>) \in Seq(S)
      <3>1. Event(at, d) \in S /\ Event(at + 1, f) \in S
        BY <1>1
      <3>2. <<Event(at, d), Event(at + 1, f)>> \in Seq(S)
        BY <3>1
      <3> QED
        BY <3>2 DEF Together
    <2> QED
      BY <2>1
  <1>3. Storm(200) \in Seq(S)
    <2>1. Event(200, 1) \in S /\ Event(200, 2) \in S /\ Event(202, 3) \in S /\ Event(202, 4) \in S
      BY <1>1
    <2>2. Storm(200) = <<Event(200, 1), Event(200, 2), Event(202, 3), Event(202, 4)>>
      BY DEF Storm
    <2>3. <<Event(200, 1), Event(200, 2), Event(202, 3), Event(202, 4)>> \in Seq(S)
      BY <2>1
    <2> QED
      BY <2>2, <2>3
  <1>4. /\ Together(0, <<1, 2>>) \in Seq(S) /\ Together(0, <<4, 2>>) \in Seq(S)
        /\ \A p \in Pairs : Together(0, p) \in Seq(S) /\ Together(100, p) \in Seq(S)
    BY <1>2 DEF Pairs
  <1>5. <<>> \in Seq(S) /\ (\A s, t : s \in Seq(S) /\ t \in Seq(S) => s \o t \in Seq(S))
    BY Joined
  <1>6. first \in Seq(S)
    <2>1. first = <<>> \/ \E p, q \in Pairs : first = Together(0, p) \o Together(100, q)
      <3>1. \/ first \in {<<>>} \cup {Together(0, p) \o Together(100, p) : p \in Pairs}
            \/ first \in {Together(0, p) \o Together(100, q) : p, q \in Pairs}
        BY DEF Spells
      <3>2. first \in {Together(0, p) \o Together(100, p) : p \in Pairs}
               => \E p \in Pairs : first = Together(0, p) \o Together(100, p)
        OBVIOUS
      <3>3. first \in {Together(0, p) \o Together(100, q) : p, q \in Pairs}
               => \E p, q \in Pairs : first = Together(0, p) \o Together(100, q)
        BY SMT
      <3> QED
        BY <3>1, <3>2, <3>3
    <2>2. ASSUME NEW p \in Pairs, NEW q \in Pairs, first = Together(0, p) \o Together(100, q)
          PROVE  first \in Seq(S)
      BY <1>4, <1>5, <2>2
    <2> QED
      BY <1>5, <2>1, <2>2
  <1>7. middle \in Seq(S)
    BY <1>3, <1>5
  <1>8. second \in Seq(S)
    BY <1>4, <1>5 DEF Seconds
  <1>9. last \in Seq(S)
    <2>1. DOMAIN second = 1 .. Len(second) /\ Len(second) \in Nat
      BY <1>8
    <2>2. \A i \in 1 .. Len(second) : second[i] \in S
      BY <1>8
    <2>3. \A i \in 1 .. Len(second) : second[i].at + 300 \in Int /\ second[i].dev \in Int
      BY <2>2 DEF S
    <2>4. \A i \in 1 .. Len(second) : Event(second[i].at + 300, second[i].dev) \in S
      BY <1>1, <2>3
    <2> QED
      BY <2>1, <2>4
  <1> HIDE DEF middle, last
  <1>10. first \o middle \o last \in Seq(S)
    BY <1>5, <1>6, <1>7, <1>9
  <1> QED
    BY <1>10, Zenon DEF middle, last, S, EventsOf

\* Three maps of different captures are stored maps.
LEMMA ThreeMaps ==
    ASSUME NEW a, NEW b, NEW c, a.id = 9, b.id = 8, c.id = 7,
           \A m \in {a, b, c} : m.at \in Int /\ AreLinks(m.links)
    PROVE  StoredMaps(<<a, b, c>>) /\ \A m \in RangeOf(<<a, b, c>>) : m.at \in Int /\ AreLinks(m.links)
  <1> DEFINE S == {a, b, c}
             snaps == <<a, b, c>>
  <1>1. /\ snaps \in Seq(S) /\ DOMAIN snaps = {1, 2, 3}
        /\ snaps[1] = a /\ snaps[2] = b /\ snaps[3] = c
    OBVIOUS
  <1>2. \A m \in S : m.at \in Int /\ AreLinks(m.links) /\ IsList(m.links)
    BY DEF AreLinks
  <1> HIDE DEF snaps, S
  <1>3. IsList(snaps) /\ RangeOf(snaps) \subseteq S
    BY <1>1, SequenceIsList, MadeOf
  <1>4. \A i, k \in DOMAIN snaps : snaps[i].id = snaps[k].id => i = k
    BY <1>1
  <1>5. StoredMaps(snaps) /\ \A m \in RangeOf(snaps) : m.at \in Int /\ AreLinks(m.links)
    BY <1>2, <1>3, <1>4 DEF StoredMaps
  <1> QED
    BY <1>5 DEF snaps

\* The run starts with the latest map of a graph.
LEMMA CardsInputStart == RulesInit => CardsInput
  BY DEF RulesInit, CardsInput

\* Every step asks only for the cards of reads of a graph.
LEMMA CardsInputStep == CardsInput /\ [RulesNext]_rulesVars => CardsInput'
  <1> SUFFICES ASSUME CardsInput, [RulesNext]_rulesVars PROVE CardsInput'
    OBVIOUS
  <1>1. CASE AskCards
    <2>1. topic = "seed cards" /\ topic' = "cards"
      <3>1. AskCards => topic = "seed cards"
        BY Zenon DEF AskCards
      <3>2. AskCards => topic' = "cards"
        BY Zenon DEF AskCards
      <3> QED
        BY <1>1, <3>1, <3>2
    <2>2. PICK links0 \in GraphLinks, nodes \in {{}, 1 .. 4}, offline \in SUBSET (1 .. 4) :
             input = <<Snap(9, 4000, "complete", nodes, links0), offline>>
      BY <2>1 DEF CardsInput, SeedCards
    <2>3. PICK links \in GraphLinks, first \in Spells,
               second \in {<<>>, Together(0, <<1, 2>>), Together(0, <<4, 2>>)}, storm \in BOOLEAN :
         input' = [rows |-> [d \in 1 .. 4 |-> GraphRow(d, input[2])],
                   snaps |-> <<input[1], Snap(8, 3000, "complete", {1, 2, 3}, links),
                               Snap(7, 2000, "complete", {}, IF storm THEN <<>> ELSE <<Link(4, 3, 70, 1)>>)>>,
                   events |-> first \o (IF storm THEN Storm(200) ELSE <<>>)
                              \o [i \in DOMAIN second |-> Event(second[i].at + 300, second[i].dev)],
                   now |-> 5000, models |-> [d \in 1 .. 4 |-> IF d = 4 THEN Missing ELSE "model"]]
      BY <1>1 DEF AskCards
    <2> DEFINE a == input[1]
               b == Snap(8, 3000, "complete", {1, 2, 3}, links)
               oldest == IF storm THEN <<>> ELSE <<Link(4, 3, 70, 1)>>
               c == Snap(7, 2000, "complete", {}, oldest)
               events == first \o (IF storm THEN Storm(200) ELSE <<>>)
                              \o [i \in DOMAIN second |-> Event(second[i].at + 300, second[i].dev)]
               rows == [d \in 1 .. 4 |-> GraphRow(d, input[2])]
               models == [d \in 1 .. 4 |-> IF d = 4 THEN Missing ELSE "model"]
    <2>4. a = Snap(9, 4000, "complete", nodes, links0)
      BY <2>2
    <2>5. AreLinks(links0) /\ AreLinks(links) /\ AreLinks(oldest)
      BY GraphLinksAre
    <2> HIDE DEF oldest
    <2>6. /\ a.id = 9 /\ a.at = 4000 /\ a.links = links0
          /\ b.id = 8 /\ b.at = 3000 /\ b.links = links
          /\ c.id = 7 /\ c.at = 2000 /\ c.links = oldest
      BY <2>4 DEF Snap
    <2>7. events \in Seq([at : Int, dev : Int])
      <3>1. events = EventsOf(first, second, storm)
        BY Zenon DEF EventsOf
      <3>2. second \in Seconds
        BY Zenon DEF Seconds
      <3> HIDE DEF events
      <3> QED
        BY <3>1, <3>2, GraphEventsAre
    <2>8. DOMAIN rows = 1 .. 4 /\ DOMAIN models = 1 .. 4 /\ IsFiniteSet(1 .. 4) /\ 1 .. 4 \in SUBSET Int
      <3>1. IsFiniteSet(1 .. 4)
        BY 1 \in Int, 4 \in Int, FS_Interval
      <3> QED
        BY <3>1
    <2>9. input' = [rows |-> rows, snaps |-> <<a, b, c>>, events |-> events, now |-> 5000, models |-> models]
      BY <2>3 DEF oldest
    <2> HIDE DEF a, b, c, events, rows, models
    <2>10. StoredMaps(<<a, b, c>>) /\ \A m \in RangeOf(<<a, b, c>>) : m.at \in Int /\ AreLinks(m.links)
      BY <2>5, <2>6, ThreeMaps
    <2>11. IsList(events) /\ RangeOf(events) \subseteq [at : Int, dev : Int]
      BY <2>7, SequenceIsList, MadeOf
    <2>12. /\ input'.rows = rows /\ input'.snaps = <<a, b, c>> /\ input'.events = events
           /\ input'.now = 5000 /\ input'.models = models
      BY <2>9
    <2>13. AreGraphReads(input')
      BY <2>8, <2>10, <2>11, <2>12 DEF AreGraphReads
    <2> QED
      BY <2>1, <2>13 DEF CardsInput
  <1>2. CASE AskDiagnosis \/ AskTopology \/ AskStory \/ AskPage \/ AskReport \/ AskList \/ FollowList
    <2>1. topic' \notin {"seed cards", "cards"}
      BY <1>2 DEF AskDiagnosis, AskTopology, AskStory, AskPage, AskReport, AskList, FollowList
    <2> QED
      BY <2>1 DEF CardsInput
  <1>3. CASE UNCHANGED rulesVars
    <2>1. topic' = topic /\ input' = input
      BY <1>3 DEF rulesVars
    <2>2. SeedCards => SeedCards'
      BY <2>1 DEF SeedCards
    <2>3. AreGraphReads(input) => AreGraphReads(input')
      BY <2>1
    <2> QED
      BY <2>1, <2>2, <2>3 DEF CardsInput
  <1> QED
    BY <1>1, <1>2, <1>3 DEF RulesNext

\* Every card of the run stands on drawn links, the groups are the connected components
\* of the drawn hints, no hint rests on a storm alone, and no card that is left out scores
\* more than one that is shown (topology/investigations.py, passive_hints.py).
THEOREM CardsAlwaysDrawn == RulesSpec => []CardsAreDrawn
  <1>1. CardsInput => CardsAreDrawn
    BY CardsStandAlways DEF CardsInput, CardsAreDrawn
  <1> QED
    BY <1>1, CardsInputStart, CardsInputStep, PTL DEF RulesSpec
=============================================================================
