----------------------------- MODULE DeviceStory -----------------------------
(***************************************************************************)
(* The story of one device: how stored evidence becomes a status, a        *)
(* headline, reasons, limitations and checks (decisions/device_story.py),  *)
(* with the evidence it rests on: reporting rhythm and silence, linkquality*)
(* trend, data coverage, model patterns; and the summary of many stories   *)
(* (services/decision_summary.py).                                         *)
(*                                                                         *)
(* Data: times are minutes; a payload snapshot is [at, payload, lqi, batt] *)
(* with Missing where nothing is stored, newest first; codes are strings,  *)
(* their parameters and wording are left out.  What the topology says of   *)
(* the device is the record `topo` of TopologyEvidence.                    *)
(***************************************************************************)
EXTENDS Integers, Sequences, FiniteSets, SequencesExt

CONSTANTS Missing,
          MinIntervals,   \* MIN_INTERVAL_SAMPLES
          WindowSize,     \* WINDOW_SIZE
          HistoryLimit,   \* MAX_SNAPSHOT_HISTORY
          ReadLimit,      \* MAX_SNAPSHOTS of the rhythm and of the trend
          MinSamples,     \* MIN_HISTORY_SAMPLES
          GroupSize,      \* MODEL_PATTERN_MIN_GROUP_SIZE
          GroupAffected   \* MODEL_PATTERN_MIN_AFFECTED_COUNT

ASSUME MissingAssumption == Missing \notin Int
ASSUME ReadAssumption == HistoryLimit \in Nat /\ ReadLimit \in Nat /\ HistoryLimit <= ReadLimit
ASSUME GroupAssumption == GroupAffected \in Nat \ {0}

LOW_BATTERY_PERCENT == 20
STALE_LAST_SEEN_MINUTES == 48 * 60
TREND_DELTA_THRESHOLD == 15
MIN_SILENCE_MINUTES == 30

MaxOf(S) == CHOOSE x \in S : \A y \in S : y <= x
\* The arguments of a function upTo, each at the place that counts those which come
\* no later than it, upTo[x].
InOrder(upTo) ==
    [k \in 1 .. Cardinality(DOMAIN upTo) |-> CHOOSE x \in DOMAIN upTo : Cardinality(upTo[x]) = k]
Ascending(S) == InOrder([x \in S |-> {y \in S : y <= x}])
\* What a sequence holds at the places of I, and the sequence in ascending order.
Kept(s, I) == LET order == Ascending(I) IN [k \in 1 .. Cardinality(I) |-> s[order[k]]]
Sorted(s) ==
    LET order == InOrder([i \in DOMAIN s |-> {j \in DOMAIN s : s[j] < s[i] \/ (s[j] = s[i] /\ j <= i)}])
    IN [k \in DOMAIN s |-> s[order[k]]]
\* Lexicographic order of sort keys.
LexLess(a, b) ==
    \E i \in DOMAIN a : a[i] < b[i] /\ \A j \in 1 .. i - 1 : a[j] = b[j]
\* sorted(S, key), where the keys tell the members of S apart.
SortedBy(S, Before(_, _)) == InOrder([x \in S |-> {y \in S : ~Before(x, y)}])
NewestOf(s, n) == SubSeq(s, 1, IF Len(s) < n THEN Len(s) ELSE n)
\* sum(f.values()): as many as there are pairs of a key and a number up to its count.
SumOfCounts(f) == Cardinality(UNION {{k} \X (1 .. f[k]) : k \in DOMAIN f})

----------------------------------------------------------------------------
(* reporting_rhythm.py and reporting_silence.py *)

is_sleepy_device_candidate(row) == row.type = "EndDevice" /\ row.power = "Battery"

\* round() of a value given in quarters: halves go to the even neighbour.
RoundQuarters(x) ==
    LET q == x \div 4 r == x % 4 IN
    IF r < 2 \/ (r = 2 /\ q % 2 = 0) THEN q ELSE q + 1

\* _percentile(sorted, quarters / 4)
Percentile(sorted, quarters) ==
    LET i     == (Len(sorted) - 1) * quarters
        lower == i \div 4 + 1
        upper == IF lower < Len(sorted) THEN lower + 1 ELSE lower
    IN RoundQuarters(4 * sorted[lower] + (sorted[upper] - sorted[lower]) * (i % 4))

MedianOf(sorted) ==
    LET n == Len(sorted) IN
    IF n % 2 = 1 THEN sorted[n \div 2 + 1] ELSE (sorted[n \div 2] + sorted[n \div 2 + 1]) \div 2

observation_times(snaps) ==
    Ascending({snaps[i].payload : i \in DOMAIN snaps} \ {Missing})

Intervals(times) ==
    LET gap == [i \in 1 .. (IF times = <<>> THEN 0 ELSE Len(times) - 1) |-> times[i + 1] - times[i]]
    IN Kept(gap, {i \in DOMAIN gap : gap[i] > 0})

build_reporting_rhythm(row, snaps) ==
    LET times  == observation_times(snaps)
        sorted == Sorted(Intervals(times))
    IN IF ~is_sleepy_device_candidate(row) \/ Len(sorted) < MinIntervals
       THEN [available |-> FALSE]
       ELSE [available |-> TRUE, p75 |-> Percentile(sorted, 3), median |-> MedianOf(sorted),
             max |-> sorted[Len(sorted)], latest |-> times[Len(times)]]

\* int(p75 * 2.5), max + median, and a floor
extended_silence_threshold(r) == MaxOf({(r.p75 * 5) \div 2, r.max + r.median, MIN_SILENCE_MINUTES})

\* build_reporting_silence; a clock that is behind the last report knows nothing.
BeyondExpected(row, snaps, now) ==
    LET r == build_reporting_rhythm(row, snaps) IN
    /\ r.available /\ now >= r.latest
    /\ now - r.latest > extended_silence_threshold(r)

----------------------------------------------------------------------------
(* lqi_trend.py *)

\* _lqi_samples: oldest first, one per capture time.
lqi_samples(snaps) ==
    LET old  == Reverse(snaps)
        with == Kept(old, {i \in DOMAIN old : old[i].lqi # Missing})
        new(i) == \A j \in 1 .. i - 1 : with[j].at # with[i].at
    IN [i \in 1 .. Cardinality({j \in DOMAIN with : new(j)}) |->
           with[CHOOSE j \in DOMAIN with :
                   new(j) /\ Cardinality({k \in 1 .. j : new(k)}) = i].lqi]

build_lqi_trend(samples) ==
    LET n == Len(samples)
        recent  == MedianOf(Sorted(SubSeq(samples, n - WindowSize + 1, n)))
        earlier == MedianOf(Sorted(SubSeq(samples, n - 2 * WindowSize + 1, n - WindowSize)))
    IN IF n < 2 * WindowSize THEN "insufficient_history"
       ELSE IF recent - earlier <= -TREND_DELTA_THRESHOLD THEN "declining"
       ELSE IF recent - earlier >= TREND_DELTA_THRESHOLD THEN "improving"
       ELSE "stable"

----------------------------------------------------------------------------
(* model_pattern.py: devices of one stored model.  models maps a device to *)
(* its model or Missing; affected were offline within the lookback.  The   *)
(* list of patterns is cut at 20 groups there; here it has them all.       *)

ModelGroup(models, d) == {x \in DOMAIN models : models[x] = models[d]}

qualifying_pattern_for_device(models, affected, d) ==
    /\ models[d] # Missing
    /\ Cardinality(ModelGroup(models, d)) >= GroupSize
    /\ Cardinality(ModelGroup(models, d) \cap affected) >= GroupAffected

----------------------------------------------------------------------------
(* device_coverage.py.  topo.history are the counts of                     *)
(* count_device_topology_history.                                          *)

\* _count_snapshot_field
CountField(snaps, field) ==
    Cardinality({snaps[i].at : i \in {j \in DOMAIN snaps : snaps[j][field] # Missing}})

classify_topology_history_params(h) ==
    IF h.complete = 0 THEN "topology_history_not_observed"
    ELSE IF h.available = 0 THEN "topology_history_unavailable"
    ELSE IF h.limited > 0 THEN "topology_history_sparse"
    ELSE IF h.observed = 0 THEN "topology_history_not_observed"
    ELSE IF h.observed < h.available THEN "topology_history_sparse"
    ELSE "topology_history_available"

\* build_device_coverage_evidence and build_device_coverage: one label per
\* dimension.
build_device_coverage(row, tracking, snaps, changes, topo, area) ==
    LET battery == CountField(snaps, "batt")
        Label(have, yes, no) == IF have THEN yes ELSE no
    IN {IF ~tracking THEN "availability_tracking_off"
        ELSE IF row.availability \in {"online", "offline"} THEN "availability_available"
        ELSE IF ~changes THEN "availability_history_building"
        ELSE "availability_status_unknown",
        Label(row.seen # Missing, "last_seen_available", "last_seen_unknown"),
        Label(row.payload # Missing, "last_payload_available", "last_payload_unknown"),
        Label(CountField(snaps, "lqi") >= MinSamples,
              "lqi_history_available", "lqi_history_sparse"),
        classify_topology_history_params(topo.history),
        Label(area, "ha_area_linked", "ha_areas_not_linked")}
       \cup {l \in {Label(battery >= MinSamples, "battery_history_available", "battery_history_sparse")} :
                row.power = "Battery" \/ row.batt # Missing \/ battery > 0}

----------------------------------------------------------------------------
(* device_story.py.  A database record db holds what is stored of one      *)
(* device: [row, tracking, snaps, changes, topo, area, models, affected,   *)
(* self].                                                                  *)

\* _topology_gap
topology_gap(topo) ==
    /\ topo.layout # "limited"
    /\ topo.links = 0
    /\ topo.known > 0 \/ topo.missing > 0 \/ topo.selected

\* A bug that counts the whole history read for the rhythm as coverage.
Mut_load_device_story_evidence(db) ==
    LET snaps == NewestOf(db.snaps, ReadLimit) IN
    [row |-> db.row, topo |-> db.topo, snaps |-> snaps,
     pattern |-> qualifying_pattern_for_device(db.models, db.affected, db.self),
     trend |-> build_lqi_trend(lqi_samples(snaps)),
     coverage |-> build_device_coverage(db.row, db.tracking, snaps, db.changes, db.topo, db.area)]

load_device_story_evidence(db) ==
    LET snaps == NewestOf(db.snaps, ReadLimit) IN
    [row |-> db.row, topo |-> db.topo, snaps |-> snaps,
     pattern |-> qualifying_pattern_for_device(db.models, db.affected, db.self),
     trend |-> build_lqi_trend(lqi_samples(snaps)),
     coverage |-> build_device_coverage(db.row, db.tracking, NewestOf(snaps, HistoryLimit),
                                        db.changes, db.topo, db.area)]

lqi_trend_escalation_evidence(e, stale) ==
    \/ e.row.availability = "offline" \/ topology_gap(e.topo) \/ stale
    \/ e.topo.layout # "limited" /\ e.topo.missing > 0

LastSeenStale(row, now) == row.seen # Missing /\ now - row.seen >= STALE_LAST_SEEN_MINUTES

\* _apply_reporting_silence_rules, _apply_lqi_trend_rules and
\* _apply_model_pattern_rules
SilenceReasons(e, now) ==
    IF ~BeyondExpected(e.row, e.snaps, now) THEN {}
    ELSE {"observed_reporting_rhythm", "reporting_silence_beyond_expected"}
TrendReasons(e, stale) ==
    IF e.trend # "declining" \/ ~lqi_trend_escalation_evidence(e, stale) THEN {}
    ELSE {"observed_lqi_trend", "reported_lqi_declining"}
PatternReasons(e) == IF e.pattern THEN {"model_pattern_observed"} ELSE {}

\* The reasons of build_device_story.
Reasons(e, now) ==
    LET gap   == topology_gap(e.topo)
        stale == LastSeenStale(e.row, now)
        If(cond, codes) == IF cond THEN codes ELSE {}
    IN If(e.row.availability = "offline", {"current_issue_present"})
       \cup If(gap, {"latest_snapshot_no_links"})
       \cup If(gap /\ e.topo.known > 0, {"last_known_links_present"})
       \cup If(gap /\ e.topo.missing > 0, {"recent_missing_links_present"})
       \cup If(gap /\ e.topo.selected, {"selected_snapshot_had_links"})
       \cup (e.coverage \cap {"availability_tracking_off", "availability_history_building",
                              "availability_status_unknown", "ha_areas_not_linked"})
       \cup If(stale, {"last_seen_stale"})
       \cup If(e.row.batt # Missing /\ e.row.batt <= LOW_BATTERY_PERCENT, {"battery_low"})
       \cup If(e.topo.layout # "none" /\ ~e.topo.routes, {"route_hints_unavailable"})
       \cup SilenceReasons(e, now) \cup TrendReasons(e, stale) \cup PatternReasons(e)

\* Each reason that could be read as more than it is brings its limitation.
LimitationOf(reason) ==
    CASE reason = "latest_snapshot_no_links" -> {"absence_from_latest_not_failure"}
      [] reason = "availability_status_unknown" -> {"availability_limits_interpretation"}
      [] reason = "route_hints_unavailable" -> {"route_hints_not_live_routing"}
      [] reason = "reporting_silence_beyond_expected" -> {"extended_silence_not_failure"}
      [] reason = "reported_lqi_declining" -> {"reported_lqi_not_path_failure"}
      [] reason = "model_pattern_observed" -> {"model_pattern_not_causal"}
      [] OTHER -> {}

ChecksOf(reason) ==
    CASE reason = "current_issue_present" -> {"confirm_powered", "confirm_reporting_in_z2m"}
      [] reason = "latest_snapshot_no_links" -> {"compare_earlier_snapshot", "confirm_powered"}
      [] reason = "availability_tracking_off" -> {"enable_availability_reporting"}
      [] reason = "battery_low" -> {"check_battery_level"}
      [] reason = "route_hints_unavailable" -> {"route_hints_context_only"}
      [] reason = "reporting_silence_beyond_expected" -> {"confirm_powered", "confirm_reporting_in_z2m"}
      [] reason = "reported_lqi_declining" -> {"compare_earlier_snapshot", "confirm_reporting_in_z2m"}
      [] reason = "model_pattern_observed" -> {"review_same_model_availability_history",
                                               "compare_same_model_device_context"}
      [] OTHER -> {}

Outcome(status, priority, headline) == [status |-> status, priority |-> priority, headline |-> headline]

resolve_story_outcome(e, reasons) ==
    LET offline == e.row.availability = "offline"
        gap     == topology_gap(e.topo) IN
    IF offline /\ gap THEN Outcome("review_first", "high", "current_issue_present")
    ELSE IF offline THEN Outcome("worth_reviewing", "high", "current_issue_present")
    ELSE IF gap THEN Outcome("watch", "low", "topology_evidence_gap")
    ELSE IF "reporting_silence_beyond_expected" \in reasons THEN
               Outcome("watch", "low", "extended_reporting_silence")
    ELSE IF "reported_lqi_declining" \in reasons THEN
               Outcome("watch", "low", "reported_link_quality_changed")
    ELSE IF "last_seen_stale" \in reasons THEN Outcome("watch", "low", "stale_last_seen")
    ELSE IF "battery_low" \in reasons THEN Outcome("watch", "low", "low_battery")
    ELSE IF "availability_tracking_off" \in reasons THEN
               Outcome("improve_data_coverage", "medium", "availability_tracking_needed")
    ELSE IF reasons \cap {"ha_areas_not_linked", "route_hints_unavailable"} # {} THEN
               Outcome("informational", "low", "data_coverage_gaps")
    ELSE IF reasons # {} THEN Outcome("informational", "none", "no_notable_signals")
    ELSE Outcome("no_notable_change", "none", "no_notable_signals")

build_device_story(e, now) ==
    LET reasons == Reasons(e, now) IN
    [outcome |-> resolve_story_outcome(e, reasons), reasons |-> reasons,
     limitations |-> UNION {LimitationOf(r) : r \in reasons},
     checks |-> UNION {ChecksOf(r) : r \in reasons}, coverage |-> e.coverage]

\* device_story_for_device and device_stories_for_devices: the first reads one
\* device at a time, the second all of them with one bulk read each, bounded
\* per device.
device_story_for_device(db, now) == build_device_story(load_device_story_evidence(db), now)
device_stories_for_devices(dbs, now) ==
    LET bulk == [d \in DOMAIN dbs |-> [dbs[d] EXCEPT !.snaps = NewestOf(@, ReadLimit)]] IN
    [d \in DOMAIN dbs |-> build_device_story(load_device_story_evidence(bulk[d]), now)]

\* device_coverage_for_device: the coverage page reads the history on its own.
device_coverage_for_device(db) ==
    build_device_coverage(db.row, db.tracking, NewestOf(db.snaps, HistoryLimit),
                          db.changes, db.topo, db.area)

----------------------------------------------------------------------------
(* decision_summary.py: the fold of the badges. *)

DECISION_STATUS_ORDER ==
    <<"review_first", "worth_reviewing", "improve_data_coverage", "watch", "changed",
      "informational", "no_notable_change", "data_unavailable">>
DECISION_PRIORITY_ORDER == <<"high", "medium", "low", "none">>

\* The first value of the order that occurs.
FirstOf(order, values) ==
    order[CHOOSE i \in DOMAIN order :
             order[i] \in values /\ \A j \in 1 .. i - 1 : order[j] \notin values]

decision_count_summary_from_badges(badges, warnings) ==
    LET Count(f(_), v) == Cardinality({d \in DOMAIN badges : f(badges[d]) = v})
        Status(b) == b.status
        Priority(b) == b.priority
        Have(f(_)) == {f(badges[d]) : d \in DOMAIN badges} IN
    IF DOMAIN badges = {}
    THEN [subjects |-> 0, overall |-> "data_unavailable", highest |-> "none",
          statuses |-> <<>>, priorities |-> <<>>, warnings |-> warnings]
    ELSE [subjects |-> Cardinality(DOMAIN badges),
          overall |-> FirstOf(DECISION_STATUS_ORDER, Have(Status)),
          highest |-> FirstOf(DECISION_PRIORITY_ORDER, Have(Priority)),
          statuses |-> [s \in Have(Status) |-> Count(Status, s)],
          priorities |-> [p \in Have(Priority) |-> Count(Priority, p)],
          warnings |-> warnings]

----------------------------------------------------------------------------
\* What the stories of a batch must say, given their badges and summary.
Agree(dbs, now, batch, badges, summary) ==
    /\ \A d \in DOMAIN dbs :
          LET s     == batch[d]
              times == observation_times(NewestOf(dbs[d].snaps, ReadLimit)) IN
          /\ s = device_story_for_device(dbs[d], now)
          /\ s.coverage = device_coverage_for_device(dbs[d])
          /\ "reporting_silence_beyond_expected" \in s.reasons =>
                \A x \in DOMAIN Intervals(times) : now - times[Len(times)] > Intervals(times)[x]
          /\ s.outcome.priority \in {"high", "medium"} => s.checks # {}
          /\ s.outcome.status = "no_notable_change" <=> s.reasons = {}
    /\ \E d \in DOMAIN dbs : badges[d].status = summary.overall
    /\ \E d \in DOMAIN dbs : badges[d].priority = summary.highest
    /\ summary.subjects = Cardinality(DOMAIN dbs)

(* Three readers tell one story of a device: the batch behind the          *)
(* dashboard, the device page and the coverage page.  A sleepy device is   *)
(* called silent only after a silence longer than any it was seen to make; *)
(* a story that asks for attention says what to check, one that calls      *)
(* nothing notable has no reason; and the summary of a set of stories      *)
(* counts each of them once and leads with one that is among them.         *)
StoriesAgree(dbs, now) ==
    LET Badges(batch) == [d \in DOMAIN dbs |-> batch[d].outcome]
        Check(batch) == Agree(dbs, now, batch, Badges(batch),
                              decision_count_summary_from_badges(Badges(batch), 0))
    IN Check(device_stories_for_devices(dbs, now))
=============================================================================
