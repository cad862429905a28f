------------------------- MODULE EnrichmentResolve -------------------------
(***************************************************************************)
(* How the Home Assistant integration turns its registries and Core's      *)
(* device list into the snapshot it posts (ha_enrichment.py), and how it   *)
(* reads Core's answer (api.py, enrichment_manager.py).  A registry device *)
(* keeps what the resolution branches on: the addresses its connections    *)
(* and identifiers spell (Bad for one that is not an address), its names,  *)
(* its area and its enabled entities.                                      *)
(***************************************************************************)
EXTENDS Naturals, FiniteSets, FiniteSetsExt

CONSTANTS
    Bad,        \* the spelling of an address that normalize_ieee refuses
    None        \* Python None

\* A Core row is [net, ieee, name]; a registry device is
\* [id, sources, name, area, entities], an entity [id, area].

\* ha_enrichment.py extract_ieee_address: one exact address, several, a bad one, none
ExtractState(d) ==
    LET exact == d.sources \ {Bad} IN
    CASE Cardinality(exact) > 1 -> "ambiguous"
      [] Cardinality(exact) = 1 -> "exact"
      [] exact = {} /\ d.sources # {} -> "invalid"
      [] OTHER -> "missing"

\* _resolved_area: the device's own area, else the one its entities agree on
ResolvedArea(d) ==
    LET areas == {e.area: e \in d.entities} \ {None} IN
    IF d.area # None THEN d.area
    ELSE IF Cardinality(areas) = 1 THEN CHOOSE a \in areas: TRUE ELSE None

\* _representative_entity: the first entity id in the order of their names
RepresentativeEntity(d) ==
    LET ids == {e.id: e \in d.entities} IN IF ids = {} THEN None ELSE Min(ids)

Candidate(d) ==
    [ieee |-> CHOOSE i \in d.sources: i # Bad, id |-> d.id, name |-> d.name,
     area |-> ResolvedArea(d), entity |-> RepresentativeEntity(d)]

\* build_home_assistant_registry_snapshot: devices without a Zigbee source are not candidates
RegistrySnapshot(devices) ==
    [candidates |-> {Candidate(d): d \in {x \in devices: ExtractState(x) = "exact"}},
     ambiguous |-> Cardinality({d \in devices: ExtractState(d) \in {"ambiguous", "invalid"}})]

\* parse_core_inventory_payload refuses a list that names one device twice
InventoryUsable(rows) ==
    \A r, s \in rows: r.net = s.net /\ r.ieee = s.ieee => r = s

\* The Core row a candidate stands for: the only one with its address, or the
\* only one of several that also carries the candidate's original name
Selected(c, rows) ==
    LET same == {r \in rows: r.ieee = c.ieee}
        named == {r \in same: r.name = c.name} IN
    CASE Cardinality(same) = 1 -> same
      [] Cardinality(same) > 1 /\ c.name # None /\ Cardinality(named) = 1 -> named
      [] OTHER -> {}

Row(c, r) ==
    [net |-> r.net, ieee |-> r.ieee, id |-> c.id, area |-> c.area, entity |-> c.entity]

Mut_Unconflicted(rows) == rows

\* Rows whose registry device and entity no other row names
Unconflicted(rows) ==
    {r \in rows: \A s \in rows \ {r}: s.id # r.id /\ (r.entity = None \/ s.entity # r.entity)}

\* Candidates that select the same Core device are ambiguous, all of them
Alone(claims, rows) ==
    {c \in claims: \A d \in claims \ {c}: Selected(d, rows) # Selected(c, rows)}

\* resolve_home_assistant_enrichment
Resolve(snapshot, rows) ==
    LET cands == snapshot.candidates
        known == {c \in cands: \E r \in rows: r.ieee = c.ieee}
        claims == {c \in cands: Selected(c, rows) # {}}
        alone == Alone(claims, rows)
        resolved == UNION {{Row(c, r): r \in Selected(c, rows)}: c \in alone}
        posted == Unconflicted(resolved) IN
    [devices |-> posted,
     submitted |-> Cardinality(cands) + snapshot.ambiguous,
     unmatched |-> Cardinality(cands \ known),
     ambiguous |-> snapshot.ambiguous
                   + Cardinality(known \ claims)
                   + Cardinality(claims \ alone)
                   + Cardinality(resolved) - Cardinality(posted)]

\* enrichment_request_payload raises for a snapshot that names a Core device,
\* a registry device or an entity twice; the fingerprint is computed through it
PayloadRaises(devices) ==
    \E r, s \in devices: r # s /\ (\/ <<r.net, r.ieee>> = <<s.net, s.ieee>>
                                   \/ r.id = s.id
                                   \/ r.entity # None /\ r.entity = s.entity)

\* Core's answer to a snapshot: apply_ha_enrichment keeps the rows whose device it has
CoreMatches(devices, rows) == {d \in devices: \E r \in rows: r.net = d.net /\ r.ieee = d.ieee}

CoreResult(devices, rows) ==
    LET kept == Cardinality(CoreMatches(devices, rows)) IN
    [submitted |-> Cardinality(devices), matched |-> kept, stored |-> kept,
     unmatched |-> Cardinality(devices) - kept, ambiguous |-> 0]

\* api.py _validate_enrichment_result, with the number of rows that were posted
ResultValid(result, posted) ==
    /\ result.submitted = posted
    /\ result.submitted = result.matched + result.unmatched + result.ambiguous
    /\ result.stored = result.matched

\* _match_state: how much of the registry Core holds
MatchState(submitted, ambiguous, stored) ==
    CASE submitted = 0 -> "no_candidates"
      [] submitted # 0 /\ stored = submitted -> "complete"
      [] submitted # 0 /\ stored # submitted /\ stored = 0 ->
            IF ambiguous > 0 THEN "no_matches_ambiguous" ELSE "no_matches"
      [] OTHER -> IF ambiguous > 0 THEN "partial_ambiguous" ELSE "partial_unmatched"

\* _completed_outcome: both sides' counts added up; raises when they disagree
Outcome(build, result) ==
    LET unmatched == build.unmatched + result.unmatched
        ambiguous == build.ambiguous + result.ambiguous IN
    [raises |-> \/ ~ResultValid(result, Cardinality(build.devices))
                \/ build.submitted # result.matched + unmatched + ambiguous,
     match |-> MatchState(build.submitted, ambiguous, result.stored),
     converged |-> result.matched = result.submitted]
=============================================================================
