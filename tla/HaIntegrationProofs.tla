------------------------ MODULE HaIntegrationProofs ------------------------
(***************************************************************************)
(* Proofs about HaIntegration, for every registry, inventory and answer.   *)
(*                                                                         *)
(* The snapshot that is published is right because of what the resolution  *)
(* computes (the first part), whatever happens around it.  That the        *)
(* manager rests on the latest registries, and that the repair issues are  *)
(* current, are facts about the order of callbacks (the second part): an   *)
(* event that the running pass has missed has left the debounce timer, or  *)
(* the word "pending" to the pass itself.                                  *)
(***************************************************************************)
EXTENDS HaIntegration, FiniteSetTheorems, TLAPS

----------------------------------------------------------------------------
(* The resolution *)

\* The row that a candidate resolves to
RowOf(c, i) == CHOOSE r \in i : r \in Selected(c, i)

\* A snapshot of finite registries
IsSnapshot(s) == IsFiniteSet(s.candidates) /\ s.ambiguous \in Nat

\* A candidate selects one row of the inventory, with its address, or none:
\* resolve_home_assistant_enrichment never posts a candidate for two devices.
LEMMA SelectsOne ==
    ASSUME NEW i, IsFiniteSet(i), NEW c, Selected(c, i) # {}
    PROVE  \E r \in i : r.ieee = c.ieee /\ Selected(c, i) = {r}
<1> DEFINE same == {r \in i : r.ieee = c.ieee}
           named == {r \in same : r.name = c.name}
<1>1. Selected(c, i) \subseteq same /\ Cardinality(Selected(c, i)) = 1
  <2>1. CASE Cardinality(same) = 1
    BY <2>1 DEF Selected
  <2>2. CASE Cardinality(same) > 1 /\ c.name # None /\ Cardinality(named) = 1
    <3>1. ~(Cardinality(same) = 1) BY <2>2
    <3>2. Selected(c, i) = named BY <2>2, <3>1 DEF Selected
    <3> QED BY <2>2, <3>2
  <2>3. CASE ~(Cardinality(same) = 1)
             /\ ~(Cardinality(same) > 1 /\ c.name # None /\ Cardinality(named) = 1)
    BY <2>3 DEF Selected
  <2> QED BY <2>1, <2>2, <2>3
<1>2. IsFiniteSet(Selected(c, i))
  BY <1>1, FS_Subset, same \in SUBSET i, Selected(c, i) \in SUBSET i
<1>3. PICK r : Selected(c, i) = {r}
  BY <1>1, <1>2, FS_Singleton
<1> QED BY <1>1, <1>3

\* The parts of a resolution, named as in Resolve
Known(s, i) == {c \in s.candidates : \E r \in i : r.ieee = c.ieee}
Claims(s, i) == {c \in s.candidates : Selected(c, i) # {}}
Resolved(s, i) ==
    UNION {{Row(c, r) : r \in Selected(c, i)} : c \in Alone(Claims(s, i), i)}

\* Resolve in terms of its parts.
LEMMA ResolveParts ==
    ASSUME NEW s, NEW i
    PROVE  Resolve(s, i) =
             [devices |-> Unconflicted(Resolved(s, i)),
              submitted |-> Cardinality(s.candidates) + s.ambiguous,
              unmatched |-> Cardinality(s.candidates \ Known(s, i)),
              ambiguous |-> s.ambiguous
                            + Cardinality(Known(s, i) \ Claims(s, i))
                            + Cardinality(Claims(s, i) \ Alone(Claims(s, i), i))
                            + Cardinality(Resolved(s, i))
                            - Cardinality(Unconflicted(Resolved(s, i)))]
BY DEF Resolve, Known, Claims, Resolved

\* Every candidate that claims a Core device alone has one row of its own.
LEMMA RowsAreOwn ==
    ASSUME NEW s, NEW i, IsFiniteSet(i), InventoryUsable(i)
    PROVE  /\ \A c \in Alone(Claims(s, i), i) :
                 RowOf(c, i) \in i /\ Selected(c, i) = {RowOf(c, i)}
           /\ \A c, d \in Alone(Claims(s, i), i) :
                 c # d => <<RowOf(c, i).net, RowOf(c, i).ieee>> # <<RowOf(d, i).net, RowOf(d, i).ieee>>
           /\ Resolved(s, i) = {Row(c, RowOf(c, i)) : c \in Alone(Claims(s, i), i)}
<1> DEFINE alone == Alone(Claims(s, i), i)
<1>1. ASSUME NEW c \in alone
      PROVE  RowOf(c, i) \in i /\ Selected(c, i) = {RowOf(c, i)}
  <2>1. PICK r \in i : Selected(c, i) = {r}
    BY SelectsOne DEF Alone, Claims
  <2>2. RowOf(c, i) = r BY <2>1 DEF RowOf
  <2> QED BY <2>1, <2>2
<1>2. ASSUME NEW c \in alone, NEW d \in alone, c # d
      PROVE  <<RowOf(c, i).net, RowOf(c, i).ieee>> # <<RowOf(d, i).net, RowOf(d, i).ieee>>
  <2>1. Selected(d, i) # Selected(c, i) BY <1>2 DEF Alone
  <2>2. RowOf(c, i) # RowOf(d, i) BY <2>1, <1>1
  <2> QED BY <2>2, <1>1 DEF InventoryUsable
<1>3. Resolved(s, i) = {Row(c, RowOf(c, i)) : c \in alone}
  BY <1>1 DEF Resolved
<1> QED BY <1>1, <1>2, <1>3

\* A resolution never makes the payload raise: no Core device, registry
\* device or entity is named twice.
LEMMA NothingTwice ==
    ASSUME NEW s, NEW i, IsFiniteSet(i), InventoryUsable(i)
    PROVE  ~PayloadRaises(Resolve(s, i).devices)
<1> DEFINE all == Resolved(s, i)
<1>1. Resolve(s, i).devices = Unconflicted(all) BY ResolveParts
<1> SUFFICES ASSUME NEW p \in Unconflicted(all), NEW q \in Unconflicted(all), p # q
             PROVE  /\ <<p.net, p.ieee>> # <<q.net, q.ieee>>
                    /\ p.id # q.id
                    /\ ~(p.entity # None /\ p.entity = q.entity)
  BY <1>1 DEF PayloadRaises
<1>2. p \in all /\ q \in all BY DEF Unconflicted
<1>3. PICK c \in Alone(Claims(s, i), i) : p = Row(c, RowOf(c, i)) BY <1>2, RowsAreOwn
<1>4. PICK d \in Alone(Claims(s, i), i) : q = Row(d, RowOf(d, i)) BY <1>2, RowsAreOwn
<1>5. <<p.net, p.ieee>> # <<q.net, q.ieee>>
  <2>1. c # d BY <1>3, <1>4
  <2>2. /\ p.net = RowOf(c, i).net /\ p.ieee = RowOf(c, i).ieee
        /\ q.net = RowOf(d, i).net /\ q.ieee = RowOf(d, i).ieee
    BY <1>3, <1>4 DEF Row
  <2> QED BY <2>1, <2>2, RowsAreOwn
<1> QED BY <1>2, <1>5 DEF Unconflicted

\* The counts of a resolution add up to its candidates.
LEMMA CountsAddUp ==
    ASSUME NEW s, IsSnapshot(s), NEW i, IsFiniteSet(i), InventoryUsable(i)
    PROVE  LET b == Resolve(s, i)
           IN  b.submitted = Cardinality(b.devices) + b.unmatched + b.ambiguous
<1> DEFINE cands == s.candidates
           known == Known(s, i)
           claims == Claims(s, i)
           alone == Alone(claims, i)
           all == Resolved(s, i)
           posted == Unconflicted(all)
           own == [c \in alone |-> Row(c, RowOf(c, i))]
<1>1. known \subseteq cands /\ claims \subseteq known /\ alone \subseteq claims
  <2>1. claims \subseteq known
    BY SelectsOne DEF Claims, Known
  <2> QED BY <2>1 DEF Known, Alone
<1>2. IsFiniteSet(cands) /\ IsFiniteSet(known) /\ IsFiniteSet(claims) /\ IsFiniteSet(alone)
  <2>1. IsFiniteSet(cands) BY DEF IsSnapshot
  <2>2. IsFiniteSet(known) BY <1>1, <2>1, FS_Subset
  <2>3. IsFiniteSet(claims) BY <1>1, <2>2, FS_Subset
  <2>4. IsFiniteSet(alone) BY <1>1, <2>3, FS_Subset
  <2> QED BY <2>1, <2>2, <2>3, <2>4
<1>3. /\ Cardinality(cands \ known) = Cardinality(cands) - Cardinality(known)
      /\ Cardinality(known \ claims) = Cardinality(known) - Cardinality(claims)
      /\ Cardinality(claims \ alone) = Cardinality(claims) - Cardinality(alone)
  <2>1. ASSUME NEW S, IsFiniteSet(S), NEW T \in SUBSET S
        PROVE  Cardinality(S \ T) = Cardinality(S) - Cardinality(T)
    <3>1. S \cap T = T OBVIOUS
    <3> QED BY <2>1, <3>1, FS_Difference
  <2> QED BY <1>1, <1>2, <2>1
<1>4. IsFiniteSet(all) /\ Cardinality(all) = Cardinality(alone)
  <2>1. own \in Surjection(alone, all)
    BY RowsAreOwn DEF Surjection
  <2>2. own \in Injection(alone, all)
    <3> SUFFICES ASSUME NEW c \in alone, NEW d \in alone, own[c] = own[d]
                 PROVE  c = d
      BY <2>1 DEF Injection, Surjection, IsInjective
    <3>1. Row(c, RowOf(c, i)) = Row(d, RowOf(d, i)) OBVIOUS
    <3>2. RowOf(c, i).net = RowOf(d, i).net /\ RowOf(c, i).ieee = RowOf(d, i).ieee
      BY <3>1 DEF Row
    <3> QED BY <3>2, RowsAreOwn
  <2> QED BY <1>2, <2>1, <2>2, FS_Surjection
<1>5. IsFiniteSet(posted)
  BY <1>4, FS_Subset, posted \in SUBSET all DEF Unconflicted
<1>6. /\ Cardinality(cands) \in Nat /\ Cardinality(known) \in Nat /\ Cardinality(claims) \in Nat
      /\ Cardinality(alone) \in Nat /\ Cardinality(all) \in Nat /\ Cardinality(posted) \in Nat
  BY <1>2, <1>4, <1>5, FS_CardinalityType
<1>7. s.ambiguous \in Nat BY DEF IsSnapshot
<1>8. /\ Resolve(s, i).devices = posted
      /\ Resolve(s, i).submitted = Cardinality(cands) + s.ambiguous
      /\ Resolve(s, i).unmatched = Cardinality(cands \ known)
      /\ Resolve(s, i).ambiguous =
           s.ambiguous + Cardinality(known \ claims) + Cardinality(claims \ alone)
           + Cardinality(all) - Cardinality(posted)
  BY ResolveParts
<1> HIDE DEF cands, known, claims, alone, all, posted, own
<1> QED BY <1>3, <1>4, <1>6, <1>7, <1>8

\* Registries that can be read give a finite snapshot.
LEMMA SnapshotIsFinite ==
    ASSUME NEW ds, IsFiniteSet(ds)
    PROVE  IsSnapshot(RegistrySnapshot(ds))
<1> DEFINE exact == {d \in ds : ExtractState(d) = "exact"}
           odd == {d \in ds : ExtractState(d) \in {"ambiguous", "invalid"}}
           cands == {Candidate(d) : d \in exact}
           f == [d \in exact |-> Candidate(d)]
<1>1. IsFiniteSet(exact) /\ IsFiniteSet(odd)
  BY FS_Subset, exact \in SUBSET ds, odd \in SUBSET ds
<1>2. f \in Surjection(exact, cands)
  BY DEF Surjection
<1>3. IsFiniteSet(cands) BY <1>1, <1>2, FS_Surjection
<1>4. Cardinality(odd) \in Nat BY <1>1, FS_CardinalityType
<1> QED BY <1>3, <1>4 DEF IsSnapshot, RegistrySnapshot

----------------------------------------------------------------------------
(* The inductive invariant *)

TypeOK ==
    /\ registry \in Registries /\ rows \in Inventories /\ contract \in Contracts
    /\ life \in {"new", "starting", "loading", "running", "unloading", "stopped", "removed"}
    /\ phase \in {"free", "top", "inventory", "publish", "end"}

\* A pass runs, and has words left to it, only while the entry is there; one
\* that waits for the inventory has read registries that could be read.
PassInv ==
    /\ life \in {"new", "stopped", "removed"} => phase = "free"
    /\ phase = "free" => ~pending
    /\ phase = "inventory" => seen \in Registries \ {Unavailable}

\* Nothing has told the manager of a change since the last pass began.
NoWord == Alive /\ ~debounce /\ ~pending

\* RestsOnTheLatest at every moment: a pass under way, and one that ended in
\* a success, has read the registries as they are unless word of a change
\* is still to be acted on.
LatestInv ==
    NoWord =>
        /\ phase \in {"inventory", "publish"} => seen = registry
        /\ phase \in {"end", "free"} /\ diag.state = "successful" => seen = registry

\* A snapshot that is published is the one the pass resolved, and a success
\* belongs to a pass whose snapshot Core accepted, or refused for good before.
MemoInv ==
    /\ phase = "publish" => resolved # None /\ resolved = build.devices
    /\ phase \in {"end", "free"} /\ diag.state = "successful" =>
           resolved # None /\ resolved \in {fingerprint, terminal}

\* What the issues are computed from.  An authentication failure stops the
\* polling, so no later failure can pass for an unreachable Core.
CoordInv ==
    /\ life \in {"starting", "loading", "running"} => data # None
    /\ life \in {"starting", "loading"} => success /\ ~authFailed
    /\ authFailed => ~success /\ ~polling
    /\ success \in BOOLEAN /\ authFailed \in BOOLEAN

IInv ==
    /\ TypeOK /\ PassInv /\ LatestInv /\ MemoInv /\ CoordInv
    /\ SnapshotWellFormed /\ RestsOnTheLatest /\ RepairsAreCurrent

\* The invariant holds before the integration is set up.
LEMMA InitInv == Init => IInv
<1> SUFFICES ASSUME Init PROVE IInv
  OBVIOUS
<1> USE DEF Init, ManagerInit
<1>1. TypeOK BY DEF TypeOK, Contracts
<1>2. PassInv BY DEF PassInv
<1>3. LatestInv BY DEF LatestInv, NoWord, Alive
<1>4. CoordInv /\ MemoInv BY DEF CoordInv, MemoInv, Failed, Diag
<1>5. SnapshotWellFormed BY DEF SnapshotWellFormed
<1>6. RestsOnTheLatest BY DEF RestsOnTheLatest, Alive
<1>7. RepairsAreCurrent BY DEF RepairsAreCurrent
<1> QED BY <1>1, <1>2, <1>3, <1>4, <1>5, <1>6, <1>7 DEF IInv

\* What an answer leaves: a well-formed answer, hence data, and a contract.
LEMMA Classified ==
    ASSUME NEW r \in Replies
    PROVE  Classify(r) # None /\ Classify(r).enrichment \in Contracts
<1>1. r \in Reply BY IntegrationAssumption
<1>2. Classify(r) \in Reply
  BY <1>1 DEF Classify, DecisionContract, EnrichmentContract, Reply, Contracts
<1> QED BY <1>2, IntegrationAssumption DEF Reply

\* A step is one of the manager's, one around the entry, one of the entry,
\* or none.
LEMMA StepCases ==
    ASSUME [Next]_vars
    PROVE  \/ ManagerStep /\ Pass
           \/ ManagerStep /\ Timers
           \/ Environment
           \/ EntryStep
           \/ UNCHANGED vars
BY DEF Next, ManagerStep, Timers

\* Every step keeps the types.
LEMMA TypeStep == IInv /\ [Next]_vars => TypeOK'
<1> SUFFICES ASSUME IInv, [Next]_vars PROVE TypeOK'
  OBVIOUS
<1> USE DEF TypeOK
<1>0. TypeOK BY DEF IInv
<1>1. CASE ManagerStep /\ Pass
  <2>1. CASE BeginPass BY <1>0, <2>1 DEF BeginPass, coreVars
  <2>2. CASE InventoryFails BY <1>0, <2>2 DEF InventoryFails, PassFails
  <2>3. CASE InventoryArrives BY <1>0, <2>3 DEF InventoryArrives, coreVars
  <2>4. CASE PublishFails BY <1>0, <2>4 DEF PublishFails, PassFails
  <2>5. CASE PublishSucceeds BY <1>0, <2>5 DEF PublishSucceeds
  <2>6. CASE EndPass BY <1>0, <2>6 DEF EndPass, coreVars
  <2> QED BY <1>1, <2>1, <2>2, <2>3, <2>4, <2>5, <2>6 DEF Pass
<1>2. CASE ManagerStep /\ Timers
  BY <1>0, <1>2 DEF Timers, RunDebounced, RunRetry, PeriodicReconciliation, Reconcile, coreVars
<1>3. CASE Environment
  BY <1>0, <1>3 DEF Environment, Surroundings, RegistryEvent, CoreDevicesChange, CoreForgets,
                    coreVars, passVars
<1>4. CASE EntryStep
  <2>1. CASE SetupEntry BY <1>0, <2>1, Classified DEF SetupEntry, Reconcile, coreVars
  <2>2. CASE FinishSetup BY <1>0, <2>2 DEF FinishSetup, coreVars, passVars
  <2>3. CASE UnloadEntry BY <1>0, <2>3 DEF UnloadEntry, coreVars, passVars
  <2>4. CASE StopManager BY <1>0, <2>4 DEF StopManager, Contracts
  <2>5. CASE Reload BY <1>0, <2>5 DEF Reload, coreVars, passVars
  <2>6. CASE RemoveEntry BY <1>0, <2>6 DEF RemoveEntry, passVars
  <2>7. CASE RefreshSucceeds BY <1>0, <2>7, Classified DEF RefreshSucceeds, Refreshed, coreVars, passVars
  <2>8. CASE RefreshFails BY <1>0, <2>8 DEF RefreshFails, Refreshed, coreVars, passVars
  <2>9. CASE RefreshUnauthorized BY <1>0, <2>9 DEF RefreshUnauthorized, Refreshed, coreVars, passVars
  <2> QED BY <1>4, <2>1, <2>2, <2>3, <2>4, <2>5, <2>6, <2>7, <2>8, <2>9 DEF EntryStep
<1>5. CASE UNCHANGED vars
  BY <1>0, <1>5 DEF vars, managerVars, coreVars, passVars
<1> QED BY <1>1, <1>2, <1>3, <1>4, <1>5, StepCases

\* Every step keeps what is known of a publication pass that runs.
LEMMA PassStep == IInv /\ [Next]_vars => PassInv'
<1> SUFFICES ASSUME IInv, [Next]_vars PROVE PassInv'
  OBVIOUS
<1> USE DEF PassInv
<1>0. TypeOK /\ PassInv BY DEF IInv
<1>1. CASE ManagerStep /\ Pass
  <2>1. CASE BeginPass BY <1>0, <2>1 DEF BeginPass, Alive, TypeOK
  <2>2. CASE InventoryFails BY <1>0, <2>2 DEF InventoryFails, PassFails
  <2>3. CASE InventoryArrives BY <1>0, <2>3 DEF InventoryArrives
  <2>4. CASE PublishFails BY <1>0, <2>4 DEF PublishFails, PassFails
  <2>5. CASE PublishSucceeds BY <1>0, <2>5 DEF PublishSucceeds
  <2>6. CASE EndPass BY <1>0, <2>6 DEF EndPass
  <2> QED BY <1>1, <2>1, <2>2, <2>3, <2>4, <2>5, <2>6 DEF Pass
<1>2. CASE ManagerStep /\ Timers
  BY <1>0, <1>2 DEF Timers, RunDebounced, RunRetry, PeriodicReconciliation, Reconcile, Alive
<1>3. CASE Environment
  BY <1>0, <1>3 DEF Environment, Surroundings, RegistryEvent, CoreDevicesChange, CoreForgets, passVars
<1>4. CASE EntryStep
  <2>1. CASE SetupEntry BY <1>0, <2>1 DEF SetupEntry, Reconcile
  <2>2. CASE FinishSetup BY <1>0, <2>2 DEF FinishSetup, passVars
  <2>3. CASE UnloadEntry BY <1>0, <2>3 DEF UnloadEntry, passVars
  <2>4. CASE StopManager BY <1>0, <2>4 DEF StopManager
  <2>5. CASE Reload BY <1>0, <2>5 DEF Reload, passVars
  <2>6. CASE RemoveEntry BY <1>0, <2>6 DEF RemoveEntry, passVars
  <2>7. CASE RefreshSucceeds BY <1>0, <2>7 DEF RefreshSucceeds, Refreshed, passVars
  <2>8. CASE RefreshFails BY <1>0, <2>8 DEF RefreshFails, Refreshed, passVars
  <2>9. CASE RefreshUnauthorized BY <1>0, <2>9 DEF RefreshUnauthorized, Refreshed, passVars
  <2> QED BY <1>4, <2>1, <2>2, <2>3, <2>4, <2>5, <2>6, <2>7, <2>8, <2>9 DEF EntryStep
<1>5. CASE UNCHANGED vars
  BY <1>0, <1>5 DEF vars, managerVars, passVars
<1> QED BY <1>1, <1>2, <1>3, <1>4, <1>5, StepCases

\* Every step keeps what is known of the latest registry state and of who will publish it.
LEMMA LatestStep == IInv /\ [Next]_vars => LatestInv'
<1> SUFFICES ASSUME IInv, [Next]_vars PROVE LatestInv'
  OBVIOUS
<1> USE DEF LatestInv, NoWord
<1>0. TypeOK /\ PassInv /\ LatestInv BY DEF IInv
<1>1. CASE ManagerStep /\ Pass
  <2>1. CASE BeginPass
    BY <1>0, <2>1 DEF BeginPass, Failed, Diag, ContractDiag, TypeOK, Contracts
  <2>2. CASE InventoryFails
    BY <1>0, <2>2 DEF InventoryFails, PassFails, Failed, Diag, InventoryState, ErrorClass, Endings, Alive
  <2>3. CASE InventoryArrives BY <1>0, <2>3 DEF InventoryArrives, Alive
  <2>4. CASE PublishFails
    BY <1>0, <2>4 DEF PublishFails, PassFails, Alive
  <2>5. CASE PublishSucceeds BY <1>0, <2>5 DEF PublishSucceeds, Alive
  <2>6. CASE EndPass BY <1>0, <2>6 DEF EndPass, Alive, memoVars
  <2> QED BY <1>1, <2>1, <2>2, <2>3, <2>4, <2>5, <2>6 DEF Pass
<1>2. CASE ManagerStep /\ Timers
  <2>1. CASE RunDebounced BY <1>0, <2>1 DEF RunDebounced, Reconcile, Alive
  <2>2. CASE RunRetry BY <1>0, <2>2 DEF RunRetry, Reconcile, Alive
  <2>3. CASE PeriodicReconciliation BY <1>0, <2>3 DEF PeriodicReconciliation, Reconcile, Alive, memoVars
  <2> QED BY <1>2, <2>1, <2>2, <2>3 DEF Timers
<1>3. CASE Environment
  <2>1. CASE RegistryEvent BY <1>0, <2>1 DEF RegistryEvent, RequestSync, Alive
  <2>2. CASE CoreDevicesChange BY <1>0, <2>2 DEF CoreDevicesChange, Alive, passVars, memoVars
  <2>3. CASE CoreForgets BY <1>0, <2>3 DEF CoreForgets, Alive, passVars, memoVars
  <2> QED BY <1>3, <2>1, <2>2, <2>3 DEF Environment, Surroundings
<1>4. CASE EntryStep
  <2>1. CASE SetupEntry BY <1>0, <2>1 DEF SetupEntry, Reconcile, PassInv
  <2>2. CASE FinishSetup BY <1>0, <2>2 DEF FinishSetup, Alive, passVars, memoVars
  <2>3. CASE UnloadEntry BY <1>0, <2>3 DEF UnloadEntry, Alive, passVars, memoVars
  <2>4. CASE StopManager BY <2>4 DEF StopManager, Alive
  <2>5. CASE Reload BY <2>5 DEF Reload, Alive
  <2>6. CASE RemoveEntry BY <2>6 DEF RemoveEntry, Alive
  <2>7. CASE RefreshSucceeds BY <2>7 DEF RefreshSucceeds, RequestSync
  <2>8. CASE RefreshFails
    BY <1>0, <2>8 DEF RefreshFails, RequestSync, Refreshed, Alive, passVars
  <2>9. CASE RefreshUnauthorized
    BY <1>0, <2>9 DEF RefreshUnauthorized, Refreshed, Alive, passVars, memoVars
  <2> QED BY <1>4, <2>1, <2>2, <2>3, <2>4, <2>5, <2>6, <2>7, <2>8, <2>9 DEF EntryStep
<1>5. CASE UNCHANGED vars
  BY <1>0, <1>5 DEF vars, managerVars, passVars, memoVars, Alive
<1> QED BY <1>1, <1>2, <1>3, <1>4, <1>5, StepCases

\* Every step keeps what is known of the snapshot a success belongs to.
LEMMA MemoStep == IInv /\ [Next]_vars => MemoInv'
<1> SUFFICES ASSUME IInv, [Next]_vars PROVE MemoInv'
  OBVIOUS
<1> USE DEF MemoInv
<1>0. TypeOK /\ PassInv /\ MemoInv BY DEF IInv
<1>1. CASE ManagerStep /\ Pass
  <2>1. CASE BeginPass
    BY <1>0, <2>1 DEF BeginPass, Failed, Diag, ContractDiag, TypeOK, Contracts
  <2>2. CASE InventoryFails
    BY <1>0, <2>2 DEF InventoryFails, PassFails, Failed, Diag, InventoryState, ErrorClass, Endings
  <2>3. CASE InventoryArrives
    <3>1. seen \in Registries \ {Unavailable} /\ rows \in Inventories
      BY <1>0, <2>3 DEF InventoryArrives, TypeOK, PassInv
    <3>2. BuildOf(seen, rows).devices # None BY <3>1, NoSnapshotAssumption
    <3>3. resolved' # None BY <2>3, <3>2 DEF InventoryArrives
    <3> QED BY <2>3, <3>3 DEF InventoryArrives, Diag
  <2>4. CASE PublishFails
    BY <2>4 DEF PublishFails, PassFails, Failed, Diag, PublishState, ErrorClass, Endings
  <2>5. CASE PublishSucceeds BY <1>0, <2>5 DEF PublishSucceeds, Failed, Diag
  <2>6. CASE EndPass BY <1>0, <2>6 DEF EndPass, memoVars
  <2> QED BY <1>1, <2>1, <2>2, <2>3, <2>4, <2>5, <2>6 DEF Pass
<1>2. CASE ManagerStep /\ Timers
  BY <1>0, <1>2 DEF Timers, RunDebounced, RunRetry, PeriodicReconciliation, Reconcile, memoVars
<1>3. CASE Environment
  BY <1>0, <1>3 DEF Environment, Surroundings, RegistryEvent, CoreDevicesChange, CoreForgets,
                    RequestSync, passVars, memoVars
<1>4. CASE EntryStep
  <2>1. CASE SetupEntry BY <1>0, <2>1 DEF SetupEntry, Reconcile, PassInv
  <2>2. CASE FinishSetup BY <1>0, <2>2 DEF FinishSetup, passVars, memoVars
  <2>3. CASE UnloadEntry BY <1>0, <2>3 DEF UnloadEntry, passVars, memoVars
  <2>4. CASE StopManager BY <2>4 DEF StopManager, Failed, Diag
  <2>5. CASE Reload BY <1>0, <2>5 DEF Reload, passVars, memoVars
  <2>6. CASE RemoveEntry BY <1>0, <2>6 DEF RemoveEntry, passVars, memoVars
  <2>7. CASE RefreshSucceeds
    BY <1>0, <2>7 DEF RefreshSucceeds, RequestSync, Refreshed, passVars, memoVars
  <2>8. CASE RefreshFails
    BY <1>0, <2>8 DEF RefreshFails, RequestSync, Refreshed, passVars, memoVars
  <2>9. CASE RefreshUnauthorized
    BY <1>0, <2>9 DEF RefreshUnauthorized, Refreshed, passVars, memoVars
  <2> QED BY <1>4, <2>1, <2>2, <2>3, <2>4, <2>5, <2>6, <2>7, <2>8, <2>9 DEF EntryStep
<1>5. CASE UNCHANGED vars
  BY <1>0, <1>5 DEF vars, managerVars, passVars, memoVars
<1> QED BY <1>1, <1>2, <1>3, <1>4, <1>5, StepCases

\* Every step keeps what is known of the coordinator's polls.
LEMMA CoordStep == IInv /\ [Next]_vars => CoordInv'
<1> SUFFICES ASSUME IInv, [Next]_vars PROVE CoordInv'
  OBVIOUS
<1> USE DEF CoordInv
<1>0. CoordInv BY DEF IInv
<1>1. CASE ManagerStep /\ Pass
  <2>1. UNCHANGED coordVars BY <1>1 DEF ManagerStep
  <2>2. CASE EndPass BY <1>0, <2>1, <2>2 DEF EndPass, coordVars
  <2>3. CASE ~EndPass
    <3>1. life' = life
      BY <1>1, <2>3 DEF Pass, BeginPass, InventoryFails, InventoryArrives, PublishFails,
                        PublishSucceeds, PassFails
    <3> QED BY <1>0, <2>1, <3>1 DEF coordVars
  <2> QED BY <2>2, <2>3
<1>2. CASE ManagerStep /\ Timers
  <2>1. UNCHANGED <<coordVars, life>>
    BY <1>2 DEF ManagerStep, Timers, RunDebounced, RunRetry, PeriodicReconciliation
  <2> QED BY <1>0, <2>1 DEF coordVars
<1>3. CASE Environment
  <2>1. UNCHANGED <<coordVars, life>>
    BY <1>3 DEF Environment, Surroundings, RegistryEvent, CoreDevicesChange, CoreForgets
  <2> QED BY <1>0, <2>1 DEF coordVars
<1>4. CASE EntryStep
  <2>1. CASE SetupEntry BY <2>1, Classified DEF SetupEntry
  <2>2. CASE FinishSetup BY <1>0, <2>2 DEF FinishSetup
  <2>3. CASE UnloadEntry BY <1>0, <2>3 DEF UnloadEntry
  <2>4. CASE StopManager BY <2>4 DEF StopManager
  <2>5. CASE Reload BY <1>0, <2>5 DEF Reload, coordVars
  <2>6. CASE RemoveEntry BY <1>0, <2>6 DEF RemoveEntry, coordVars
  <2>7. CASE RefreshSucceeds BY <2>7, Classified DEF RefreshSucceeds, Refreshed
  <2>8. CASE RefreshFails BY <1>0, <2>8 DEF RefreshFails, Refreshed
  <2>9. CASE RefreshUnauthorized BY <1>0, <2>9 DEF RefreshUnauthorized, Refreshed
  <2> QED BY <1>4, <2>1, <2>2, <2>3, <2>4, <2>5, <2>6, <2>7, <2>8, <2>9 DEF EntryStep
<1>5. CASE UNCHANGED vars
  BY <1>0, <1>5 DEF vars, managerVars, coordVars
<1> QED BY <1>1, <1>2, <1>3, <1>4, <1>5, StepCases

\* The snapshot that registries and an inventory resolve to is well formed.
LEMMA BuildIsWellFormed ==
    ASSUME NEW r \in Registries \ {Unavailable}, NEW i \in Inventories
    PROVE  LET b == BuildOf(r, i)
           IN  /\ ~PayloadRaises(b.devices)
               /\ b.submitted = Cardinality(b.devices) + b.unmatched + b.ambiguous
<1>1. IsFiniteSet(r) /\ IsFiniteSet(i) /\ InventoryUsable(i)
  BY ManagerAssumption
<1>2. BuildOf(r, i) = Resolve(RegistrySnapshot(r), i)
  BY DEF BuildOf
<1>3. IsSnapshot(RegistrySnapshot(r))
  BY <1>1, SnapshotIsFinite
<1> QED BY <1>1, <1>2, <1>3, NothingTwice, CountsAddUp

\* Every step keeps the snapshot about to be published well formed.
LEMMA SnapshotStep == IInv /\ [Next]_vars => SnapshotWellFormed'
<1> SUFFICES ASSUME IInv, [Next]_vars PROVE SnapshotWellFormed'
  OBVIOUS
<1>0. TypeOK /\ PassInv /\ SnapshotWellFormed BY DEF IInv
<1>1. CASE phase' = "publish" /\ phase = "publish" /\ build' = build
  BY <1>0, <1>1 DEF SnapshotWellFormed
<1>2. CASE phase' # "publish"
  BY <1>2 DEF SnapshotWellFormed
<1>3. CASE ManagerStep /\ Pass
  <2>1. CASE InventoryArrives
    <3> SUFFICES ASSUME phase' = "publish" PROVE SnapshotWellFormed'
      BY <1>2
    <3>1. phase = "inventory" /\ build' = BuildOf(seen, rows)
      BY <2>1 DEF InventoryArrives
    <3>2. seen \in Registries \ {Unavailable} /\ rows \in Inventories
      BY <1>0, <3>1 DEF TypeOK, PassInv
    <3> QED BY <3>1, <3>2, BuildIsWellFormed DEF SnapshotWellFormed
  <2>2. CASE ~InventoryArrives
    <3>1. phase' # "publish"
      BY <1>3, <2>2 DEF Pass, BeginPass, InventoryFails, PublishFails, PublishSucceeds, EndPass,
                        PassFails
    <3> QED BY <1>2, <3>1
  <2> QED BY <2>1, <2>2
<1>4. CASE ~(ManagerStep /\ Pass)
  <2>1. phase' # "publish" \/ (phase' = phase /\ build' = build)
    <3>1. CASE ManagerStep /\ Timers
      BY <3>1 DEF Timers, RunDebounced, RunRetry, PeriodicReconciliation, Reconcile
    <3>2. CASE Environment
      BY <3>2 DEF Environment, Surroundings, RegistryEvent, CoreDevicesChange, CoreForgets, passVars
    <3>3. CASE EntryStep
      BY <3>3 DEF EntryStep, SetupEntry, Reconcile, FinishSetup, UnloadEntry, StopManager, Reload,
                  RemoveEntry, RefreshSucceeds, RefreshFails, RefreshUnauthorized, passVars
    <3>4. CASE UNCHANGED vars
      BY <3>4 DEF vars, managerVars, passVars
    <3> QED BY <1>4, <3>1, <3>2, <3>3, <3>4, StepCases
  <2> QED BY <1>1, <1>2, <2>1
<1> QED BY <1>3, <1>4

\* An issue set computed from an answer does not depend on the issues before,
\* and one computed without an answer keeps no issue about compatibility.
LEMMA IssuesOf ==
    ASSUME NEW old, NEW d, NEW g
    PROVE  /\ d # None => ManageRepairs(old, TRUE, FALSE, d, g) = ManageRepairs({}, TRUE, FALSE, d, g)
           /\ LET lost == ManageRepairs(old, FALSE, FALSE, d, g)
              IN  "core_unreachable" \in lost /\ lost \cap Compatibility = {}
           /\ LET denied == ManageRepairs(old, FALSE, TRUE, d, g)
              IN  "core_unreachable" \notin denied /\ denied \cap Compatibility = {}
BY DEF ManageRepairs, Compatibility

\* The issues of a running entry, computed anew from what is known now.
LEMMA ComputedIsCurrent ==
    ASSUME NEW old, life' = "running", success' \in BOOLEAN, authFailed' \in BOOLEAN,
           success' => ~authFailed' /\ data' # None,
           issues' = ManageRepairs(old, success', authFailed', data', diag')
    PROVE  RepairsAreCurrent'
<1>1. CASE success' = TRUE /\ authFailed' = FALSE
  <2>1. issues' = ManageRepairs({}, TRUE, FALSE, data', diag')
    BY <1>1, IssuesOf
  <2> QED BY <1>1, <2>1 DEF RepairsAreCurrent
<1>2. CASE success' = FALSE /\ authFailed' = FALSE
  <2>1. issues' = ManageRepairs(old, FALSE, FALSE, data', diag')
    BY <1>2
  <2> QED BY <1>2, <2>1, IssuesOf DEF RepairsAreCurrent
<1>3. CASE success' = FALSE /\ authFailed' = TRUE
  <2>1. issues' = ManageRepairs(old, FALSE, TRUE, data', diag')
    BY <1>3
  <2> QED BY <1>3, <2>1, IssuesOf DEF RepairsAreCurrent
<1> QED BY <1>1, <1>2, <1>3

\* Every step keeps the repair issues those of the last poll.
LEMMA RepairsStep == IInv /\ [Next]_vars => RepairsAreCurrent'
<1> SUFFICES ASSUME IInv, [Next]_vars PROVE RepairsAreCurrent'
  OBVIOUS
<1>0. CoordInv /\ RepairsAreCurrent BY DEF IInv
<1>00. CoordInv' BY CoordStep
<1>1. CASE ManagerStep
  <2>1. UNCHANGED coordVars BY <1>1 DEF ManagerStep
  <2>2. issues' = IF life = "running" /\ diag' # diag
                  THEN ManageRepairs(issues, success, authFailed, data, diag') ELSE issues
    BY <1>1 DEF ManagerStep, DiagnosticsCallback
  <2>3. life' = "running" <=> life = "running"
    BY <1>1 DEF ManagerStep, Pass, BeginPass, InventoryFails, InventoryArrives, PublishFails,
                PublishSucceeds, PassFails, EndPass, RunDebounced, RunRetry, PeriodicReconciliation
  <2>4. CASE life = "running" /\ diag' # diag
    <3>1. issues' = ManageRepairs(issues, success', authFailed', data', diag')
      BY <2>1, <2>2, <2>4 DEF coordVars
    <3>2. life' = "running" BY <2>3, <2>4
    <3> QED BY <1>00, <3>1, <3>2, ComputedIsCurrent DEF CoordInv
  <2>5. CASE life = "running" /\ diag' = diag
    <3>1. UNCHANGED <<issues, success, authFailed, data, diag>>
      BY <2>1, <2>2, <2>5 DEF coordVars
    <3> QED BY <1>0, <2>3, <2>5, <3>1 DEF RepairsAreCurrent
  <2>6. CASE life # "running"
    <3>1. issues' = {} BY <1>0, <2>2, <2>6 DEF RepairsAreCurrent
    <3> QED BY <2>3, <2>6, <3>1 DEF RepairsAreCurrent
  <2> QED BY <2>4, <2>5, <2>6
<1>2. CASE Environment
  <2>1. UNCHANGED <<coordVars, issues, life, diag>>
    BY <1>2 DEF Environment, Surroundings, RegistryEvent, CoreDevicesChange, CoreForgets, memoVars
  <2> QED BY <1>0, <2>1 DEF RepairsAreCurrent, coordVars
<1>3. CASE EntryStep
  <2>1. CASE SetupEntry BY <1>0, <2>1 DEF SetupEntry, RepairsAreCurrent
  <2>2. CASE FinishSetup
    <3>1. issues' = ManageRepairs(issues, success', authFailed', data', diag')
      BY <2>2 DEF FinishSetup, memoVars
    <3> QED BY <1>00, <2>2, <3>1, ComputedIsCurrent DEF FinishSetup, CoordInv
  <2>3. CASE UnloadEntry BY <2>3 DEF UnloadEntry, RepairsAreCurrent
  <2>4. CASE StopManager BY <1>0, <2>4 DEF StopManager, RepairsAreCurrent
  <2>5. CASE Reload BY <1>0, <2>5 DEF Reload, RepairsAreCurrent
  <2>6. CASE RemoveEntry BY <1>0, <2>6 DEF RemoveEntry, RepairsAreCurrent
  <2>7. CASE RefreshSucceeds
    <3>1. /\ life' = "running"
          /\ issues' = ManageRepairs(issues, success', authFailed', data', diag')
      BY <2>7 DEF RefreshSucceeds, Refreshed
    <3> QED BY <1>00, <3>1, ComputedIsCurrent DEF CoordInv
  <2>8. CASE RefreshFails
    <3>1. life' = "running" /\ life = "running" /\ success' = FALSE /\ authFailed' = FALSE
      BY <2>8 DEF RefreshFails, Refreshed
    <3>2. CASE success
      <4>1. issues' = ManageRepairs(issues, success', authFailed', data', diag')
        BY <2>8, <3>1, <3>2 DEF RefreshFails
      <4> QED BY <1>00, <3>1, <4>1, ComputedIsCurrent DEF CoordInv
    <3>3. CASE ~success
      <4>1. issues' = issues /\ ~authFailed
        BY <1>0, <2>8, <3>3 DEF RefreshFails, Refreshed, CoordInv
      <4> QED BY <1>0, <3>1, <3>3, <4>1 DEF RepairsAreCurrent
    <3> QED BY <3>2, <3>3
  <2>9. CASE RefreshUnauthorized
    <3>1. /\ life' = "running"
          /\ issues' = ManageRepairs(issues, success', authFailed', data', diag')
      BY <2>9 DEF RefreshUnauthorized, Refreshed, memoVars
    <3> QED BY <1>00, <3>1, ComputedIsCurrent DEF CoordInv
  <2> QED BY <1>3, <2>1, <2>2, <2>3, <2>4, <2>5, <2>6, <2>7, <2>8, <2>9 DEF EntryStep
<1>4. CASE UNCHANGED vars
  BY <1>0, <1>4 DEF vars, managerVars, coordVars, memoVars, RepairsAreCurrent
<1> QED BY <1>1, <1>2, <1>3, <1>4 DEF Next

\* The invariant is inductive; at rest it says what RestsOnTheLatest says.
LEMMA InductiveStep == IInv /\ [Next]_vars => IInv'
<1> SUFFICES ASSUME IInv, [Next]_vars PROVE IInv'
  OBVIOUS
<1>1. TypeOK' /\ PassInv' /\ LatestInv' /\ MemoInv' BY TypeStep, PassStep, LatestStep, MemoStep
<1>2. RestsOnTheLatest' BY <1>1 DEF RestsOnTheLatest, PassInv, LatestInv, MemoInv, NoWord
<1> QED BY <1>1, <1>2, CoordStep, SnapshotStep, RepairsStep DEF IInv

----------------------------------------------------------------------------
(* Theorems *)

\* Whatever the registries, Core's devices and its answers are, and however
\* the callbacks fall between each other, the invariant holds.
THEOREM Invariance == Spec => []IInv
BY InitInv, InductiveStep, PTL DEF Spec

\* The variables of the manager and of the entry keep their types.
THEOREM TypeCorrect == Spec => []TypeOK
<1>1. IInv => TypeOK BY DEF IInv
<1> QED BY Invariance, <1>1, PTL

\* A snapshot that is posted to Core names no Core device, registry device or
\* entity twice, and its counts add up to the candidates of the registries:
\* neither enrichment_request_payload nor _completed_outcome can raise on what
\* resolve_home_assistant_enrichment has built, for any readable registries
\* and any usable inventory.
THEOREM SnapshotsAreSound == Spec => []SnapshotWellFormed
<1>1. IInv => SnapshotWellFormed BY DEF IInv
<1> QED BY Invariance, <1>1, PTL

\* A manager that rests after a success has read the registries that Home
\* Assistant has now, so that no registry event is lost to a pass under way,
\* to the debounce timer or to a retry; and Core has accepted all of what they
\* resolved to, or had refused exactly that for good before.
THEOREM NoEventIsLost == Spec => []RestsOnTheLatest
<1>1. IInv => RestsOnTheLatest BY DEF IInv
<1> QED BY Invariance, <1>1, PTL

\* The repair issues of a running entry are those of what the coordinator and
\* the manager last learned, and an entry that is not running has none.
THEOREM IssuesAreCurrent == Spec => []RepairsAreCurrent
<1>1. IInv => RepairsAreCurrent BY DEF IInv
<1> QED BY Invariance, <1>1, PTL
=============================================================================
