---------------------------- MODULE CandidateSearch ----------------------------
(***************************************************************************)
(* How schedule_locked chooses the resources of a placement: it filters    *)
(* the resources of every requirement, orders and prunes the candidates,   *)
(* walks their combinations depth first under a bound, and keeps the best  *)
(* valid ones.  SchedulerEngine leaves that choice open; here the state is *)
(* that of one search, with its recursion as an explicit path.             *)
(*                                                                         *)
(* A problem is a request with the resources the engine knows.  Identities *)
(* are positions: their text has a fixed width, so it orders like numbers. *)
(* Factor values are multiples of 1/16, enough for the quarters, eighths   *)
(* and sixteenths of the topology distance.  Owner stands for the worker,  *)
(* boot and generation of a resource, suited for the factors that look at  *)
(* one resource's own data (accelerator fit, model warmth, simulator       *)
(* readiness).  The tests that compare its attributes with what the        *)
(* requirement names are reduced to their verdicts: misfit is the reason   *)
(* of its class, if any, barred are the reasons of the other tests.        *)
(***************************************************************************)
EXTENDS Integers, FiniteSets, SequencesExt

CONSTANT Problems       \* the problems a search may be given

FactorUnit == 16        \* 1.0 in fixed point
MaxWeight == 1000
NoScore == -100000000   \* below every score

RankingFactors == {"Occupancy", "ResidualCapacity", "Suitability", "Fragmentation", "Reuse",
                   "Locality", "DatasetLocality", "TopologyDistance", "Fairness", "Priority"}

(* In the order of the enumeration; of the misfits, only those of readiness. *)
RejectReasons == <<
    "CapabilityMismatch", "CapacityExhausted", "MemoryExhausted", "OccupancyExceeded",
    "HealthRejected", "HealthUnknown", "EvidenceStale", "EvidenceNotAuthoritative",
    "ResourceRetired", "TopologyMismatch", "ModelNotResident", "SimulatorNotReady",
    "EnvironmentNotReady", "ExclusivityConflict", "TenantViolation", "AllowlistExcluded",
    "DenylistExcluded", "AffinityViolation", "AntiAffinityViolation", "AlreadySelected",
    "Unsupported", "WorkerIncarnationStale" >>

(***************************************************************************)
(* What the validation of requests and advertisements guarantees.  The     *)
(* last two conjuncts of a request hold in every configuration that the    *)
(* repository has: there is room for one ranked selection, and no score    *)
(* of a request reaches the initial best.                                  *)
(***************************************************************************)
ResourceOK(resource) ==
    /\ resource.slots \in Nat \ {0}
    /\ resource.occupied \in Nat
    /\ resource.suited \in 0..FactorUnit
    /\ resource.reused \in BOOLEAN

RequestOK(request) ==
    /\ Len(request.resources) \in Nat /\ DOMAIN request.resources = 1..Len(request.resources)
    /\ \A r \in DOMAIN request.resources : ResourceOK(request.resources[r])
    /\ Len(request.requirements) \in Nat \ {0}
    /\ \A i \in 1..Len(request.requirements) : request.requirements[i].slots \in Nat \ {0}
    /\ request.weights \in [RankingFactors -> -MaxWeight..MaxWeight]
    /\ request.fairness \in 0..FactorUnit
    /\ request.priority \in 0..FactorUnit
    /\ request.limits.candidates \in Nat
    /\ request.limits.evaluated \in Nat
    /\ request.limits.ranked \in Nat \ {0}
    /\ Len(request.requirements) * 10 * MaxWeight * FactorUnit < -NoScore

ASSUME ProblemsAssumption == \A request \in Problems : RequestOK(request)

VARIABLES
    problem,        \* the request and the resources, fixed
    phase,          \* "filter", "search", "choose" or "done"
    plans,          \* the candidates of the requirements filtered so far
    path,           \* the candidates taken from the first plans: current, and the recursion
    cursor,         \* 0 on entry of a node, else the next candidate of its loop
    evaluations,
    truncated,
    bestRaw,
    ranked,         \* the valid selections kept so far
    rejections,     \* how often each reason refused a complete selection
    result

searchVars == <<problem, phase, plans, path, cursor, evaluations, truncated, bestRaw, ranked,
                rejections, result>>

(* The sum of a sequence of integers. *)
Total(values) ==
    LET sum[i \in 0..Len(values)] == IF i = 0 THEN 0 ELSE sum[i - 1] + values[i]
    IN  sum[Len(values)]

-----------------------------------------------------------------------------
(***************************************************************************)
(* Eligibility of one resource, with the reasons against it in the order   *)
(* of the code.                                                            *)
(***************************************************************************)
Exclusively(request, requirement, resource) ==
    requirement.exclusive \/ request.exclusive \/ resource.sharing = "Exclusive"

SlotsOf(request, requirement, resource) ==
    IF Exclusively(request, requirement, resource) THEN resource.slots ELSE requirement.slots

Check(reason, fails) == [reason |-> reason, fails |-> fails]

Bar(resource, reason) == Check(reason, reason \in resource.barred)

Reasons(request, requirement, resource) ==
    LET slots == SlotsOf(request, requirement, resource)
        stale == requirement.evidence /\ ~ resource.authoritative
        failed == SelectSeq(<<
            Bar(resource, "AllowlistExcluded"),
            Bar(resource, "DenylistExcluded"),
            Check("ResourceRetired", resource.lifecycle = "Retired"),
            Check("WorkerIncarnationStale", resource.lifecycle = "Lost"),
            Check("EvidenceStale", stale /\ resource.lifecycle = "Registered"),
            Check("EvidenceNotAuthoritative", stale /\ resource.lifecycle # "Registered"),
            Bar(resource, "TenantViolation"),
            Bar(resource, "CapabilityMismatch"),
            Check("HealthUnknown", resource.health < requirement.health /\ resource.health = 1),
            Check("HealthRejected", resource.health < requirement.health /\ resource.health # 1),
            Bar(resource, "Unsupported"),
            Bar(resource, "TopologyMismatch"),
            Check(resource.misfit, resource.misfit # "None"),
            Check("ExclusivityConflict",
                  Exclusively(request, requirement, resource) /\ resource.occupied # 0),
            Check("CapacityExhausted", resource.occupied + slots > resource.slots),
            Bar(resource, "MemoryExhausted"),
            Check("OccupancyExceeded",
                  (resource.occupied + slots) * 100 > resource.slots * requirement.percent) >>,
            LAMBDA check : check.fails)
        kept == IF Len(failed) > request.limits.reasons THEN request.limits.reasons ELSE Len(failed)
    IN  [i \in 1..kept |-> failed[i].reason]

(***************************************************************************)
(* The factors that look at one resource.                                  *)
(***************************************************************************)
ClampUnit(value) ==
    IF value < 0 THEN 0 ELSE IF value > FactorUnit THEN FactorUnit ELSE value

AdditiveValues(request, requirement, resource) ==
    LET slots == SlotsOf(request, requirement, resource)
        after == resource.occupied + slots
        residual == IF resource.slots > after THEN resource.slots - after ELSE 0
        splits == ~ Exclusively(request, requirement, resource) /\ residual \in 1..slots - 1
    IN  [Occupancy |-> ClampUnit(FactorUnit - (after * FactorUnit) \div resource.slots),
         ResidualCapacity |-> ClampUnit((residual * FactorUnit) \div resource.slots),
         Suitability |-> resource.suited,
         Fragmentation |-> IF splits THEN 0 ELSE FactorUnit,
         Reuse |-> IF resource.reused THEN FactorUnit ELSE 0]

WeightedAdditive(request, v) ==
    LET w == request.weights
    IN  v.Occupancy * w.Occupancy + v.ResidualCapacity * w.ResidualCapacity
        + v.Suitability * w.Suitability + v.Fragmentation * w.Fragmentation + v.Reuse * w.Reuse

Candidate(request, requirement, r) ==
    LET resource == request.resources[r]
        additive == AdditiveValues(request, requirement, resource)
    IN  [resource |-> r,
         slots |-> SlotsOf(request, requirement, resource),
         exclusive |-> Exclusively(request, requirement, resource),
         additive |-> additive,
         partial |-> WeightedAdditive(request, additive)]

(***************************************************************************)
(* The plan of a requirement: its eligible resources by descending partial *)
(* score, one for each key, no more than the limit.                        *)
(***************************************************************************)
(* Slip: the key leaves the place of a resource out. *)
KeyWithoutPlace(request, candidate) ==
    <<candidate.additive, candidate.slots, candidate.exclusive,
      request.resources[candidate.resource].owner>>

InterchangeabilityKey(request, candidate) ==
    LET resource == request.resources[candidate.resource]
    IN  <<candidate.additive, candidate.slots, candidate.exclusive,
          resource.place["Host"], resource.place["Rack"], resource.place["Cluster"],
          resource.owner>>

Considered(request, requirement) ==
    {r \in DOMAIN request.resources : request.resources[r].class = requirement.class}

EligibleCandidates(request, requirement) ==
    {Candidate(request, requirement, r) :
        r \in {x \in Considered(request, requirement) :
                  Reasons(request, requirement, request.resources[x]) = <<>>}}

Before(a, b) == a.partial > b.partial \/ (a.partial = b.partial /\ a.resource < b.resource)

Collapsed(request, candidates) ==
    {c \in candidates :
        ~ \E d \in candidates :
            Before(d, c) /\ InterchangeabilityKey(request, d) = InterchangeabilityKey(request, c)}

Ordered(candidates) ==
    CHOOSE s \in [1..Cardinality(candidates) -> candidates] :
        \A i, j \in DOMAIN s : i < j => Before(s[i], s[j])

Capped(request, candidates) ==
    IF Len(candidates) > request.limits.candidates
    THEN SubSeq(candidates, 1, request.limits.candidates) ELSE candidates

ReasonCounts(request, requirement) ==
    [reason \in ToSet(RejectReasons) |->
        Cardinality({r \in Considered(request, requirement) :
            reason \in ToSet(Reasons(request, requirement, request.resources[r]))})]

Plan(request, requirement) ==
    LET distinct == Ordered(Collapsed(request, EligibleCandidates(request, requirement)))
    IN  [candidates |-> Capped(request, distinct),
         capped |-> Len(distinct) > request.limits.candidates,
         counts |-> ReasonCounts(request, requirement)]

-----------------------------------------------------------------------------
(***************************************************************************)
(* A complete selection: one candidate for each requirement.               *)
(***************************************************************************)
Place(request, candidate, scope) == request.resources[candidate.resource].place[scope]

SameDomain(request, a, b, scope) ==
    Place(request, a, scope) # 0 /\ Place(request, a, scope) = Place(request, b, scope)

(* Separation cannot be proven from an unknown place. *)
ApartDomain(request, a, b, scope) ==
    /\ Place(request, a, scope) # 0
    /\ Place(request, b, scope) # 0
    /\ Place(request, a, scope) # Place(request, b, scope)

InGroup(request, selection, group) ==
    {i \in DOMAIN selection : request.requirements[i].group = group}

AffinityHolds(request, selection) ==
    \A c \in request.affinity :
        \A i \in InGroup(request, selection, c.a), j \in InGroup(request, selection, c.b) :
            SameDomain(request, selection[i], selection[j], c.scope)

AntiAffinityHolds(request, selection) ==
    \A c \in request.antiAffinity :
        \A i \in InGroup(request, selection, c.a), j \in InGroup(request, selection, c.b) :
            ApartDomain(request, selection[i], selection[j], c.scope)

ApartFromExperiment(request, selection) ==
    request.experimentAntiAffinity =>
        \A i \in DOMAIN selection : ~ request.resources[selection[i].resource].reused

Repeats(selection) ==
    \E i, j \in DOMAIN selection : i < j /\ selection[i].resource = selection[j].resource

SelectionFailure(request, selection) ==
    IF Repeats(selection) THEN "AlreadySelected"
    ELSE IF ~ AffinityHolds(request, selection) THEN "AffinityViolation"
    ELSE IF ~ AntiAffinityHolds(request, selection) \/ ~ ApartFromExperiment(request, selection)
         THEN "AntiAffinityViolation"
    ELSE IF request.exclusive /\ \E i \in DOMAIN selection : ~ selection[i].exclusive
         THEN "ExclusivityConflict"
    ELSE "None"

(***************************************************************************)
(* The factors that look at the whole selection.                           *)
(***************************************************************************)
KnownAt(request, selection, scope) ==
    {i \in DOMAIN selection : Place(request, selection[i], scope) # 0}

DomainCount(request, selection, scope) ==
    LET known == KnownAt(request, selection, scope)
    IN  Cardinality({Place(request, selection[i], scope) : i \in known})
        + Cardinality(DOMAIN selection \ known)

DominantHostShare(request, selection) ==
    LET Share(i) == Cardinality({j \in DOMAIN selection :
                        j = i \/ SameDomain(request, selection[i], selection[j], "Host")})
    IN  Max({Share(i) : i \in DOMAIN selection})

Locality(request, selection) ==
    IF Len(selection) = 1 THEN FactorUnit
    ELSE ClampUnit(((DominantHostShare(request, selection) - 1) * FactorUnit)
                   \div (Len(selection) - 1))

TopologyDistance(request, selection) ==
    ClampUnit(FactorUnit - (DomainCount(request, selection, "Host") - 1) * 4
                         - (DomainCount(request, selection, "Rack") - 1) * 2
                         - (DomainCount(request, selection, "Cluster") - 1))

DatasetLocality(request, selection) ==
    LET datasets == {i \in DOMAIN selection : request.requirements[i].class = "Dataset"}
        colocated == {i \in datasets : \E j \in DOMAIN selection \ datasets :
                         SameDomain(request, selection[j], selection[i], "Host")}
        local == {i \in datasets \ colocated : request.resources[selection[i].resource].local}
        remote == datasets \ (colocated \cup local)
    IN  IF datasets = {} THEN FactorUnit
        ELSE (Cardinality(colocated) * FactorUnit + Cardinality(local) * (FactorUnit \div 2)
              + Cardinality(remote) * (FactorUnit \div 4)) \div Cardinality(datasets)

CrossValues(request, selection) ==
    [Locality |-> Locality(request, selection),
     DatasetLocality |-> DatasetLocality(request, selection),
     TopologyDistance |-> TopologyDistance(request, selection),
     Fairness |-> request.fairness,
     Priority |-> request.priority]

WeightedCross(request, v) ==
    LET w == request.weights
    IN  v.Locality * w.Locality + v.DatasetLocality * w.DatasetLocality
        + v.TopologyDistance * w.TopologyDistance + v.Fairness * w.Fairness + v.Priority * w.Priority

Score(request, selection) ==
    Total([i \in DOMAIN selection |-> selection[i].partial])
    + Len(selection) * WeightedCross(request, CrossValues(request, selection))

(* The identities that break a tie, in ascending order.  A valid selection repeats none. *)
CanonicalResourceKey(selection) ==
    LET identities == {selection[i].resource : i \in DOMAIN selection}
    IN  CHOOSE s \in [1..Cardinality(identities) -> identities] :
            \A i, j \in DOMAIN s : i < j => s[i] < s[j]

Precedes(left, right) ==
    \E i \in DOMAIN left :
        left[i] < right[i] /\ \A j \in 1..i - 1 : left[j] = right[j]

CandidateIsBetter(left, right) ==
    \/ left.raw > right.raw
    \/ left.raw = right.raw /\ Precedes(left.tie, right.tie)

RankingCandidate(request, selection) ==
    [selection |-> selection, raw |-> Score(request, selection),
     tie |-> CanonicalResourceKey(selection)]

-----------------------------------------------------------------------------
(***************************************************************************)
(* The failure that is reported.                                           *)
(***************************************************************************)
ReasonPriority ==
    [WorkerIncarnationStale |-> 0, EvidenceNotAuthoritative |-> 1, EvidenceStale |-> 2,
     ResourceRetired |-> 3, ExclusivityConflict |-> 4, CapacityExhausted |-> 6,
     MemoryExhausted |-> 7, OccupancyExceeded |-> 8, HealthRejected |-> 9, HealthUnknown |-> 10,
     EnvironmentNotReady |-> 12, SimulatorNotReady |-> 13, TopologyMismatch |-> 14,
     AffinityViolation |-> 15, AntiAffinityViolation |-> 16, TenantViolation |-> 17,
     ModelNotResident |-> 18, CapabilityMismatch |-> 23, AllowlistExcluded |-> 24,
     DenylistExcluded |-> 24, AlreadySelected |-> 24, Unsupported |-> 24]

ErrorOf ==
    [None |-> "NoPlacement", AlreadySelected |-> "NoPlacement", AntiAffinityViolation |-> "NoPlacement",
     AllowlistExcluded |-> "NoPlacement", DenylistExcluded |-> "NoPlacement",
     CapabilityMismatch |-> "CapabilityMismatch", TenantViolation |-> "TenantViolation",
     CapacityExhausted |-> "CapacityExhausted", OccupancyExceeded |-> "CapacityExhausted",
     MemoryExhausted |-> "CapacityExhausted", Unsupported |-> "Unsupported",
     HealthRejected |-> "HealthRejected", HealthUnknown |-> "HealthRejected",
     EvidenceStale |-> "StaleResource", EvidenceNotAuthoritative |-> "StaleResource",
     ResourceRetired |-> "StaleResource", WorkerIncarnationStale |-> "StaleResource",
     AffinityViolation |-> "TopologyMismatch", TopologyMismatch |-> "TopologyMismatch",
     ModelNotResident |-> "ModelMismatch",
     SimulatorNotReady |-> "EnvironmentUnavailable", EnvironmentNotReady |-> "EnvironmentUnavailable",
     ExclusivityConflict |-> "ExclusivityConflict"]

(* The entries of the map of counts, which is ordered as the reasons are. *)
Counted(counts) == {i \in DOMAIN RejectReasons : counts[RejectReasons[i]] > 0}

(* Whether the next entry replaces the best one so far. *)
Outranks(reason, count, best) ==
    \/ count > best.count
    \/ /\ count = best.count
       /\ best.reason # "None"
       /\ ReasonPriority[reason] < best.priority

(* Slip: the priority of the best reason so far is never recorded. *)
DominantReasonForgetful(counts) ==
    MapThenFoldSet(LAMBDA reason, best :
                       IF Outranks(reason, counts[reason], best)
                       THEN [reason |-> reason, count |-> counts[reason], priority |-> best.priority]
                       ELSE best,
                   [reason |-> "None", count |-> 0, priority |-> 0],
                   LAMBDA i : RejectReasons[i], LAMBDA entries : Max(entries),
                   Counted(counts)).reason

DominantReason(counts) ==
    MapThenFoldSet(LAMBDA reason, best :
                       IF Outranks(reason, counts[reason], best)
                       THEN [reason |-> reason, count |-> counts[reason], priority |-> ReasonPriority[reason]]
                       ELSE best,
                   [reason |-> "None", count |-> 0, priority |-> 0],
                   LAMBDA i : RejectReasons[i], LAMBDA entries : Max(entries),
                   Counted(counts)).reason

NoPlacementDecision(counts) ==
    LET reason == DominantReason(counts)
    IN  [outcome |-> "NoPlacement", reason |-> reason, failure |-> ErrorOf[reason]]

-----------------------------------------------------------------------------
(***************************************************************************)
(* The search.                                                             *)
(***************************************************************************)
Undecided == [outcome |-> "Undecided"]

SearchInit ==
    /\ problem \in Problems
    /\ phase = "filter"
    /\ plans = <<>>
    /\ path = <<>>
    /\ cursor = 0
    /\ evaluations = 0
    /\ truncated = FALSE
    /\ bestRaw = NoScore
    /\ ranked = <<>>
    /\ rejections = [reason \in ToSet(RejectReasons) |-> 0]
    /\ result = Undecided

Requirements == Len(problem.requirements)

PlanRequirement ==
    /\ phase = "filter"
    /\ Len(plans) < Requirements
    /\ plans' = Append(plans, Plan(problem, problem.requirements[Len(plans) + 1]))
    /\ UNCHANGED <<problem, phase, path, cursor, evaluations, truncated, bestRaw, ranked,
                   rejections, result>>

Unsatisfied == {i \in DOMAIN plans : plans[i].candidates = <<>>}

RejectUnsatisfied ==
    /\ phase = "filter"
    /\ Len(plans) = Requirements
    /\ Unsatisfied # {}
    /\ phase' = "done"
    /\ result' = NoPlacementDecision(plans[Min(Unsatisfied)].counts)
    /\ UNCHANGED <<problem, plans, path, cursor, evaluations, truncated, bestRaw, ranked, rejections>>

BeginSearch ==
    /\ phase = "filter"
    /\ Len(plans) = Requirements
    /\ Unsatisfied = {}
    /\ phase' = "search"
    /\ UNCHANGED <<problem, plans, path, cursor, evaluations, truncated, bestRaw, ranked,
                   rejections, result>>

Entering == phase = "search" /\ cursor = 0
Exhausted == evaluations >= problem.limits.evaluated

StopSearch ==
    /\ Entering
    /\ Exhausted
    /\ truncated' = TRUE
    /\ phase' = "choose"
    /\ UNCHANGED <<problem, plans, path, cursor, evaluations, bestRaw, ranked, rejections, result>>

(* Back in the loop of the node above, at its next candidate. *)
ReturnToParent ==
    /\ path' = Front(path)
    /\ cursor' = Last(path) + 1

(* Slip: every valid selection is kept. *)
RankEverything(candidate) == ranked' = Append(ranked, candidate)

(* Slip: a full ranking keeps the selections that came first. *)
RankFirst(candidate) ==
    ranked' = IF Len(ranked) < problem.limits.ranked THEN Append(ranked, candidate) ELSE ranked

(* Keeps the best selections, as many as the limit allows. *)
Rank(candidate) ==
    LET worst == CHOOSE i \in DOMAIN ranked :
                    /\ \A j \in DOMAIN ranked : ~ CandidateIsBetter(ranked[i], ranked[j])
                    /\ \A j \in 1..i - 1 : CandidateIsBetter(ranked[j], ranked[i])
    IN  ranked' = IF Len(ranked) < problem.limits.ranked THEN Append(ranked, candidate)
                  ELSE IF CandidateIsBetter(candidate, ranked[worst])
                       THEN ReplaceAt(ranked, worst, candidate)
                  ELSE ranked

EvaluateSelection ==
    LET selection == [i \in DOMAIN path |-> plans[i].candidates[path[i]]]
        failure == SelectionFailure(problem, selection)
        candidate == RankingCandidate(problem, selection)
    IN  /\ Entering
        /\ ~ Exhausted
        /\ Len(path) = Requirements
        /\ evaluations' = evaluations + 1
        /\ IF failure # "None"
           THEN /\ rejections' = [rejections EXCEPT ![failure] = @ + 1]
                /\ UNCHANGED <<bestRaw, ranked>>
           ELSE /\ bestRaw' = IF candidate.raw > bestRaw THEN candidate.raw ELSE bestRaw
                /\ Rank(candidate)
                /\ UNCHANGED rejections
        /\ ReturnToParent
        /\ UNCHANGED <<problem, phase, plans, truncated, result>>

OpenRequirement ==
    /\ Entering
    /\ ~ Exhausted
    /\ Len(path) < Requirements
    /\ cursor' = 1
    /\ UNCHANGED <<problem, phase, plans, path, evaluations, truncated, bestRaw, ranked,
                   rejections, result>>

(* What the requirements after this one can add at most. *)
RemainingMax(index) ==
    Total([i \in 1..Requirements - index |-> plans[index + i].candidates[1].partial])

PositiveWeights ==
    LET Positive(weight) == IF weight > 0 THEN weight ELSE 0
        w == problem.weights
    IN  Positive(w.Locality) + Positive(w.DatasetLocality) + Positive(w.TopologyDistance)
        + Positive(w.Fairness) + Positive(w.Priority)

(* Slip: the factors of a selection are not counted once for each requirement. *)
CrossBoundOnce == PositiveWeights * FactorUnit

CrossBound == Requirements * PositiveWeights * FactorUnit

InLoop == phase = "search" /\ cursor > 0
Depth == Len(path) + 1
Candidates == plans[Depth].candidates

Partial == Total([i \in DOMAIN path |-> plans[i].candidates[path[i]].partial])

(* Candidates are in descending order: once one is hopeless, so are the rest. *)
Pruned == Partial + Candidates[cursor].partial + RemainingMax(Depth) + CrossBound < bestRaw

MoreCandidates == cursor <= Len(Candidates) /\ ~ Pruned

TryCandidate ==
    /\ InLoop
    /\ MoreCandidates
    /\ path' = Append(path, cursor)
    /\ cursor' = 0
    /\ UNCHANGED <<problem, phase, plans, evaluations, truncated, bestRaw, ranked, rejections, result>>

LeaveRequirement ==
    /\ InLoop
    /\ ~ MoreCandidates
    /\ path # <<>>
    /\ ReturnToParent
    /\ UNCHANGED <<problem, phase, plans, evaluations, truncated, bestRaw, ranked, rejections, result>>

FinishSearch ==
    /\ InLoop
    /\ ~ MoreCandidates
    /\ path = <<>>
    /\ phase' = "choose"
    /\ UNCHANGED <<problem, plans, path, cursor, evaluations, truncated, bestRaw, ranked,
                   rejections, result>>

(***************************************************************************)
(* The sort of the ranked selections leaves the order of equals open.      *)
(***************************************************************************)
ChooseSelection ==
    /\ phase = "choose"
    /\ phase' = "done"
    /\ \/ /\ ranked = <<>>
          /\ result' = NoPlacementDecision(rejections)
       \/ \E i \in DOMAIN ranked :
             /\ \A j \in DOMAIN ranked : ~ CandidateIsBetter(ranked[j], ranked[i])
             /\ result' = [outcome |-> "Placed", best |-> ranked[i]]
    /\ UNCHANGED <<problem, plans, path, cursor, evaluations, truncated, bestRaw, ranked, rejections>>

SearchNext ==
    \/ PlanRequirement \/ RejectUnsatisfied \/ BeginSearch
    \/ StopSearch \/ EvaluateSelection \/ OpenRequirement
    \/ TryCandidate \/ LeaveRequirement \/ FinishSearch
    \/ ChooseSelection

SearchSpec == SearchInit /\ [][SearchNext]_searchVars

-----------------------------------------------------------------------------
(***************************************************************************)
(* Reference: the best of all valid selections from given candidates.      *)
(***************************************************************************)
AllSelections(choices) ==
    {f \in [DOMAIN choices -> UNION {choices[i] : i \in DOMAIN choices}] :
        \A i \in DOMAIN choices : f[i] \in choices[i]}

ValidSelections(choices) ==
    {s \in AllSelections(choices) : SelectionFailure(problem, s) = "None"}

IsBestOf(choices) ==
    LET valid == {RankingCandidate(problem, s) : s \in ValidSelections(choices)}
    IN  IF valid = {} THEN result.outcome = "NoPlacement"
        ELSE /\ result.outcome = "Placed"
             /\ result.best \in valid
             /\ \A other \in valid : ~ CandidateIsBetter(other, result.best)

SearchedAll == phase = "done" /\ ~ truncated

(***************************************************************************)
(* What the search has behind it.  A walk is a complete path; the search   *)
(* goes through the walks in lexicographic order, so those behind it come  *)
(* before its path, or before the next candidate of its loop.              *)
(***************************************************************************)
Chosen(ps, f) == [i \in DOMAIN f |-> ps[i].candidates[f[i]]]

(* The walk agrees with the path that the search is on. *)
Follows(f, pth) == \A j \in DOMAIN pth : f[j] = pth[j]

Behind(f, pth, cur) ==
    \/ \E d \in DOMAIN pth : f[d] < pth[d] /\ \A j \in 1..d - 1 : f[j] = pth[j]
    \/ /\ Len(pth) + 1 \in DOMAIN f
       /\ f[Len(pth) + 1] < cur
       /\ Follows(f, pth)

LeftBehind ==
    {f \in [1..Requirements -> 1..problem.limits.candidates] :
        /\ \A i \in 1..Requirements : f[i] \in DOMAIN plans[i].candidates
        /\ Behind(f, path, cursor)}

SearchTypeOK ==
    /\ phase \in {"filter", "search", "choose", "done"}
    /\ Len(path) <= Len(plans)
    /\ Len(plans) <= Requirements
    /\ \A i \in DOMAIN path : path[i] \in DOMAIN plans[i].candidates
    /\ cursor \in Nat
    /\ evaluations <= problem.limits.evaluated
    /\ Len(ranked) <= problem.limits.ranked
    /\ ranked = <<>> <=> bestRaw = NoScore
    /\ result = Undecided <=> phase # "done"

(***************************************************************************)
(* A search that was not cut short finds the best valid combination of the *)
(* candidates it kept, or reports that there is none: the bound prunes     *)
(* nothing better, ties included, and the ranking drops only the worse.    *)
(***************************************************************************)
BestOfTheKept ==
    SearchedAll => IsBestOf([i \in DOMAIN plans |-> ToSet(plans[i].candidates)])

(***************************************************************************)
(* Wherever the search stops, also where its bound on evaluations cuts it  *)
(* short: what it places is a valid combination of the candidates it kept, *)
(* and none that it has behind it is better, those it pruned and those     *)
(* that fell out of the bounded ranking included.  It refuses only when    *)
(* none of them is valid.                                                  *)
(***************************************************************************)
BestOfTheSeen ==
    phase = "done" =>
        /\ result.outcome = "Placed" =>
              /\ result.best.selection \in
                    AllSelections([i \in DOMAIN plans |-> ToSet(plans[i].candidates)])
              /\ SelectionFailure(problem, result.best.selection) = "None"
              /\ result.best = RankingCandidate(problem, result.best.selection)
        /\ \A f \in LeftBehind :
              SelectionFailure(problem, Chosen(plans, f)) = "None" =>
                  /\ result.outcome = "Placed"
                  /\ ~ CandidateIsBetter(RankingCandidate(problem, Chosen(plans, f)), result.best)

(***************************************************************************)
(* engine_scheduling.cpp says that of the resources with the same key only *)
(* one can ever be selected, so that leaving out the others does not       *)
(* change the outcome: the search finds the best of all that is eligible.  *)
(***************************************************************************)
CollapseChangesNothing ==
    SearchedAll /\ (\A i \in DOMAIN plans : ~ plans[i].capped) =>
        IsBestOf([i \in 1..Requirements |->
                     EligibleCandidates(problem, problem.requirements[i])])

(***************************************************************************)
(* That holds when no two requirements ask for one class, constraints look *)
(* at the scopes that are part of the key, and datasets do not differ in   *)
(* their local copies; the key knows nothing of the rest.                  *)
(***************************************************************************)
Collapsible ==
    /\ \A i, j \in 1..Requirements : i # j => problem.requirements[i].class # problem.requirements[j].class
    /\ \A c \in problem.affinity \cup problem.antiAffinity : c.scope \in {"Host", "Rack", "Cluster"}
    /\ \A r, s \in DOMAIN problem.resources : problem.resources[r].local = problem.resources[s].local

CollapseKeepsTheBest == Collapsible => CollapseChangesNothing

(***************************************************************************)
(* A refusal names the most frequent reason against the first requirement  *)
(* without candidates, or against the combinations, and of several equally *)
(* frequent ones the one an operator can act on first.                     *)
(***************************************************************************)
FailureNamesTheClosestMiss ==
    phase = "done" /\ result.outcome = "NoPlacement" =>
        LET counts == IF Unsatisfied # {} THEN plans[Min(Unsatisfied)].counts ELSE rejections
            named == {reason \in DOMAIN counts :
                /\ counts[reason] > 0
                /\ \A x \in DOMAIN counts :
                      \/ counts[x] < counts[reason]
                      \/ counts[x] = counts[reason] /\ ReasonPriority[reason] <= ReasonPriority[x]}
        IN  IF named = {} THEN result.reason = "None" ELSE result.reason \in named
=============================================================================
