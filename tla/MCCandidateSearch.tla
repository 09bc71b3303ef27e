--------------------------- MODULE MCCandidateSearch ---------------------------
(***************************************************************************)
(* Families of small problems for TLC, each built around one thing that    *)
(* the search has to get right.                                            *)
(***************************************************************************)
EXTENDS CandidateSearch

At(host, rack, numa) == [Host |-> host, Rack |-> rack, Cluster |-> 1, Numa |-> numa]

Plain == [class |-> "Gpu", lifecycle |-> "Current", authoritative |-> TRUE, health |-> 3,
          slots |-> 2, occupied |-> 0, sharing |-> "Shared", place |-> At(1, 1, 1), owner |-> 1,
          suited |-> FactorUnit, misfit |-> "None", barred |-> {}, local |-> FALSE, reused |-> FALSE]

Needs(class, group) ==
    [class |-> class, slots |-> 1, exclusive |-> FALSE, evidence |-> TRUE, health |-> 2,
     percent |-> 100, group |-> group]

Wide == [candidates |-> 4, evaluated |-> 20, ranked |-> 4, reasons |-> 8]

Weights(own, spread, place) ==
    [Occupancy |-> own, ResidualCapacity |-> 0, Suitability |-> own, Fragmentation |-> own,
     Reuse |-> spread, Locality |-> place, DatasetLocality |-> 1, TopologyDistance |-> place,
     Fairness |-> 1, Priority |-> 2]

Simple(resources, requirements, weights) ==
    [resources |-> resources, requirements |-> requirements, weights |-> weights,
     affinity |-> {}, antiAffinity |-> {}, experimentAntiAffinity |-> FALSE,
     exclusive |-> FALSE, fairness |-> 8, priority |-> 8, limits |-> Wide]

Gpus(hosts) == {[Plain EXCEPT !.place = At(h, IF h = 0 THEN 0 ELSE 1, 1), !.suited = s] :
                   h \in hosts, s \in {0, 12}}
Datasets(hosts) == {[Plain EXCEPT !.class = "Dataset", !.place = At(h, 1, 1), !.local = l] :
                       h \in hosts, l \in BOOLEAN}

(* A GPU and a dataset, near or far, under weights that reward or punish it. *)
NearOrFar ==
    {Simple(<<g, h, d, e>>, <<Needs("Gpu", 0), Needs("Dataset", 0)>>, w) :
        g \in Gpus({0, 1, 2}), h \in Gpus({1, 2}), d \in Datasets({0, 1, 2}), e \in Datasets({1, 2}),
        w \in {Weights(1, 0, 1), Weights(-2, 1, 3), Weights(3, -1, -1)}}

(* Two GPUs out of three, with constraints between them and tight limits. *)
Loads == {[Plain EXCEPT !.place = At(h, 1, n), !.occupied = o, !.reused = o = 1] :
             h \in {1, 2}, n \in {0, 2}, o \in {0, 1}}
Pair == [a |-> 1, b |-> 2, scope |-> "Host"]
Numa == [a |-> 1, b |-> 2, scope |-> "Numa"]
Itself == [a |-> 1, b |-> 1, scope |-> "Numa"]

Constrained ==
    {[Simple(<<g, h, i>>, <<Needs("Gpu", 1), Needs("Gpu", 2)>>, Weights(1, 1, 2)) EXCEPT
        !.affinity = c.near, !.antiAffinity = c.far, !.experimentAntiAffinity = c.apart,
        !.exclusive = c.exclusive, !.limits = l] :
        g \in Loads, h \in Loads, i \in {l \in Loads : l.place["Host"] = 1},
        c \in {[near |-> {}, far |-> {}, apart |-> FALSE, exclusive |-> FALSE],
               [near |-> {Pair}, far |-> {Numa}, apart |-> TRUE, exclusive |-> FALSE],
               [near |-> {Itself}, far |-> {Pair}, apart |-> FALSE, exclusive |-> TRUE]},
        l \in {Wide, [Wide EXCEPT !.evaluated = 4, !.ranked = 1],
               [Wide EXCEPT !.candidates = 2, !.ranked = 1]}}

(* Twin GPUs on different NUMA nodes, one of them the node of the dataset. *)
Twins ==
    {[Simple(<<g, h, [Plain EXCEPT !.class = "Dataset", !.place = At(1, 1, n)]>>,
             <<Needs("Gpu", 1), Needs("Dataset", 2)>>, Weights(1, 1, 2)) EXCEPT !.affinity = {c}] :
        g \in Loads, h \in Loads, n \in {1, 2}, c \in {Pair, Numa}}

(* Three resources, most of them refused for one reason or another. *)
Defects ==
    {[Plain EXCEPT !.occupied = 2], [Plain EXCEPT !.health = 1], [Plain EXCEPT !.health = 0],
     [Plain EXCEPT !.sharing = "Exclusive", !.occupied = 1],
     [Plain EXCEPT !.lifecycle = "Registered", !.authoritative = FALSE],
     [Plain EXCEPT !.lifecycle = "Lost", !.authoritative = FALSE],
     [Plain EXCEPT !.lifecycle = "Retired", !.authoritative = FALSE],
     [Plain EXCEPT !.misfit = "ModelNotResident", !.class = "Model"],
     [Plain EXCEPT !.misfit = "SimulatorNotReady"],
     [Plain EXCEPT !.barred = {"DenylistExcluded", "MemoryExhausted"}],
     [Plain EXCEPT !.barred = {"CapabilityMismatch", "Unsupported", "TopologyMismatch"}],
     [Plain EXCEPT !.barred = {"AllowlistExcluded", "TenantViolation"}, !.occupied = 2], Plain}

Refused ==
    {[Simple(<<g, h, i>>, <<Needs("Gpu", 0)>>, Weights(1, 0, 1)) EXCEPT !.limits.reasons = n] :
        g \in Defects, h \in Defects, n \in {1, 8},
        i \in {d \in Defects : d.occupied = 2 \/ d.lifecycle # "Current"}}

(* Two GPUs that differ in nothing, and two requirements for one each. *)
TwinPairs ==
    {Simple(<<Plain, Plain>>, <<Needs("Gpu", 1), Needs("Gpu", 2)>>, w) :
        w \in {Weights(1, 0, 1), Weights(-2, 1, 3)}}

SearchProblems == NearOrFar \cup Constrained \cup Twins \cup Refused
=============================================================================
