--------------------------- MODULE RunConfiguration ---------------------------
(***************************************************************************)
(* The way of a run's configuration: create_run validates it against the   *)
(* manifests of the modules (runs_service.py, modules_validator.py),       *)
(* save_run turns the settings into objects and gives every execution node *)
(* to the module that configured it, and the worker's prepare_studies      *)
(* finds the modules of a human run's nodes again.  Algorithms can contain *)
(* channels of algorithms, to any depth; the validators look down to a     *)
(* fixed depth, the construction does not.                                 *)
(***************************************************************************)
EXTENDS Integers, Sequences, FiniteSets, SequencesExt

CONSTANTS Configs,          \* the configurations clients send
          Supported,        \* leaf algorithm -> the packet sizes it supports
          AnySize,          \* no restriction
          Null,             \* a setting or a channel whose value is null
          Omitted,          \* a setting that an algorithm leaves out
          MaxNestedDepth,   \* MAX_NESTED_DEPTH
          MaxFrequency      \* the largest crossfade frequency

VARIABLES config,
          stage,      \* of the request, and of the run it makes
          errors,     \* what the validation found
          hydrated,   \* the algorithms of the testbench
          nodeIds,    \* node_ids of the modules, per category
          conditions  \* the study's <<track, node id, index of the algorithm>>

vars == <<config, stage, errors, hydrated, nodeIds, conditions>>

-----------------------------------------------------------------------------
(* A configuration has simulators with a packet size, algorithms, output   *)
(* analysers, and the number of its tracks.  An algorithm is a tree: it    *)
(* has settings at << >>, and an AdvancedPLC at path p, whose channel b    *)
(* has bands[b] algorithms, has the i-th of them at Append(p, <<b, i>>).   *)
(* A leaf has its crossfades.  An algorithm is readable if what is left of *)
(* its settings, which the validation does not look at, can be read when   *)
(* it is built: no name, value or list of settings is missing in it or its *)
(* crossfades, it has no parameter more than its class, and no preset is   *)
(* null.  A configuration is complete if it has every category of modules. *)

Size == [n: Nat, int: BOOLEAN]     \* JSON 128 and 128.0
Advanced(m) == m.name = "AdvancedPLC"
Known(m) == Advanced(m) \/ m.name \in DOMAIN Supported

\* The places of the algorithms inside, and the names of the crossfades.
Lists(m) == {b \in DOMAIN m.bands : m.bands[b] # Null}
Nested(m) == IF Advanced(m) THEN UNION {{b} \X (1 .. m.bands[b]) : b \in Lists(m)} ELSE {}
Crossfades(m) == IF Advanced(m) \/ m.fades = Omitted THEN {} ELSE Range(m.fades.crossfade)

IsSettings(m) ==
    Advanced(m) =>
        /\ {"bands", "frequencies"} \subseteq DOMAIN m
        /\ \A b \in DOMAIN m.bands : m.bands[b] \in Nat \cup {Null}
        /\ m.frequencies = Null \/ \A b \in DOMAIN m.frequencies : m.frequencies[b] \in Seq(Int)

IsAlgorithm(t) ==
    /\ << >> \in DOMAIN t
    /\ \A p \in DOMAIN t :
          /\ p \in Seq(STRING \X Nat) /\ IsSettings(t[p])
          /\ \A place \in Nested(t[p]) : Append(p, place) \in DOMAIN t
          /\ \A k \in DOMAIN p : /\ SubSeq(p, 1, k - 1) \in DOMAIN t
                                /\ p[k] \in Nested(t[SubSeq(p, 1, k - 1)])

ASSUME ConfigurationAssumption ==
    /\ MaxNestedDepth \in Nat /\ MaxFrequency \in Nat
    /\ \A c \in Configs :
          /\ c.simulators \in Seq(Size) /\ c.outputs \in Seq(STRING) /\ c.tracks \in Nat
          /\ c.algorithms \in Seq(Range(c.algorithms)) /\ c.complete \in BOOLEAN
          /\ \A t \in Range(c.algorithms) : IsAlgorithm(t)

Complaint(wrong, kind) == IF wrong THEN {kind} ELSE {}
Stereo == {"dual_mono", "mid_side"}
KeySets == {{"linked"}, {"left", "right"}, {"mid", "side"}}

\* Definitions whose name starts with Wrong are plausible defects of the
\* definition that follows them.  No specification uses them: each is put in
\* the place of that definition to see that a property notices it.

-----------------------------------------------------------------------------
(* Validation *)

\* _validate_list and _validate_number: ascending, and each item in range.
ListErrors(list) ==
    Complaint(\E i \in 1 .. Len(list) - 1 : list[i] >= list[i + 1], "order")
    \cup Complaint(\E i \in DOMAIN list : list[i] < 0 \/ list[i] > MaxFrequency, "range")

\* keys_match: an empty mapping of frequencies is not compared.
KeysMatch(bands, frequencies) ==
    Complaint(\/ DOMAIN bands \notin KeySets
              \/ DOMAIN frequencies # {} /\ DOMAIN frequencies # DOMAIN bands, "keys")

\* per_key_length_relation: what has no length is not compared.
PerKeyLengths(frequencies, bands) ==
    Complaint(\E b \in DOMAIN frequencies \cap DOMAIN bands :
                  bands[b] # Null /\ Len(frequencies[b]) # bands[b] - 1, "lengths")

\* A value that is null or missing is accepted, but for mappings.
AdvancedErrors(m) ==
    Complaint(m.stereo \notin Stereo \cup {Null, Omitted}, "value")
    \cup IF m.frequencies = Null THEN {"mapping"} \cup KeysMatch(m.bands, << >>)
         ELSE KeysMatch(m.bands, m.frequencies) \cup PerKeyLengths(m.frequencies, m.bands)
              \cup UNION {ListErrors(m.frequencies[b]) : b \in DOMAIN m.frequencies}

\* length_relation of the crossfades and their frequencies.
LeafErrors(m) ==
    IF m.fades = Omitted THEN {}
    ELSE ListErrors(m.fades.frequencies)
         \cup Complaint(Len(m.fades.crossfade) # Len(m.fades.frequencies) + 1, "lengths")

\* _validate_nested is called below the maximal depth only.
GoesDeeper(depth) ==
    depth < MaxNestedDepth

\* validate_module, for one algorithm at a depth of the tree.
SettingsErrors(m, depth) ==
    IF ~Known(m) THEN {"unknown"}
    ELSE (IF Advanced(m) THEN AdvancedErrors(m) ELSE LeafErrors(m))
         \cup Complaint(GoesDeeper(depth) /\ "unknown" \in Crossfades(m), "unknown")

ModuleErrors(t) ==
    UNION {SettingsErrors(t[p], Len(p)) :
              p \in {q \in DOMAIN t : q = << >> \/ GoesDeeper(Len(q) - 1)}}

\* At the top the settings must be exactly those of the manifest.
TopErrors(t) ==
    LET m == t[<< >>]
    IN ModuleErrors(t)
       \cup Complaint(Known(m) /\ Omitted \in (IF Advanced(m) THEN {m.stereo, m.link} ELSE {m.fades}),
                      "parameters")

Humans(c) == {o \in DOMAIN c.outputs : c.outputs[o] = "HumanCalculator"}

HumanErrors(c) ==
    Complaint(Cardinality(Humans(c)) > 1, "humans")
    \cup Complaint(Humans(c) # {} /\ Len(c.simulators) # 1, "simulators")

WrongWithinReach(depth) == depth < MaxNestedDepth
WithinReach(depth) ==
    depth <= MaxNestedDepth

\* constrained_plcs: the restrictions of an algorithm and those inside it.
Restrictions(t) ==
    {Supported[t[p].name] :
        p \in {q \in DOMAIN t : WithinReach(Len(q)) /\ Known(t[q]) /\ ~Advanced(t[q])}} \ {AnySize}

\* A packet size that is no int is not compared.
PacketSizeErrors(c) ==
    LET sizes == {x.n : x \in {s \in Range(c.simulators) : s.int}}
    IN Complaint(\E t \in Range(c.algorithms) : \E r \in Restrictions(t) : ~(sizes \subseteq r),
                 "packet_size")

ConfigErrors(c) ==
    HumanErrors(c) \cup PacketSizeErrors(c)
    \cup Complaint(\E s \in Range(c.simulators) : s.n < 1, "range")
    \cup UNION {TopErrors(t) : t \in Range(c.algorithms)}

-----------------------------------------------------------------------------
(* Construction *)

\* The channels that _get_hydrated_module_settings does not skip.
Kept(m, b) ==
    /\ b \in UNION KeySets
    /\ m.stereo = "dual_mono" => b \in {"left", "right"}
    /\ m.stereo = "mid_side" => b \in {"mid", "side"}
    /\ m.link = TRUE => b = "linked"

WrongKeptFrequencies(m) == DOMAIN m.frequencies
KeptFrequencies(m) ==
    {b \in DOMAIN m.frequencies : Kept(m, b)}

HydrateSettings(m) ==
    IF Advanced(m)
    THEN [m EXCEPT !.bands = [b \in {c \in DOMAIN m.bands : Kept(m, c)} |-> m.bands[b]],
                   !.frequencies = [b \in KeptFrequencies(m) |-> m.frequencies[b]]]
    ELSE m

\* The algorithms inside the channels that are kept, all the way.
Built(t) ==
    {p \in DOMAIN t : \A k \in DOMAIN p : Kept(t[SubSeq(p, 1, k - 1)], p[k][1])}

Hydrate(t) ==
    [p \in Built(t) |-> HydrateSettings(t[p])]

\* An AdvancedPLC's settings raise if its frequencies are no mapping, if a setting
\* that decides which channels are kept is missing, or a channel that is kept is null.
ChannelsRaise(m) ==
    \/ m.frequencies = Null
    \/ /\ Omitted \in {m.stereo, m.link}
       /\ (DOMAIN m.bands \cup DOMAIN m.frequencies) \cap (UNION KeySets) # {}
    \/ \E b \in DOMAIN m.bands \ Lists(m) : Kept(m, b)

\* So do names that are no classes of the testbench, at any depth.
Raises(t) ==
    \E p \in Built(t) :
        \/ ~Known(t[p]) \/ "unknown" \in Crossfades(t[p]) \/ ~t[p].readable
        \/ Advanced(t[p]) /\ ChannelsRaise(t[p])

\* The nodes of one depth, in level order: the children of each parent in turn.
NextLevel(parents, count) ==
    [i \in 1 .. Len(parents) * count |->
        Append(parents[((i - 1) \div count) + 1], ((i - 1) % count) + 1)]

SimulatorNodes(c, track) == NextLevel(<<<<track>>>>, Len(c.simulators))
AlgorithmNodes(c, track) == NextLevel(SimulatorNodes(c, track), Len(c.algorithms))
Levels(c, track) ==
    <<SimulatorNodes(c, track), AlgorithmNodes(c, track),
      NextLevel(AlgorithmNodes(c, track), Len(c.outputs))>>

\* The testbench names a node by the settings of its worker and its ancestors;
\* in a human run they contain the index of the instance.
Tagged(c, i, settings) ==
    IF Humans(c) = {} THEN settings ELSE <<i, settings>>

NodeId(c, path) ==
    [k \in DOMAIN path |->
        CASE k = 1 -> path[1]
          [] k = 2 -> Tagged(c, path[2], c.simulators[path[2]])
          [] k = 3 -> Tagged(c, path[3], Hydrate(c.algorithms[path[3]]))
          [] k = 4 -> Tagged(c, path[4], c.outputs[path[4]])]

WrongOwner(index, count, total) ==
    ((index - 1) \div (total \div count)) + 1

\* index % count, counted from 1.
Owner(index, count, total) ==
    ((index - 1) % count) + 1

\* node_ids of the modules of a category: 1 simulators, 2 algorithms, 3 outputs.
Owned(nodes, m, count) ==
    {nodes[i] : i \in {j \in DOMAIN nodes : Owner(j, count, Len(nodes)) = m}}

Given(c, category, count) ==
    [m \in 1 .. count |->
        UNION {{NodeId(c, path) : path \in Owned(Levels(c, t)[category], m, count)} :
                  t \in 1 .. c.tracks}]

-----------------------------------------------------------------------------
(* The request and the worker *)

Init ==
    /\ config \in Configs
    /\ stage = "received"
    /\ errors = {}
    /\ hydrated = << >> /\ nodeIds = << >> /\ conditions = {}

Validate ==
    /\ stage = "received"
    /\ errors' = ConfigErrors(config)
    /\ stage' = IF errors' = {} THEN "valid" ELSE "refused"
    /\ UNCHANGED <<config, hydrated, nodeIds, conditions>>

\* The nodes of a track by depth: a depth that has none may not be there.
Sparse(c) == c.tracks > 0 /\ 0 \in {Len(c.simulators), Len(c.algorithms), Len(c.outputs)}

NotBuilt == ~config.complete \/ \E t \in Range(config.algorithms) : Raises(t)

\* save_run: _build_testbench_from_config, then the document is inserted.
SaveRun ==
    /\ stage = "valid"
    /\ \/ /\ NotBuilt \/ Sparse(config)
          /\ stage' = "unprepared" /\ UNCHANGED <<hydrated, nodeIds>>
       \/ /\ ~NotBuilt
          /\ stage' = "saved"
          /\ hydrated' = [i \in DOMAIN config.algorithms |-> Hydrate(config.algorithms[i])]
          /\ nodeIds' = <<Given(config, 1, Len(config.simulators)),
                          Given(config, 2, Len(config.algorithms)),
                          Given(config, 3, Len(config.outputs))>>
    /\ UNCHANGED <<config, errors, conditions>>

\* _module_index: exactly one module has the node.
Owners(category, id) == {m \in DOMAIN nodeIds[category] : id \in nodeIds[category][m]}
Unambiguous(category, id) == Cardinality(Owners(category, id)) = 1

\* prepare_studies: the nodes of the HumanCalculator, each with its ancestors.
HumanNodes ==
    UNION {{path \in Range(Levels(config, t)[3]) : path[4] \in Humans(config)} :
              t \in 1 .. config.tracks}

\* The node id of the ancestor at a depth of the path.
Ancestor(path, k) == NodeId(config, SubSeq(path, 1, k))

Named(path) ==
    /\ Owners(3, Ancestor(path, 4)) = Humans(config)
    /\ \A k \in 2 .. 4 : Unambiguous(k - 1, Ancestor(path, k))

\* What is prepared has to be material for a study.
PrepareStudy ==
    /\ stage = "saved" /\ Humans(config) # {}
    /\ IF HumanNodes # {} /\ \A path \in HumanNodes : Named(path)
       THEN /\ stage' = "prepared"
            /\ conditions' = {<<path[1], path[3], CHOOSE m \in Owners(2, Ancestor(path, 3)) : TRUE>> :
                                 path \in HumanNodes}
       ELSE stage' = "failed" /\ UNCHANGED conditions
    /\ UNCHANGED <<config, errors, hydrated, nodeIds>>

\* The material of a node can be of no use, or that of all of them too much.
RefuseMaterial ==
    /\ stage = "saved" /\ HumanNodes # {}
    /\ stage' = "unsuitable"
    /\ UNCHANGED <<config, errors, hydrated, nodeIds, conditions>>

Next == Validate \/ SaveRun \/ PrepareStudy \/ RefuseMaterial

Spec == Init /\ [][Next]_vars

-----------------------------------------------------------------------------
(* Properties *)

Saved == stage \in {"saved", "prepared", "unsuitable", "failed"}

\* A saved run does not combine a simulator with an algorithm that cannot take
\* its packets, down to the depth the validation looks at and for sizes written
\* as integers.
SizesFit ==
    Saved => \A t \in Range(hydrated), s \in Range(config.simulators) :
        \A p \in DOMAIN t :
            Len(p) <= MaxNestedDepth /\ ~Advanced(t[p]) /\ s.int =>
                Supported[t[p].name] = AnySize \/ s.n \in Supported[t[p].name]

\* An algorithm with everything that the construction needs and the validation looks at
\* on no level: settings that may be missing or null.
Whole(m) ==
    /\ m.readable
    /\ Advanced(m) => Omitted \notin {m.stereo, m.link} /\ Lists(m) = DOMAIN m.bands

\* Of a configuration that has all its modules, with whole algorithms, the construction
\* meets an unknown name or no mapping only where the validation did not look, in an
\* algorithm at the maximal depth or below.  And what it builds holds together: channels
\* and frequencies that were configured together are dropped together, and each channel
\* left has one algorithm more than frequencies.
ValidConfigsAreBuilt ==
    /\ stage = "unprepared" =>
           \/ ~config.complete \/ Sparse(config)
           \/ \E t \in Range(config.algorithms) : \E p \in DOMAIN t :
                 \/ ~Whole(t[p])
                 \/ /\ Len(p) = MaxNestedDepth
                    /\ "unknown" \in Crossfades(t[p]) \/ Nested(t[p]) # {}
    /\ Saved => \A t \in Range(hydrated) : \A p \in DOMAIN t :
           Len(p) <= MaxNestedDepth /\ Advanced(t[p]) /\ DOMAIN t[p].frequencies # {} =>
               /\ DOMAIN t[p].frequencies = DOMAIN t[p].bands
               /\ \A b \in DOMAIN t[p].bands : t[p].bands[b] = Len(t[p].frequencies[b]) + 1

\* Every node of a human run is found in one module of each category: a run that was
\* saved fails to be prepared only without tracks or algorithms, or for its material.
\* Its study has one condition per track and algorithm, named after the algorithm that
\* made it.
ConditionsAreAlgorithms ==
    /\ stage = "failed" => config.tracks = 0 \/ config.algorithms = << >>
    /\ stage = "prepared" =>
          conditions = {<<t, a, a>> : t \in 1 .. config.tracks, a \in DOMAIN config.algorithms}

=============================================================================
