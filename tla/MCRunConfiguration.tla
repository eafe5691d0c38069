-------------------------- MODULE MCRunConfiguration --------------------------
(***************************************************************************)
(* Configurations for RunConfiguration: every combination of channels of   *)
(* one AdvancedPLC, AdvancedPLCs nested down to and below the depth the    *)
(* validation looks at, and combinations of modules of human runs.         *)
(***************************************************************************)
EXTENDS RunConfiguration, TLC

SmallSupported == "VermaPLC" :> {128} @@ "ZerosPLC" :> AnySize

Crossfade(known, frequencies) ==
    [crossfade |-> [i \in 1 .. Len(frequencies) + 1 |-> IF i = 1 THEN known ELSE "known"],
     frequencies |-> frequencies]
Leaf(name, fades) == [name |-> name, fades |-> fades, readable |-> TRUE]
Illegible == [Leaf("ZerosPLC", Omitted) EXCEPT !.readable = FALSE]
Zeros == Leaf("ZerosPLC", Omitted)
TopZeros == Leaf("ZerosPLC", Crossfade("known", << >>))

Channels(bands, frequencies, stereo, link) ==
    [name |-> "AdvancedPLC", bands |-> bands, frequencies |-> frequencies,
     stereo |-> stereo, link |-> link, readable |-> TRUE]

\* An algorithm with nothing but leaves in its channels.
Flat(m) ==
    [p \in {<< >>} \cup {<<place>> : place \in Nested(m)} |-> IF p = << >> THEN m ELSE Zeros]

Simulator(n, int) == [n |-> n, int |-> int]
Simulators == {Simulator(32, TRUE), Simulator(128, TRUE), Simulator(32, FALSE)}

Config(simulators, algorithms, outputs, tracks) ==
    [simulators |-> simulators, algorithms |-> algorithms, outputs |-> outputs,
     tracks |-> tracks, complete |-> TRUE]
Automated(m, s) == Config(<<s>>, <<m>>, <<"SimpleCalculator">>, 1)

\* One or two algorithms per channel; frequencies for none, some or all of them.
BandKeys == {{"linked"}, {"left", "right"}, {"mid", "side"}, {"left"}}
FrequencyLists == {<< >>, <<1>>, <<1, 0>>}
Plain(stereo, link) ==
    Channels([b \in {"left", "right"} |-> 1], [b \in {"left", "right"} |-> << >>], stereo, link)
ChannelConfigs ==
    UNION {{Automated(Flat(Channels(counts, frequencies, stereo, link)), Simulator(32, TRUE)) :
               counts \in [keys -> 1 .. 2],
               frequencies \in {Null} \cup UNION {[k -> FrequencyLists] : k \in SUBSET keys},
               stereo \in Stereo, link \in BOOLEAN} : keys \in BandKeys}
    \cup {Automated(Flat(Plain(stereo, link)), s) :
            stereo \in {"other", Null, Omitted} \cup Stereo, link \in {Null, Omitted, FALSE},
            s \in Simulators}

\* A null channel, kept or not; and settings that are missing, null or out of range.
Nulled(channel, stereo, link) ==
    [Plain(stereo, link) EXCEPT !.bands[channel] = Null, !.frequencies[channel] = <<1>>]
OddAlgorithms ==
    {Nulled(channel, stereo, link) :
        channel \in {"left", "right"}, stereo \in Stereo, link \in {FALSE, Null, Omitted}}
    \cup {Plain(stereo, link) : stereo \in Stereo \cup {Null, Omitted}, link \in {Null, Omitted}}
    \cup {Channels([b \in {"rear"} |-> 1], [b \in {"left"} |-> << >>], Omitted, FALSE),
          Illegible}
OddLeaves ==
    {Illegible, Leaf("ZerosPLC", Crossfade("known", <<0 - 1>>)),
     Leaf("ZerosPLC", Crossfade("known", <<MaxFrequency + 1>>))}

\* A spine of AdvancedPLCs, each with a leaf on the left and the next on the right.
Stereophonic == Plain("dual_mono", FALSE)
Rights(depth) == [k \in 1 .. depth |-> <<"right", 1>>]
Lefts(n) == {Append(Rights(d), <<"left", 1>>) : d \in 0 .. n - 2}
Spine(leaves) ==
    LET n == Len(leaves)
    IN [p \in {Rights(d) : d \in 0 .. n - 1} \cup Lefts(n) |->
           IF p = Rights(n - 1) THEN leaves[n]
           ELSE IF p \in Lefts(n) THEN leaves[Len(p)]
           ELSE Stereophonic]
\* A tree in the place of the last leaf of a spine of n algorithms.
Below(n, m) ==
    LET spine == Spine([i \in 1 .. n |-> Zeros])
        inside == {Rights(n - 1) \o p : p \in DOMAIN Flat(m)}
    IN [p \in DOMAIN spine \cup inside |->
           IF p = Rights(n - 1) THEN m ELSE IF p \in inside THEN Zeros ELSE spine[p]]

Leaves == {Zeros, Leaf("VermaPLC", Omitted),
           Leaf("MissingPLC", Omitted), Leaf("ZerosPLC", Crossfade("unknown", << >>))}
NestedConfigs ==
    {Automated(Spine(leaves), s) :
        leaves \in UNION {[1 .. n -> Leaves] : n \in 1 .. 3}, s \in Simulators}
    \cup {Automated(Spine([i \in 1 .. n |-> IF i = n THEN leaf ELSE Zeros]), s) :
            n \in 4 .. 6, leaf \in Leaves, s \in Simulators}
    \cup {Automated(Below(n, m), Simulator(32, TRUE)) : n \in 1 .. 5, m \in OddAlgorithms}

\* Equal and different modules, in human runs and others.
Outputs == {"HumanCalculator", "SimpleCalculator"}
TopLeaves == {Flat(TopZeros), Flat(Leaf("VermaPLC", Crossfade("known", <<1>>)))}
ModuleConfigs ==
    {Config(simulators, algorithms, outputs, tracks) :
        simulators \in BoundedSeq({Simulator(32, TRUE), Simulator(128, TRUE)}, 2) \ {<< >>},
        algorithms \in BoundedSeq(TopLeaves, 3) \ {<< >>},
        outputs \in BoundedSeq(Outputs, 2) \ {<< >>},
        tracks \in {2}}
    \cup {Automated(Flat(TopZeros), Simulator(0, TRUE))}
    \cup {Automated(Flat(leaf), Simulator(32, TRUE)) : leaf \in OddLeaves}

\* Without tracks, or without modules of a category, which is there or not.
SparseConfigs ==
    {[Config(simulators, algorithms, outputs, tracks) EXCEPT !.complete = complete] :
        simulators \in {<< >>, <<Simulator(32, TRUE)>>},
        algorithms \in {<< >>, <<Flat(TopZeros)>>},
        outputs \in {<< >>, <<"HumanCalculator">>, <<"SimpleCalculator">>},
        tracks \in 0 .. 1, complete \in BOOLEAN}

\* The indices of NextLevel are those of the lists one after the other.
ASSUME LevelOrder ==
    \A parents \in {[i \in 1 .. n |-> <<i>>] : n \in 0 .. 3}, count \in 0 .. 3 :
        NextLevel(parents, count) =
            FlattenSeq([i \in DOMAIN parents |-> [j \in 1 .. count |-> Append(parents[i], j)]])

AllConfigs == ChannelConfigs \cup NestedConfigs \cup ModuleConfigs \cup SparseConfigs
=============================================================================
