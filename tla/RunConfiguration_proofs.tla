----------------------- MODULE RunConfiguration_proofs -----------------------
(***************************************************************************)
(* Proofs about RunConfiguration: what its invariants say holds for every  *)
(* set of configurations, of any size, with algorithms of any shape and    *)
(* any depth, and for every depth the validation looks down to.            *)
(*                                                                         *)
(* The algorithms are trees given as functions from paths, every prefix of *)
(* a path being a path, so that no proof needs an induction over them: a   *)
(* node that the validation does not see has an ancestor at the deepest    *)
(* level that it does see.                                                 *)
(***************************************************************************)
EXTENDS RunConfiguration, FiniteSetTheorems, SequenceTheorems, TLAPS

Stages == {"received", "refused", "valid", "unprepared", "saved", "prepared", "unsuitable",
           "failed"}

TypeOK == config \in Configs /\ stage \in Stages

\* Past the validation the configuration has no error.
PastValidation == stage \notin {"received", "refused"} => ConfigErrors(config) = {}

\* A run that was not built could not be, or has a level without nodes; one that was
\* built is what the construction makes of the configuration.
BuiltFromConfig ==
    /\ stage = "unprepared" => NotBuilt \/ Sparse(config)
    /\ Saved =>
         /\ ~NotBuilt
         /\ hydrated = [i \in DOMAIN config.algorithms |-> Hydrate(config.algorithms[i])]
         /\ nodeIds = <<Given(config, 1, Len(config.simulators)),
                        Given(config, 2, Len(config.algorithms)),
                        Given(config, 3, Len(config.outputs))>>

IInv ==
    /\ TypeOK
    /\ PastValidation
    /\ BuiltFromConfig
    /\ ConditionsAreAlgorithms

-----------------------------------------------------------------------------
(* What the validation says of an accepted configuration *)

\* A complaint that was not made: what it is about does not hold.
LEMMA NoComplaint ==
    ASSUME NEW wrong, NEW kind, Complaint(wrong, kind) = {}
    PROVE  ~wrong
BY DEF Complaint

\* The sequences of a configuration.
LEMMA ConfigShape ==
    ASSUME NEW c \in Configs
    PROVE  /\ c.simulators \in Seq(Size) /\ c.outputs \in Seq(STRING) /\ c.tracks \in Nat
           /\ c.algorithms \in Seq(Range(c.algorithms))
           /\ Len(c.simulators) \in Nat /\ Len(c.algorithms) \in Nat /\ Len(c.outputs) \in Nat
           /\ DOMAIN c.simulators = 1 .. Len(c.simulators)
           /\ DOMAIN c.algorithms = 1 .. Len(c.algorithms)
           /\ DOMAIN c.outputs = 1 .. Len(c.outputs)
           /\ \A t \in Range(c.algorithms) : IsAlgorithm(t)
<1>1. /\ c.simulators \in Seq(Size) /\ c.outputs \in Seq(STRING) /\ c.tracks \in Nat
      /\ c.algorithms \in Seq(Range(c.algorithms))
      /\ \A t \in Range(c.algorithms) : IsAlgorithm(t)
  BY ConfigurationAssumption
<1> QED
  BY <1>1

\* Every algorithm of an accepted configuration is one the service knows and
\* has consistent settings, down to the depth the validation looks at; above it
\* the names of the crossfades were looked up too.
LEMMA ValidSettings ==
    ASSUME NEW t, IsAlgorithm(t), TopErrors(t) = {},
           NEW p \in DOMAIN t, Len(p) <= MaxNestedDepth
    PROVE  /\ Known(t[p])
           /\ Advanced(t[p]) => AdvancedErrors(t[p]) = {}
           /\ Len(p) < MaxNestedDepth => "unknown" \notin Crossfades(t[p])
<1>1. p \in Seq(STRING \X Nat)
  BY DEF IsAlgorithm
<1>2. Len(p) \in Nat /\ (Len(p) = 0 => p = << >>)
  BY <1>1, EmptySeq
<1>3. p = << >> \/ GoesDeeper(Len(p) - 1)
  BY <1>2, ConfigurationAssumption DEF GoesDeeper
<1>4. SettingsErrors(t[p], Len(p)) = {}
  <2>1. ModuleErrors(t) = {}
    BY DEF TopErrors
  <2>2. SettingsErrors(t[p], Len(p)) \subseteq ModuleErrors(t)
    BY <1>3 DEF ModuleErrors
  <2> QED
    BY <2>1, <2>2
<1>5. Known(t[p])
  BY <1>4 DEF SettingsErrors
<1>6. Advanced(t[p]) => AdvancedErrors(t[p]) = {}
  BY <1>4, <1>5 DEF SettingsErrors
<1>7. ASSUME Len(p) < MaxNestedDepth PROVE "unknown" \notin Crossfades(t[p])
  <2>1. Complaint(GoesDeeper(Len(p)) /\ "unknown" \in Crossfades(t[p]), "unknown") = {}
    BY <1>4, <1>5 DEF SettingsErrors
  <2> QED
    BY <1>7, <2>1, NoComplaint DEF GoesDeeper
<1> QED
  BY <1>5, <1>6, <1>7

\* The algorithms of a configuration without errors.
LEMMA ValidAlgorithms ==
    ASSUME NEW c \in Configs, ConfigErrors(c) = {}
    PROVE  /\ \A t \in Range(c.algorithms) : IsAlgorithm(t) /\ TopErrors(t) = {}
           /\ HumanErrors(c) = {} /\ PacketSizeErrors(c) = {}
<1>1. /\ HumanErrors(c) = {} /\ PacketSizeErrors(c) = {}
      /\ UNION {TopErrors(t) : t \in Range(c.algorithms)} = {}
  BY DEF ConfigErrors
<1>2. \A t \in Range(c.algorithms) : TopErrors(t) = {}
  BY <1>1
<1> QED
  BY <1>1, <1>2, ConfigShape

-----------------------------------------------------------------------------
(* What the construction keeps *)

\* The hydrated algorithms: each comes from an algorithm of the configuration
\* and has some of its paths.
LEMMA HydratedFrom ==
    ASSUME Saved, BuiltFromConfig, NEW h \in Range(hydrated)
    PROVE  \E t \in Range(config.algorithms) :
              h = Hydrate(t) /\ ~Raises(t) /\ DOMAIN h = Built(t) /\ Built(t) \subseteq DOMAIN t
<1>1. PICK i \in DOMAIN config.algorithms : h = Hydrate(config.algorithms[i])
  BY DEF BuiltFromConfig, Range
<1>2. config.algorithms[i] \in Range(config.algorithms)
  BY DEF Range
<1>3. ~Raises(config.algorithms[i])
  BY <1>2 DEF BuiltFromConfig, NotBuilt
<1>4. DOMAIN h = Built(config.algorithms[i])
  BY <1>1 DEF Hydrate
<1> QED
  BY <1>1, <1>2, <1>3, <1>4 DEF Built

\* Each node is hydrated by itself.
LEMMA HydratedNode ==
    ASSUME NEW t, NEW p \in Built(t)
    PROVE  Hydrate(t)[p] = HydrateSettings(t[p])
BY DEF Hydrate

\* A leaf stays as it is.
LEMMA HydratedLeaf ==
    ASSUME NEW m, ~Advanced(m)
    PROVE  HydrateSettings(m) = m
BY DEF HydrateSettings

\* An AdvancedPLC stays one, with the channels that are kept.
LEMMA HydratedAdvanced ==
    ASSUME NEW m, Advanced(m), IsSettings(m)
    PROVE  /\ DOMAIN HydrateSettings(m) = DOMAIN m
           /\ HydrateSettings(m).name = m.name
           /\ HydrateSettings(m).bands = [b \in {c \in DOMAIN m.bands : Kept(m, c)} |-> m.bands[b]]
           /\ HydrateSettings(m).frequencies =
                [b \in {c \in DOMAIN m.frequencies : Kept(m, c)} |-> m.frequencies[b]]
<1>1. {"bands", "frequencies"} \subseteq DOMAIN m
  BY DEF IsSettings
<1> DEFINE bands == [b \in {c \in DOMAIN m.bands : Kept(m, c)} |-> m.bands[b]]
           frequencies == [b \in KeptFrequencies(m) |-> m.frequencies[b]]
<1>2. HydrateSettings(m) = [m EXCEPT !.bands = bands, !.frequencies = frequencies]
  BY DEF HydrateSettings
<1>3. frequencies = [b \in {c \in DOMAIN m.frequencies : Kept(m, c)} |-> m.frequencies[b]]
  BY DEF KeptFrequencies
<1> HIDE DEF bands, frequencies
<1>4. /\ HydrateSettings(m).bands = bands /\ HydrateSettings(m).frequencies = frequencies
  BY <1>1, <1>2
<1>5. HydrateSettings(m).name = m.name /\ DOMAIN HydrateSettings(m) = DOMAIN m
  BY <1>1, <1>2
<1> QED
  BY <1>3, <1>4, <1>5 DEF bands

-----------------------------------------------------------------------------
(* The packet sizes *)

\* An accepted configuration has no leaf, down to the depth looked at, that
\* does not support a size its simulators have as an integer.
LEMMA SizesSupported ==
    ASSUME NEW c \in Configs, PacketSizeErrors(c) = {},
           NEW t \in Range(c.algorithms), NEW p \in DOMAIN t, Len(p) <= MaxNestedDepth,
           Known(t[p]), ~Advanced(t[p]), Supported[t[p].name] # AnySize,
           NEW s \in Range(c.simulators), s.int
    PROVE  s.n \in Supported[t[p].name]
<1>1. Supported[t[p].name] \in Restrictions(t)
  BY DEF Restrictions, WithinReach
<1> DEFINE sizes == {x.n : x \in {y \in Range(c.simulators) : y.int}}
<1>2. \A u \in Range(c.algorithms) : \A r \in Restrictions(u) : sizes \subseteq r
  <2>1. ~\E u \in Range(c.algorithms) : \E r \in Restrictions(u) : ~(sizes \subseteq r)
    BY NoComplaint DEF PacketSizeErrors
  <2> QED
    BY <2>1
<1>3. sizes \subseteq Supported[t[p].name]
  BY <1>1, <1>2
<1> QED
  BY <1>3

\* SizesFit follows from what the validation checked and the construction kept.
LEMMA SizesFollow ==
    ASSUME IInv
    PROVE  SizesFit
<1> SUFFICES ASSUME Saved, NEW h \in Range(hydrated), NEW s \in Range(config.simulators),
                    NEW p \in DOMAIN h, Len(p) <= MaxNestedDepth, ~Advanced(h[p]), s.int
             PROVE  Supported[h[p].name] = AnySize \/ s.n \in Supported[h[p].name]
  BY DEF SizesFit
<1>1. config \in Configs /\ ConfigErrors(config) = {}
  BY DEF IInv, TypeOK, PastValidation, Saved
<1>2. PICK t \in Range(config.algorithms) :
         h = Hydrate(t) /\ DOMAIN h = Built(t) /\ Built(t) \subseteq DOMAIN t
  BY HydratedFrom DEF IInv
<1>3. IsAlgorithm(t) /\ TopErrors(t) = {} /\ PacketSizeErrors(config) = {}
  BY <1>1, <1>2, ValidAlgorithms
<1>4. p \in DOMAIN t /\ Known(t[p])
  BY <1>2, <1>3, ValidSettings
<1>5. h[p] = HydrateSettings(t[p])
  BY <1>2, HydratedNode
<1>6. IsSettings(t[p])
  BY <1>3, <1>4 DEF IsAlgorithm
<1>7. ~Advanced(t[p])
  <2>1. ASSUME Advanced(t[p]) PROVE Advanced(h[p])
    <3>1. HydrateSettings(t[p]).name = t[p].name
      BY <1>6, <2>1, HydratedAdvanced
    <3> QED
      BY <1>5, <2>1, <3>1 DEF Advanced
  <2> QED
    BY <2>1
<1>8. h[p] = t[p]
  BY <1>5, <1>7, HydratedLeaf
<1>9. CASE Supported[t[p].name] # AnySize
  <2>1. s.n \in Supported[t[p].name]
    BY <1>1, <1>2, <1>3, <1>4, <1>7, <1>9, SizesSupported
  <2> QED
    BY <1>8, <2>1
<1> QED
  BY <1>8, <1>9

-----------------------------------------------------------------------------
(* What an accepted configuration is built into *)

\* An algorithm that raises, in an accepted configuration, is not whole somewhere,
\* or has an unknown crossfade at the deepest level the validation looks at, or
\* reaches below it.
LEMMA RaisesOutOfSight ==
    ASSUME NEW t, IsAlgorithm(t), TopErrors(t) = {}, Raises(t)
    PROVE  \E p \in DOMAIN t :
              \/ ~Whole(t[p])
              \/ /\ Len(p) = MaxNestedDepth
                 /\ "unknown" \in Crossfades(t[p]) \/ Nested(t[p]) # {}
<1> SUFFICES ASSUME \A p \in DOMAIN t : Whole(t[p])
             PROVE  \E p \in DOMAIN t :
                       /\ Len(p) = MaxNestedDepth
                       /\ "unknown" \in Crossfades(t[p]) \/ Nested(t[p]) # {}
  OBVIOUS
<1>1. PICK p \in DOMAIN t : \/ ~Known(t[p]) \/ "unknown" \in Crossfades(t[p])
                            \/ Advanced(t[p]) /\ t[p].frequencies = Null
  <2>1. PICK p \in Built(t) :
           \/ ~Known(t[p]) \/ "unknown" \in Crossfades(t[p]) \/ ~t[p].readable
           \/ Advanced(t[p]) /\ ChannelsRaise(t[p])
    BY DEF Raises
  <2>2. p \in DOMAIN t /\ Whole(t[p])
    BY <2>1 DEF Built
  <2>3. ASSUME Advanced(t[p]), ChannelsRaise(t[p]) PROVE t[p].frequencies = Null
    <3>1. Omitted \notin {t[p].stereo, t[p].link} /\ Lists(t[p]) = DOMAIN t[p].bands
      BY <2>2, <2>3 DEF Whole
    <3> QED
      BY <2>3, <3>1 DEF ChannelsRaise
  <2> QED
    BY <2>1, <2>2, <2>3 DEF Whole
<1>2. p \in Seq(STRING \X Nat) /\ Len(p) \in Nat /\ MaxNestedDepth \in Nat
  BY ConfigurationAssumption DEF IsAlgorithm
<1>3. CASE Len(p) <= MaxNestedDepth
  <2>1. /\ Known(t[p])
        /\ Advanced(t[p]) => AdvancedErrors(t[p]) = {}
        /\ Len(p) < MaxNestedDepth => "unknown" \notin Crossfades(t[p])
    BY <1>3, ValidSettings
  <2>2. "mapping" \notin AdvancedErrors(t[p]) => t[p].frequencies # Null
    BY DEF AdvancedErrors
  <2>3. "unknown" \in Crossfades(t[p])
    BY <1>1, <2>1, <2>2
  <2> QED
    BY <1>2, <1>3, <2>1, <2>3
<1>4. CASE Len(p) > MaxNestedDepth
  <2> DEFINE q == SubSeq(p, 1, MaxNestedDepth)
  <2>1. MaxNestedDepth + 1 \in DOMAIN p
    BY <1>2, <1>4
  <2>2. q \in DOMAIN t /\ p[MaxNestedDepth + 1] \in Nested(t[q])
    <3>1. /\ SubSeq(p, 1, (MaxNestedDepth + 1) - 1) \in DOMAIN t
          /\ p[MaxNestedDepth + 1] \in Nested(t[SubSeq(p, 1, (MaxNestedDepth + 1) - 1)])
      BY <2>1 DEF IsAlgorithm
    <3>2. (MaxNestedDepth + 1) - 1 = MaxNestedDepth
      BY <1>2
    <3> QED
      BY <3>1, <3>2
  <2>3. Len(q) = MaxNestedDepth
    BY <1>2, <1>4, SubSeqProperties
  <2> QED
    BY <2>2, <2>3
<1> QED
  BY <1>2, <1>3, <1>4

\* The channels and the frequencies of a valid AdvancedPLC that has some.
LEMMA ConsistentChannels ==
    ASSUME NEW m, IsSettings(m), AdvancedErrors(m) = {}, Advanced(m), DOMAIN m.frequencies # {}
    PROVE  m.frequencies # Null =>
             /\ DOMAIN m.frequencies = DOMAIN m.bands
             /\ \A b \in Lists(m) : m.bands[b] = Len(m.frequencies[b]) + 1
<1> SUFFICES ASSUME m.frequencies # Null
             PROVE  /\ DOMAIN m.frequencies = DOMAIN m.bands
                    /\ \A b \in Lists(m) : m.bands[b] = Len(m.frequencies[b]) + 1
  OBVIOUS
<1>1. KeysMatch(m.bands, m.frequencies) = {} /\ PerKeyLengths(m.frequencies, m.bands) = {}
  <2>1. KeysMatch(m.bands, m.frequencies) \cup PerKeyLengths(m.frequencies, m.bands)
           \subseteq AdvancedErrors(m)
    BY DEF AdvancedErrors
  <2> QED
    BY <2>1
<1>2. DOMAIN m.frequencies = DOMAIN m.bands
  BY <1>1, NoComplaint DEF KeysMatch
<1>3. ASSUME NEW b \in Lists(m) PROVE m.bands[b] = Len(m.frequencies[b]) + 1
  <2>1. ~\E d \in DOMAIN m.frequencies \cap DOMAIN m.bands :
            m.bands[d] # Null /\ Len(m.frequencies[d]) # m.bands[d] - 1
    BY <1>1, NoComplaint DEF PerKeyLengths
  <2>2. b \in DOMAIN m.bands /\ m.bands[b] # Null
    BY DEF Lists
  <2>3. Len(m.frequencies[b]) = m.bands[b] - 1
    BY <1>2, <2>1, <2>2
  <2>4. m.bands[b] \in Nat /\ m.frequencies[b] \in Seq(Int)
    BY <1>2, <2>2 DEF IsSettings
  <2> QED
    BY <2>3, <2>4
<1> QED
  BY <1>2, <1>3

\* ValidConfigsAreBuilt follows from what the validation checked, to its depth,
\* and from channels and frequencies being dropped by the same condition.
LEMMA BuiltFollows ==
    ASSUME IInv
    PROVE  ValidConfigsAreBuilt
<1>1. ASSUME stage = "unprepared", config.complete, ~Sparse(config)
      PROVE  \E t \in Range(config.algorithms) : \E p \in DOMAIN t :
                \/ ~Whole(t[p])
                \/ /\ Len(p) = MaxNestedDepth
                   /\ "unknown" \in Crossfades(t[p]) \/ Nested(t[p]) # {}
  <2>1. PICK t \in Range(config.algorithms) : Raises(t)
    BY <1>1 DEF IInv, BuiltFromConfig, NotBuilt
  <2>2. config \in Configs /\ ConfigErrors(config) = {}
    BY <1>1 DEF IInv, TypeOK, PastValidation
  <2>3. IsAlgorithm(t) /\ TopErrors(t) = {}
    BY <2>1, <2>2, ValidAlgorithms
  <2> QED
    BY <2>1, <2>3, RaisesOutOfSight
<1>2. ASSUME Saved, NEW h \in Range(hydrated), NEW p \in DOMAIN h,
             Len(p) <= MaxNestedDepth, Advanced(h[p]), DOMAIN h[p].frequencies # {}
      PROVE  /\ DOMAIN h[p].frequencies = DOMAIN h[p].bands
             /\ \A b \in DOMAIN h[p].bands : h[p].bands[b] = Len(h[p].frequencies[b]) + 1
  <2>1. config \in Configs /\ ConfigErrors(config) = {}
    BY <1>2 DEF IInv, TypeOK, PastValidation, Saved
  <2>2. PICK t \in Range(config.algorithms) :
           h = Hydrate(t) /\ ~Raises(t) /\ DOMAIN h = Built(t) /\ Built(t) \subseteq DOMAIN t
    BY <1>2, HydratedFrom DEF IInv
  <2>3. IsAlgorithm(t) /\ TopErrors(t) = {}
    BY <2>1, <2>2, ValidAlgorithms
  <2>4. p \in Built(t) /\ p \in DOMAIN t /\ h[p] = HydrateSettings(t[p])
    BY <1>2, <2>2, HydratedNode
  <2>5. Advanced(t[p])
    BY <1>2, <2>4, HydratedLeaf
  <2>6. IsSettings(t[p]) /\ AdvancedErrors(t[p]) = {} /\ ~ChannelsRaise(t[p])
    BY <1>2, <2>2, <2>3, <2>4, <2>5, ValidSettings DEF IsAlgorithm, Raises
  <2>7. /\ h[p].bands = [b \in {c \in DOMAIN t[p].bands : Kept(t[p], c)} |-> t[p].bands[b]]
        /\ h[p].frequencies =
             [b \in {c \in DOMAIN t[p].frequencies : Kept(t[p], c)} |-> t[p].frequencies[b]]
    BY <2>4, <2>5, <2>6, HydratedAdvanced
  <2>8. DOMAIN t[p].frequencies # {}
    BY <1>2, <2>7
  <2>9. /\ DOMAIN t[p].frequencies = DOMAIN t[p].bands
        /\ \A b \in Lists(t[p]) : t[p].bands[b] = Len(t[p].frequencies[b]) + 1
    BY <2>5, <2>6, <2>8, ConsistentChannels DEF ChannelsRaise
  <2>10. DOMAIN h[p].frequencies = DOMAIN h[p].bands
    BY <2>7, <2>9
  <2>11. ASSUME NEW b \in DOMAIN h[p].bands PROVE h[p].bands[b] = Len(h[p].frequencies[b]) + 1
    <3>1. b \in DOMAIN t[p].bands /\ Kept(t[p], b) /\ h[p].bands[b] = t[p].bands[b]
      BY <2>7, <2>11
    <3>2. b \in Lists(t[p])
      BY <2>6, <3>1 DEF ChannelsRaise
    <3>3. h[p].frequencies[b] = t[p].frequencies[b]
      BY <2>7, <2>10, <2>11
    <3> QED
      BY <2>9, <3>1, <3>2, <3>3
  <2> QED
    BY <2>10, <2>11
<1> QED
  BY <1>1, <1>2 DEF ValidConfigsAreBuilt

-----------------------------------------------------------------------------
(* The nodes of a human run *)

\* A number written with two digits to the base n.
LEMMA Digits ==
    ASSUME NEW n \in Nat, NEW a \in Nat, NEW b \in Nat, b < n
    PROVE  (a * n + b) % n = b /\ (a * n + b) \div n = a
<1>1. n > 0
  OBVIOUS
<1> QED
  BY <1>1, Z3T(30)

\* A position of a list of count lists of n items has a place in one of them.
LEMMA Places ==
    ASSUME NEW n \in Nat, NEW count \in Nat, NEW i \in 1 .. count * n
    PROVE  /\ n > 0
           /\ ((i - 1) \div n) + 1 \in 1 .. count
           /\ ((i - 1) % n) + 1 \in 1 .. n
<1>1. n > 0
  BY Z3T(30)
<1>2. ((i - 1) % n) + 1 \in 1 .. n
  BY <1>1, Z3T(30)
<1>3. ((i - 1) \div n) + 1 \in 1 .. count
  BY <1>1, Z3T(30)
<1> QED
  BY <1>1, <1>2, <1>3

\* The children of the only node of a level, in order.
LEMMA OneParent ==
    ASSUME NEW parent, NEW n \in Nat
    PROVE  NextLevel(<<parent>>, n) = [i \in 1 .. n |-> Append(parent, i)]
<1>1. NextLevel(<<parent>>, n) =
         [i \in 1 .. n |-> Append(<<parent>>[((i - 1) \div n) + 1], ((i - 1) % n) + 1)]
  <2>1. Len(<<parent>>) * n = n
    OBVIOUS
  <2> QED
    BY <2>1 DEF NextLevel
<1>2. ASSUME NEW i \in 1 .. n
      PROVE  ((i - 1) \div n) + 1 = 1 /\ ((i - 1) % n) + 1 = i
  <2>1. i - 1 \in Nat /\ i - 1 < n
    OBVIOUS
  <2>2. (0 * n + (i - 1)) % n = i - 1 /\ (0 * n + (i - 1)) \div n = 0
    BY <2>1, Digits
  <2>3. 0 * n + (i - 1) = i - 1
    OBVIOUS
  <2> QED
    BY <2>2, <2>3
<1>3. ASSUME NEW i \in 1 .. n
      PROVE  Append(<<parent>>[((i - 1) \div n) + 1], ((i - 1) % n) + 1) = Append(parent, i)
  BY <1>2
<1> QED
  BY <1>1, <1>3

\* Appending to the path of a node.
LEMMA Extended ==
    /\ \A x, i : Append(<<x>>, i) = <<x, i>>
    /\ \A x, y, i : Append(<<x, y>>, i) = <<x, y, i>>
    /\ \A x, y, z, i : Append(<<x, y, z>>, i) = <<x, y, z, i>>
<1>1. ASSUME NEW x, NEW i PROVE Append(<<x>>, i) = <<x, i>>
  <2>1. <<x>> \in Seq({x, i}) /\ <<x, i>> \in Seq({x, i})
    OBVIOUS
  <2>2. /\ Append(<<x>>, i) \in Seq({x, i}) /\ Len(Append(<<x>>, i)) = 2
        /\ Append(<<x>>, i)[1] = x /\ Append(<<x>>, i)[2] = i
    BY <2>1, AppendProperties
  <2>3. \A k \in 1 .. 2 : Append(<<x>>, i)[k] = <<x, i>>[k]
    BY <2>2
  <2> QED
    BY <2>1, <2>2, <2>3, SeqEqual
<1>2. ASSUME NEW x, NEW y, NEW i PROVE Append(<<x, y>>, i) = <<x, y, i>>
  <2>1. <<x, y>> \in Seq({x, y, i}) /\ <<x, y, i>> \in Seq({x, y, i})
    OBVIOUS
  <2>2. /\ Append(<<x, y>>, i) \in Seq({x, y, i}) /\ Len(Append(<<x, y>>, i)) = 3
        /\ \A k \in 1 .. 2 : Append(<<x, y>>, i)[k] = <<x, y>>[k]
        /\ Append(<<x, y>>, i)[3] = i
    BY <2>1, AppendProperties
  <2>3. \A k \in 1 .. 3 : Append(<<x, y>>, i)[k] = <<x, y, i>>[k]
    BY <2>2
  <2> QED
    BY <2>1, <2>2, <2>3, SeqEqual
<1>3. ASSUME NEW x, NEW y, NEW z, NEW i PROVE Append(<<x, y, z>>, i) = <<x, y, z, i>>
  <2>1. <<x, y, z>> \in Seq({x, y, z, i}) /\ <<x, y, z, i>> \in Seq({x, y, z, i})
    OBVIOUS
  <2>2. /\ Append(<<x, y, z>>, i) \in Seq({x, y, z, i}) /\ Len(Append(<<x, y, z>>, i)) = 4
        /\ \A k \in 1 .. 3 : Append(<<x, y, z>>, i)[k] = <<x, y, z>>[k]
        /\ Append(<<x, y, z>>, i)[4] = i
    BY <2>1, AppendProperties
  <2>3. \A k \in 1 .. 4 : Append(<<x, y, z>>, i)[k] = <<x, y, z, i>>[k]
    BY <2>2
  <2> QED
    BY <2>1, <2>2, <2>3, SeqEqual
<1> QED
  BY <1>1, <1>2, <1>3

\* The first items of a sequence.
LEMMA PrefixOf ==
    ASSUME NEW S, NEW s \in Seq(S), NEW n \in Nat, n <= Len(s)
    PROVE  /\ SubSeq(s, 1, n) \in Seq(S) /\ Len(SubSeq(s, 1, n)) = n
           /\ \A i \in 1 .. n : SubSeq(s, 1, n)[i] = s[i]
<1>1. n \in Int /\ 1 \in Int /\ (\A k \in 1 .. n : s[k] \in S)
  OBVIOUS
<1>2. /\ SubSeq(s, 1, n) \in Seq(S)
      /\ Len(SubSeq(s, 1, n)) = IF 1 <= n THEN n - 1 + 1 ELSE 0
      /\ \A k \in 1 .. n - 1 + 1 : SubSeq(s, 1, n)[k] = s[1 + k - 1]
  BY <1>1, SubSeqProperties
<1>3. \A i \in 1 .. n : 1 + i - 1 = i /\ i \in 1 .. n - 1 + 1
  OBVIOUS
<1> QED
  BY <1>2, <1>3

\* A sequence that agrees with the first items is the sequence of them.
LEMMA Prefix ==
    ASSUME NEW S, NEW s \in Seq(S), NEW t \in Seq(S), Len(t) <= Len(s),
           \A k \in 1 .. Len(t) : s[k] = t[k]
    PROVE  SubSeq(s, 1, Len(t)) = t
<1>1. Len(t) \in Nat
  OBVIOUS
<1>2. /\ SubSeq(s, 1, Len(t)) \in Seq(S) /\ Len(SubSeq(s, 1, Len(t))) = Len(t)
      /\ \A i \in 1 .. Len(t) : SubSeq(s, 1, Len(t))[i] = s[i]
  BY <1>1, PrefixOf
<1> QED
  BY <1>2, SeqEqual

\* The ancestors of a node of the deepest level.
LEMMA Ancestors ==
    ASSUME NEW x, NEW y, NEW z, NEW i
    PROVE  /\ SubSeq(<<x, y, z, i>>, 1, 2) = <<x, y>>
           /\ SubSeq(<<x, y, z, i>>, 1, 3) = <<x, y, z>>
           /\ SubSeq(<<x, y, z, i>>, 1, 4) = <<x, y, z, i>>
<1> DEFINE S == {x, y, z, i}
           p == <<x, y, z, i>>
           q == <<x, y>>
           r == <<x, y, z>>
<1>1. p \in Seq(S) /\ q \in Seq(S) /\ r \in Seq(S)
  OBVIOUS
<1>2. Len(p) = 4 /\ Len(q) = 2 /\ Len(r) = 3
  OBVIOUS
<1>3. /\ Len(q) <= Len(p) /\ Len(r) <= Len(p) /\ Len(p) <= Len(p)
      /\ \A k \in 1 .. Len(q) : p[k] = q[k]
      /\ \A k \in 1 .. Len(r) : p[k] = r[k]
      /\ \A k \in 1 .. Len(p) : p[k] = p[k]
  OBVIOUS
<1> HIDE DEF S, p, q, r
<1>4. SubSeq(p, 1, Len(q)) = q /\ SubSeq(p, 1, Len(r)) = r /\ SubSeq(p, 1, Len(p)) = p
  BY <1>1, <1>3, Prefix
<1>5. SubSeq(p, 1, 2) = q /\ SubSeq(p, 1, 3) = r /\ SubSeq(p, 1, 4) = p
  BY <1>2, <1>4
<1> QED
  BY <1>5 DEF p, q, r

\* The nodes below the only simulator: one per algorithm, and one per algorithm
\* and output analyser.
LEMMA HumanLevels ==
    ASSUME NEW c \in Configs, Len(c.simulators) = 1, NEW t \in Nat
    PROVE  /\ Levels(c, t)[1] = [i \in 1 .. 1 |-> <<t, i>>]
           /\ Levels(c, t)[2] = [i \in 1 .. Len(c.algorithms) |-> <<t, 1, i>>]
           /\ Levels(c, t)[3] =
                [i \in 1 .. Len(c.algorithms) * Len(c.outputs) |->
                    <<t, 1, ((i - 1) \div Len(c.outputs)) + 1, ((i - 1) % Len(c.outputs)) + 1>>]
<1>1. Len(c.algorithms) \in Nat /\ Len(c.outputs) \in Nat
  BY ConfigShape
<1>2. SimulatorNodes(c, t) = [i \in 1 .. 1 |-> <<t, i>>]
  <2>1. SimulatorNodes(c, t) = [i \in 1 .. 1 |-> Append(<<t>>, i)]
    BY OneParent DEF SimulatorNodes
  <2> QED
    BY <2>1, Extended
<1>3. AlgorithmNodes(c, t) = [i \in 1 .. Len(c.algorithms) |-> <<t, 1, i>>]
  <2>1. SimulatorNodes(c, t) = <<<<t, 1>>>>
    BY <1>2
  <2>2. AlgorithmNodes(c, t) = [i \in 1 .. Len(c.algorithms) |-> Append(<<t, 1>>, i)]
    BY <1>1, <2>1, OneParent DEF AlgorithmNodes
  <2> QED
    BY <2>2, Extended
<1>4. NextLevel(AlgorithmNodes(c, t), Len(c.outputs)) =
        [i \in 1 .. Len(c.algorithms) * Len(c.outputs) |->
            <<t, 1, ((i - 1) \div Len(c.outputs)) + 1, ((i - 1) % Len(c.outputs)) + 1>>]
  <2> DEFINE n == Len(c.algorithms)
             o == Len(c.outputs)
             nodes == [i \in 1 .. n |-> <<t, 1, i>>]
  <2>1. Len(nodes) = n
    <3>1. nodes \in Seq({<<t, 1, i>> : i \in 1 .. n})
      BY <1>1
    <3> QED
      BY <1>1, <3>1
  <2>2. ASSUME NEW i \in 1 .. n * o
        PROVE  Append(nodes[((i - 1) \div o) + 1], ((i - 1) % o) + 1) =
                 <<t, 1, ((i - 1) \div o) + 1, ((i - 1) % o) + 1>>
    <3> HIDE DEF n, o
    <3>1. n \in Nat /\ o \in Nat
      BY <1>1 DEF n, o
    <3>2. ((i - 1) \div o) + 1 \in 1 .. n
      BY <3>1, Places
    <3>3. nodes[((i - 1) \div o) + 1] = <<t, 1, ((i - 1) \div o) + 1>>
      BY <3>2
    <3>4. \A k, j : Append(<<t, 1, k>>, j) = <<t, 1, k, j>>
      BY Extended
    <3> HIDE DEF nodes
    <3> QED
      BY <3>3, <3>4
  <2>3. NextLevel(nodes, o) =
          [i \in 1 .. n * o |-> Append(nodes[((i - 1) \div o) + 1], ((i - 1) % o) + 1)]
    BY <2>1 DEF NextLevel
  <2>4. AlgorithmNodes(c, t) = nodes
    BY <1>3
  <2> HIDE DEF nodes, n, o
  <2>5. NextLevel(nodes, o) =
          [i \in 1 .. n * o |-> <<t, 1, ((i - 1) \div o) + 1, ((i - 1) % o) + 1>>]
    BY <2>2, <2>3
  <2> QED
    BY <2>4, <2>5 DEF n, o
<1> QED
  BY <1>2, <1>3, <1>4 DEF Levels

\* The indices of a sequence are finitely many.
LEMMA IntervalIsFinite ==
    ASSUME NEW n \in Nat
    PROVE  IsFiniteSet(1 .. n)
<1>1. 1 \in Int /\ n \in Int
  OBVIOUS
<1> QED
  BY <1>1, FS_Interval

\* A run with a HumanCalculator that was accepted has one, and one simulator.
LEMMA OneHuman ==
    ASSUME NEW c \in Configs, HumanErrors(c) = {}, Humans(c) # {}
    PROVE  /\ Len(c.simulators) = 1
           /\ \E h \in DOMAIN c.outputs : Humans(c) = {h}
<1>1. ~(Cardinality(Humans(c)) > 1) /\ ~(Humans(c) # {} /\ Len(c.simulators) # 1)
  <2>1. /\ Complaint(Cardinality(Humans(c)) > 1, "humans") = {}
        /\ Complaint(Humans(c) # {} /\ Len(c.simulators) # 1, "simulators") = {}
    BY DEF HumanErrors
  <2> QED
    BY <2>1, NoComplaint
<1>2. IsFiniteSet(Humans(c))
  <2>1. Len(c.outputs) \in Nat /\ DOMAIN c.outputs = 1 .. Len(c.outputs)
    BY ConfigShape
  <2>2. IsFiniteSet(1 .. Len(c.outputs))
    BY <2>1, IntervalIsFinite
  <2>3. Humans(c) \subseteq 1 .. Len(c.outputs)
    BY <2>1 DEF Humans
  <2> QED
    BY <2>2, <2>3, FS_Subset
<1>3. Cardinality(Humans(c)) \in Nat /\ Cardinality(Humans(c)) # 0
  BY <1>2, FS_CardinalityType, FS_EmptySet
<1>4. PICK h : Humans(c) = {h}
  <2>1. Cardinality(Humans(c)) = 1
    BY <1>1, <1>3
  <2> QED
    BY <1>2, <2>1, FS_Singleton
<1>5. h \in DOMAIN c.outputs
  BY <1>4 DEF Humans
<1> QED
  BY <1>1, <1>4, <1>5

\* In a human run the settings of two instances differ in their index, so that
\* two nodes with one name come from the same instances.
LEMMA NameTellsInstance ==
    ASSUME NEW c, Humans(c) # {}, NEW p, NEW q, NEW k \in {2, 3, 4},
           k \in DOMAIN p, k \in DOMAIN q, NodeId(c, p) = NodeId(c, q)
    PROVE  p[k] = q[k]
<1>1. NodeId(c, p)[k] = NodeId(c, q)[k]
  OBVIOUS
<1>2. CASE k = 2
  <2>1. /\ NodeId(c, p)[2] = <<p[2], c.simulators[p[2]]>>
        /\ NodeId(c, q)[2] = <<q[2], c.simulators[q[2]]>>
    BY <1>2 DEF NodeId, Tagged
  <2> QED
    BY <1>1, <1>2, <2>1
<1>3. CASE k = 3
  <2>1. /\ NodeId(c, p)[3] = <<p[3], Hydrate(c.algorithms[p[3]])>>
        /\ NodeId(c, q)[3] = <<q[3], Hydrate(c.algorithms[q[3]])>>
    BY <1>3 DEF NodeId, Tagged
  <2> QED
    BY <1>1, <1>3, <2>1
<1>4. CASE k = 4
  <2>1. /\ NodeId(c, p)[4] = <<p[4], c.outputs[p[4]]>>
        /\ NodeId(c, q)[4] = <<q[4], c.outputs[q[4]]>>
    BY <1>4 DEF NodeId, Tagged
  <2> QED
    BY <1>1, <1>4, <2>1
<1> QED
  BY <1>2, <1>3, <1>4

-----------------------------------------------------------------------------
(* The owners of the nodes of a human run *)

\* The last instance on the way to a node is the owner of the position the
\* node has in its level.
LastIsOwner(category, count) ==
    \A t \in 1 .. config.tracks : \A i \in DOMAIN Levels(config, t)[category] :
        LET path == Levels(config, t)[category][i]
        IN /\ category + 1 \in DOMAIN path
           /\ path[category + 1] = Owner(i, count, Len(Levels(config, t)[category]))
           /\ path[category + 1] \in 1 .. count

\* Then the name of a node has one owner, the last instance on its path.
LEMMA OnlyOwner ==
    ASSUME NEW category \in 1 .. 3, NEW count, Humans(config) # {},
           nodeIds[category] = Given(config, category, count),
           LastIsOwner(category, count),
           NEW t \in 1 .. config.tracks, NEW path \in Range(Levels(config, t)[category])
    PROVE  Owners(category, NodeId(config, path)) = {path[category + 1]}
<1> DEFINE nodes(u) == Levels(config, u)[category]
           owner == path[category + 1]
           Ids(m, u) == {NodeId(config, q) : q \in Owned(nodes(u), m, count)}
<1>1. /\ DOMAIN nodeIds[category] = 1 .. count
      /\ \A m \in 1 .. count : nodeIds[category][m] = UNION {Ids(m, u) : u \in 1 .. config.tracks}
  BY DEF Given
<1>2. PICK i \in DOMAIN nodes(t) : path = nodes(t)[i]
  BY DEF Range
<1>3. /\ category + 1 \in DOMAIN path
      /\ owner = Owner(i, count, Len(nodes(t))) /\ owner \in 1 .. count
  BY <1>2 DEF LastIsOwner
<1>4. NodeId(config, path) \in nodeIds[category][owner]
  <2>1. path \in Owned(nodes(t), owner, count)
    BY <1>2, <1>3 DEF Owned
  <2>2. NodeId(config, path) \in Ids(owner, t)
    BY <2>1
  <2> HIDE DEF Ids
  <2> QED
    BY <1>1, <1>3, <2>2
<1>5. ASSUME NEW m \in 1 .. count, NodeId(config, path) \in nodeIds[category][m]
      PROVE  m = owner
  <2>1. PICK u \in 1 .. config.tracks : NodeId(config, path) \in Ids(m, u)
    <3> HIDE DEF Ids
    <3> QED
      BY <1>1, <1>5
  <2>2. PICK q \in Owned(nodes(u), m, count) : NodeId(config, path) = NodeId(config, q)
    BY <2>1
  <2>3. PICK j \in DOMAIN nodes(u) : Owner(j, count, Len(nodes(u))) = m /\ q = nodes(u)[j]
    BY <2>2 DEF Owned
  <2>4. category + 1 \in DOMAIN q /\ q[category + 1] = m
    BY <2>3 DEF LastIsOwner
  <2>5. category + 1 \in {2, 3, 4}
    OBVIOUS
  <2>6. path[category + 1] = q[category + 1]
    BY <1>3, <2>2, <2>4, <2>5, NameTellsInstance
  <2> QED
    BY <2>4, <2>6
<1> HIDE DEF Ids
<1> QED
  BY <1>1, <1>3, <1>4, <1>5 DEF Owners

\* A saved human run has one simulator and one HumanCalculator, and the node
\* ids that the construction gave.
LEMMA HumanRun ==
    ASSUME IInv, Saved, Humans(config) # {}
    PROVE  /\ config \in Configs /\ Len(config.simulators) = 1
           /\ \E h \in DOMAIN config.outputs : Humans(config) = {h}
           /\ nodeIds[1] = Given(config, 1, 1)
           /\ nodeIds[2] = Given(config, 2, Len(config.algorithms))
           /\ nodeIds[3] = Given(config, 3, Len(config.outputs))
<1>1. config \in Configs /\ ConfigErrors(config) = {}
  BY DEF IInv, TypeOK, PastValidation, Saved
<1>2. HumanErrors(config) = {}
  BY <1>1, ValidAlgorithms
<1>3. /\ Len(config.simulators) = 1
      /\ \E h \in DOMAIN config.outputs : Humans(config) = {h}
  BY <1>1, <1>2, OneHuman
<1>4. nodeIds = <<Given(config, 1, Len(config.simulators)),
                  Given(config, 2, Len(config.algorithms)),
                  Given(config, 3, Len(config.outputs))>>
  BY DEF IInv, BuiltFromConfig
<1> QED
  BY <1>1, <1>3, <1>4

\* The last instance on the way to each node of its levels owns it.
LEMMA HumanLevelsOwned ==
    ASSUME config \in Configs, Len(config.simulators) = 1
    PROVE  /\ LastIsOwner(1, 1)
           /\ LastIsOwner(2, Len(config.algorithms))
           /\ LastIsOwner(3, Len(config.outputs))
<1> DEFINE n == Len(config.algorithms)
           k == Len(config.outputs)
<1>1. n \in Nat /\ k \in Nat /\ 1 .. config.tracks \subseteq Nat
  BY ConfigShape
<1>2. \A t \in 1 .. config.tracks :
         /\ Levels(config, t)[1] = [i \in 1 .. 1 |-> <<t, i>>]
         /\ Levels(config, t)[2] = [i \in 1 .. n |-> <<t, 1, i>>]
         /\ Levels(config, t)[3] =
              [i \in 1 .. n * k |-> <<t, 1, ((i - 1) \div k) + 1, ((i - 1) % k) + 1>>]
  BY <1>1, HumanLevels
<1> HIDE DEF n, k
<1>3. ASSUME NEW m \in Nat, NEW i \in 1 .. m PROVE ((i - 1) % m) + 1 = i
  <2>1. (0 * m + (i - 1)) % m = i - 1
    BY Digits
  <2>2. 0 * m + (i - 1) = i - 1
    OBVIOUS
  <2> QED
    BY <2>1, <2>2
<1>4. LastIsOwner(1, 1)
  <2>1. ASSUME NEW t \in 1 .. config.tracks
        PROVE  DOMAIN Levels(config, t)[1] = 1 .. 1 /\ Levels(config, t)[1][1] = <<t, 1>>
    <3>1. Levels(config, t)[1] = [i \in 1 .. 1 |-> <<t, i>>]
      BY <1>2
    <3> QED
      BY <3>1
  <2>2. ((1 - 1) % 1) + 1 = 1
    <3>1. 1 \in Nat /\ 1 \in 1 .. 1
      OBVIOUS
    <3> QED
      BY <1>3, <3>1
  <2>3. ASSUME NEW t \in 1 .. config.tracks, NEW i \in DOMAIN Levels(config, t)[1]
        PROVE  /\ 1 + 1 \in DOMAIN Levels(config, t)[1][i]
               /\ Levels(config, t)[1][i][1 + 1] =
                     Owner(i, 1, Len(Levels(config, t)[1]))
               /\ Levels(config, t)[1][i][1 + 1] \in 1 .. 1
    <3>1. i \in 1 .. 1
      BY <2>3, <2>1
    <3>2. 2 \in DOMAIN Levels(config, t)[1][i] /\ 1 + 1 = 2
      BY <3>1, <2>1
    <3>3. Levels(config, t)[1][i][2] = ((i - 1) % 1) + 1
      BY <3>1, <2>1, <2>2
    <3>4. ((i - 1) % 1) + 1 \in 1 .. 1
      BY <3>1, <2>2
    <3> QED
      BY <3>2, <3>3, <3>4 DEF Owner
  <2> QED
    BY <2>3, Zenon DEF LastIsOwner
<1>5. LastIsOwner(2, n)
  <2>1. ASSUME NEW t \in 1 .. config.tracks, NEW i \in 1 .. n
        PROVE  Levels(config, t)[2][i] = <<t, 1, i>>
    BY <1>2
  <2>2. \A t \in 1 .. config.tracks : DOMAIN Levels(config, t)[2] = 1 .. n
    BY <1>2
  <2>3. \A i \in 1 .. n : ((i - 1) % n) + 1 = i
    BY <1>1, <1>3
  <2>4. ASSUME NEW t \in 1 .. config.tracks, NEW i \in DOMAIN Levels(config, t)[2]
        PROVE  /\ 2 + 1 \in DOMAIN Levels(config, t)[2][i]
               /\ Levels(config, t)[2][i][2 + 1] =
                     Owner(i, n, Len(Levels(config, t)[2]))
               /\ Levels(config, t)[2][i][2 + 1] \in 1 .. n
    <3>1. i \in 1 .. n
      BY <2>4, <2>2
    <3>2. 3 \in DOMAIN Levels(config, t)[2][i] /\ 2 + 1 = 3
      BY <3>1, <2>1
    <3>3. Levels(config, t)[2][i][3] = ((i - 1) % n) + 1
      BY <3>1, <2>1, <2>3
    <3>4. ((i - 1) % n) + 1 \in 1 .. n
      BY <3>1, <2>3
    <3> QED
      BY <3>2, <3>3, <3>4 DEF Owner
  <2> QED
    BY <2>4, Zenon DEF LastIsOwner
<1>6. LastIsOwner(3, k)
  <2>1. ASSUME NEW t \in 1 .. config.tracks, NEW i \in 1 .. n * k
        PROVE  Levels(config, t)[3][i] = <<t, 1, ((i - 1) \div k) + 1, ((i - 1) % k) + 1>>
    BY <1>2
  <2>2. \A t \in 1 .. config.tracks : DOMAIN Levels(config, t)[3] = 1 .. n * k
    BY <1>2
  <2>3. \A i \in 1 .. n * k : ((i - 1) % k) + 1 \in 1 .. k
    BY <1>1, Places
  <2>4. ASSUME NEW t \in 1 .. config.tracks, NEW i \in 1 .. n * k
        PROVE  /\ 4 \in DOMAIN Levels(config, t)[3][i]
               /\ Levels(config, t)[3][i][4] = ((i - 1) % k) + 1
    BY <2>1
  <2>5. ASSUME NEW t \in 1 .. config.tracks, NEW i \in DOMAIN Levels(config, t)[3]
        PROVE  /\ 3 + 1 \in DOMAIN Levels(config, t)[3][i]
               /\ Levels(config, t)[3][i][3 + 1] =
                     Owner(i, k, Len(Levels(config, t)[3]))
               /\ Levels(config, t)[3][i][3 + 1] \in 1 .. k
    <3>1. i \in 1 .. n * k
      BY <2>5, <2>2
    <3>2. 4 \in DOMAIN Levels(config, t)[3][i] /\ 3 + 1 = 4
      BY <3>1, <2>4
    <3>3. Levels(config, t)[3][i][4] = ((i - 1) % k) + 1
      BY <3>1, <2>4
    <3>4. ((i - 1) % k) + 1 \in 1 .. k
      BY <3>1, <2>3
    <3> QED
      BY <3>2, <3>3, <3>4 DEF Owner
  <2> QED
    BY <2>5, Zenon DEF LastIsOwner
<1> QED
  BY <1>4, <1>5, <1>6 DEF n, k

\* The paths of the nodes, level by level.
LEMMA HumanPaths ==
    ASSUME config \in Configs, Len(config.simulators) = 1, NEW t \in 1 .. config.tracks
    PROVE  /\ <<t, 1>> \in Range(Levels(config, t)[1])
           /\ \A a \in DOMAIN config.algorithms : <<t, 1, a>> \in Range(Levels(config, t)[2])
           /\ \A a \in DOMAIN config.algorithms, o \in DOMAIN config.outputs :
                 <<t, 1, a, o>> \in Range(Levels(config, t)[3])
           /\ \A path \in Range(Levels(config, t)[3]) :
                 \E a \in DOMAIN config.algorithms, o \in DOMAIN config.outputs :
                    path = <<t, 1, a, o>>
<1> DEFINE n == Len(config.algorithms)
           k == Len(config.outputs)
<1>1. /\ n \in Nat /\ k \in Nat /\ t \in Nat
      /\ DOMAIN config.algorithms = 1 .. n /\ DOMAIN config.outputs = 1 .. k
  BY ConfigShape
<1>2. /\ Levels(config, t)[1] = [i \in 1 .. 1 |-> <<t, i>>]
      /\ Levels(config, t)[2] = [i \in 1 .. n |-> <<t, 1, i>>]
      /\ Levels(config, t)[3] =
           [i \in 1 .. n * k |-> <<t, 1, ((i - 1) \div k) + 1, ((i - 1) % k) + 1>>]
  BY <1>1, HumanLevels
<1> HIDE DEF n, k
<1>3. <<t, 1>> \in Range(Levels(config, t)[1])
  <2>1. 1 \in DOMAIN Levels(config, t)[1] /\ Levels(config, t)[1][1] = <<t, 1>>
    BY <1>2
  <2> QED
    BY <2>1 DEF Range
<1>4. ASSUME NEW a \in 1 .. n PROVE <<t, 1, a>> \in Range(Levels(config, t)[2])
  <2>1. a \in DOMAIN Levels(config, t)[2] /\ Levels(config, t)[2][a] = <<t, 1, a>>
    BY <1>2
  <2> QED
    BY <2>1 DEF Range
<1>5. ASSUME NEW a \in 1 .. n, NEW o \in 1 .. k
      PROVE  <<t, 1, a, o>> \in Range(Levels(config, t)[3])
  <2> DEFINE j == (a - 1) * k + o
  <2>1. a - 1 \in Nat /\ o - 1 \in Nat /\ o - 1 < k
    BY <1>1
  <2>2. ((a - 1) * k + (o - 1)) % k = o - 1 /\ ((a - 1) * k + (o - 1)) \div k = a - 1
    BY <1>1, <2>1, Digits
  <2>3. j \in Int /\ j - 1 = (a - 1) * k + (o - 1)
    BY <1>1
  <2>4. j \in 1 .. n * k
    BY <1>1, Z3T(30)
  <2> HIDE DEF j
  <2>5. ((j - 1) \div k) + 1 = a /\ ((j - 1) % k) + 1 = o
    BY <2>2, <2>3
  <2>6. j \in DOMAIN Levels(config, t)[3] /\ Levels(config, t)[3][j] = <<t, 1, a, o>>
    BY <1>2, <2>4, <2>5
  <2> QED
    BY <2>6 DEF Range
<1>6. ASSUME NEW path \in Range(Levels(config, t)[3])
      PROVE  \E a \in 1 .. n, o \in 1 .. k : path = <<t, 1, a, o>>
  <2>1. PICK i \in 1 .. n * k :
           path = <<t, 1, ((i - 1) \div k) + 1, ((i - 1) % k) + 1>>
    BY <1>2 DEF Range
  <2>2. ((i - 1) \div k) + 1 \in 1 .. n /\ ((i - 1) % k) + 1 \in 1 .. k
    BY <1>1, Places
  <2> QED
    BY <2>1, <2>2
<1> QED
  BY <1>1, <1>3, <1>4, <1>5, <1>6

\* The nodes of the HumanCalculator: one for each track and algorithm.
LEMMA HumanNodesAre ==
    ASSUME config \in Configs, Len(config.simulators) = 1,
           NEW h \in DOMAIN config.outputs, Humans(config) = {h}
    PROVE  HumanNodes =
             {<<t, 1, a, h>> : t \in 1 .. config.tracks, a \in DOMAIN config.algorithms}
<1> DEFINE Nodes(t) == {path \in Range(Levels(config, t)[3]) : path[4] \in Humans(config)}
<1>1. ASSUME NEW t \in 1 .. config.tracks
      PROVE  Nodes(t) = {<<t, 1, a, h>> : a \in DOMAIN config.algorithms}
  <2>1. ASSUME NEW path \in Nodes(t)
        PROVE  \E a \in DOMAIN config.algorithms : path = <<t, 1, a, h>>
    <3>1. PICK a \in DOMAIN config.algorithms, o \in DOMAIN config.outputs :
             path = <<t, 1, a, o>>
      BY HumanPaths
    <3>2. o = h
      BY <3>1
    <3> QED
      BY <3>1, <3>2
  <2>2. ASSUME NEW a \in DOMAIN config.algorithms PROVE <<t, 1, a, h>> \in Nodes(t)
    <3>1. <<t, 1, a, h>> \in Range(Levels(config, t)[3])
      BY HumanPaths
    <3> QED
      BY <3>1
  <2> QED
    BY <2>1, <2>2
<1>2. HumanNodes = UNION {Nodes(t) : t \in 1 .. config.tracks}
  BY DEF HumanNodes
<1> HIDE DEF Nodes
<1> QED
  BY <1>1, <1>2

\* The study finds the module of every node it looks up.
LEMMA HumanNamed ==
    ASSUME IInv, Saved, Humans(config) # {}, NEW path \in HumanNodes
    PROVE  /\ Named(path)
           /\ Owners(2, Ancestor(path, 3)) = {path[3]}
<1>1. /\ config \in Configs /\ Len(config.simulators) = 1
      /\ nodeIds[1] = Given(config, 1, 1)
      /\ nodeIds[2] = Given(config, 2, Len(config.algorithms))
      /\ nodeIds[3] = Given(config, 3, Len(config.outputs))
  BY HumanRun
<1>2. PICK h \in DOMAIN config.outputs : Humans(config) = {h}
  BY HumanRun
<1>3. PICK t \in 1 .. config.tracks, a \in DOMAIN config.algorithms : path = <<t, 1, a, h>>
  BY <1>1, <1>2, HumanNodesAre
<1>4. /\ <<t, 1>> \in Range(Levels(config, t)[1])
      /\ <<t, 1, a>> \in Range(Levels(config, t)[2])
      /\ <<t, 1, a, h>> \in Range(Levels(config, t)[3])
  BY <1>1, HumanPaths
<1>5. LastIsOwner(1, 1) /\ LastIsOwner(2, Len(config.algorithms)) /\ LastIsOwner(3, Len(config.outputs))
  BY <1>1, HumanLevelsOwned
<1>6. Owners(1, NodeId(config, <<t, 1>>)) = {1}
  <2>1. Owners(1, NodeId(config, <<t, 1>>)) = {<<t, 1>>[1 + 1]}
    BY <1>1, <1>4, <1>5, OnlyOwner
  <2> QED
    BY <2>1
<1>7. Owners(2, NodeId(config, <<t, 1, a>>)) = {a}
  <2>1. Owners(2, NodeId(config, <<t, 1, a>>)) = {<<t, 1, a>>[2 + 1]}
    BY <1>1, <1>4, <1>5, OnlyOwner
  <2> QED
    BY <2>1
<1>8. Owners(3, NodeId(config, <<t, 1, a, h>>)) = {h}
  <2>1. Owners(3, NodeId(config, <<t, 1, a, h>>)) = {<<t, 1, a, h>>[3 + 1]}
    BY <1>1, <1>4, <1>5, OnlyOwner
  <2> QED
    BY <2>1
<1>9. /\ Ancestor(path, 2) = NodeId(config, <<t, 1>>)
      /\ Ancestor(path, 3) = NodeId(config, <<t, 1, a>>)
      /\ Ancestor(path, 4) = NodeId(config, <<t, 1, a, h>>)
  BY <1>3, Ancestors DEF Ancestor
<1>10. Unambiguous(1, Ancestor(path, 2)) /\ Unambiguous(2, Ancestor(path, 3))
       /\ Unambiguous(3, Ancestor(path, 4))
  <2>1. \A x : Cardinality({x}) = 1
    BY FS_Singleton
  <2>2. \A c, id, x : Owners(c, id) = {x} => Unambiguous(c, id)
    BY <2>1 DEF Unambiguous
  <2> QED
    BY <1>6, <1>7, <1>8, <1>9, <2>2
<1>11. \A k \in 2 .. 4 : Unambiguous(k - 1, Ancestor(path, k))
  <2> SUFFICES ASSUME NEW k \in 2 .. 4 PROVE Unambiguous(k - 1, Ancestor(path, k))
    OBVIOUS
  <2>1. k = 2 \/ k = 3 \/ k = 4
    OBVIOUS
  <2> QED
    BY <1>10, <2>1
<1>12. Owners(3, Ancestor(path, 4)) = Humans(config)
  BY <1>2, <1>8, <1>9
<1>13. Owners(2, Ancestor(path, 3)) = {path[3]}
  BY <1>3, <1>7, <1>9
<1> QED
  BY <1>11, <1>12, <1>13 DEF Named

\* Without tracks or algorithms there is nothing to prepare; otherwise the conditions
\* name every algorithm by its own index.
LEMMA ConditionsFollow ==
    ASSUME IInv, PrepareStudy
    PROVE  \/ /\ stage' = "failed"
              /\ config.tracks = 0 \/ config.algorithms = << >>
           \/ /\ stage' = "prepared"
              /\ conditions' =
                   {<<t, a, a>> : t \in 1 .. config.tracks, a \in DOMAIN config.algorithms}
<1>1. stage = "saved" /\ Saved /\ Humans(config) # {}
  BY DEF PrepareStudy, Saved
<1>2. config \in Configs /\ Len(config.simulators) = 1
  BY <1>1, HumanRun
<1>3. PICK h \in DOMAIN config.outputs : Humans(config) = {h}
  BY <1>1, HumanRun
<1>4. HumanNodes = {<<t, 1, a, h>> : t \in 1 .. config.tracks, a \in DOMAIN config.algorithms}
  BY <1>2, <1>3, HumanNodesAre
<1>5. \A path \in HumanNodes : Named(path) /\ Owners(2, Ancestor(path, 3)) = {path[3]}
  BY <1>1, HumanNamed
<1>6. CASE HumanNodes = {}
  <2>1. stage' = "failed"
    BY <1>6 DEF PrepareStudy
  <2>2. ASSUME config.tracks # 0, config.algorithms # << >> PROVE FALSE
    <3>1. config.tracks \in Nat /\ Len(config.algorithms) \in Nat
          /\ DOMAIN config.algorithms = 1 .. Len(config.algorithms)
      BY <1>2, ConfigShape
    <3>2. Len(config.algorithms) # 0
      BY <1>2, <2>2, ConfigShape, EmptySeq
    <3>3. 1 \in 1 .. config.tracks /\ 1 \in DOMAIN config.algorithms
      BY <2>2, <3>1, <3>2
    <3>4. <<1, 1, 1, h>> \in HumanNodes
      BY <1>4, <3>3
    <3> QED
      BY <1>6, <3>4
  <2> QED
    BY <2>1, <2>2
<1> DEFINE Condition(path) == <<path[1], path[3], CHOOSE m \in Owners(2, Ancestor(path, 3)) : TRUE>>
<1>7. CASE HumanNodes # {}
  <2>1. stage' = "prepared" /\ conditions' = {Condition(path) : path \in HumanNodes}
    BY <1>5, <1>7 DEF PrepareStudy
  <2>2. ASSUME NEW path \in HumanNodes
        PROVE  Condition(path) = <<path[1], path[3], path[3]>>
    <3>1. (CHOOSE m \in {path[3]} : TRUE) = path[3]
      OBVIOUS
    <3> QED
      BY <1>5, <3>1
  <2>3. ASSUME NEW t \in 1 .. config.tracks, NEW a \in DOMAIN config.algorithms
        PROVE  <<t, 1, a, h>> \in HumanNodes /\ Condition(<<t, 1, a, h>>) = <<t, a, a>>
    <3>1. <<t, 1, a, h>> \in HumanNodes
      BY <1>4
    <3>2. Condition(<<t, 1, a, h>>) =
             <<<<t, 1, a, h>>[1], <<t, 1, a, h>>[3], <<t, 1, a, h>>[3]>>
      BY <2>2, <3>1
    <3> QED
      BY <3>1, <3>2
  <2>4. ASSUME NEW path \in HumanNodes
        PROVE  \E t \in 1 .. config.tracks, a \in DOMAIN config.algorithms : path = <<t, 1, a, h>>
    BY <1>4
  <2> HIDE DEF Condition
  <2>5. conditions' = {<<t, a, a>> : t \in 1 .. config.tracks, a \in DOMAIN config.algorithms}
    <3>1. ASSUME NEW x \in conditions'
          PROVE  \E t \in 1 .. config.tracks, a \in DOMAIN config.algorithms : x = <<t, a, a>>
      BY <2>1, <2>3, <2>4
    <3>2. ASSUME NEW t \in 1 .. config.tracks, NEW a \in DOMAIN config.algorithms
          PROVE  <<t, a, a>> \in conditions'
      BY <2>1, <2>3
    <3> QED
      BY <2>1, <3>1, <3>2
  <2> QED
    BY <2>1, <2>5
<1> QED
  BY <1>6, <1>7

-----------------------------------------------------------------------------
(* The construction makes an algorithm of an algorithm *)

\* What is left of a tree when channels are dropped, at any depth, is a tree:
\* the settings of every algorithm list exactly the algorithms inside it.
LEMMA HydratedIsAlgorithm ==
    ASSUME NEW t, IsAlgorithm(t), ~Raises(t)
    PROVE  IsAlgorithm(Hydrate(t))
<1> DEFINE h == Hydrate(t)
           P == STRING \X Nat
<1>1. /\ DOMAIN h = Built(t)
      /\ \A p \in Built(t) : h[p] = HydrateSettings(t[p])
  BY HydratedNode DEF Hydrate
<1> HIDE DEF h
<1>2. \A p \in Built(t) :
         /\ p \in DOMAIN t /\ p \in Seq(P) /\ IsSettings(t[p])
         /\ \A k \in DOMAIN p : Kept(t[SubSeq(p, 1, k - 1)], p[k][1])
  BY DEF Built, IsAlgorithm
<1>3. << >> \in Built(t)
  BY DEF Built, IsAlgorithm
<1>4. ASSUME NEW p \in Built(t)
      PROVE  /\ IsSettings(h[p])
             /\ \A place : place \in Nested(h[p]) <=> place \in Nested(t[p]) /\ Kept(t[p], place[1])
  <2> DEFINE m == t[p]
  <2>1. IsSettings(m) /\ h[p] = HydrateSettings(m)
    BY <1>1, <1>2
  <2>2. Advanced(m) => m.frequencies # Null
    BY DEF Raises, ChannelsRaise
  <2>3. CASE ~Advanced(m)
    <3>1. h[p] = m
      BY <2>1, <2>3, HydratedLeaf
    <3> QED
      BY <2>1, <2>3, <3>1 DEF Nested
  <2>4. CASE Advanced(m)
    <3> HIDE DEF m
    <3>1. /\ h[p].name = m.name
          /\ h[p].bands = [b \in {c \in DOMAIN m.bands : Kept(m, c)} |-> m.bands[b]]
          /\ h[p].frequencies = [b \in {c \in DOMAIN m.frequencies : Kept(m, c)} |-> m.frequencies[b]]
          /\ {"bands", "frequencies"} \subseteq DOMAIN h[p]
      BY <2>1, <2>4, HydratedAdvanced DEF IsSettings
    <3>2. Advanced(h[p])
      BY <2>4, <3>1 DEF Advanced
    <3>3. /\ \A b \in DOMAIN m.bands : m.bands[b] \in Nat \cup {Null}
          /\ \A b \in DOMAIN m.frequencies : m.frequencies[b] \in Seq(Int)
      BY <2>1, <2>2, <2>4 DEF IsSettings, m
    <3>4. IsSettings(h[p])
      BY <3>1, <3>3 DEF IsSettings
    <3>5. ASSUME NEW place
          PROVE  place \in Nested(h[p]) <=> place \in Nested(m) /\ Kept(m, place[1])
      <4>1. place \in Nested(h[p]) <=>
               \E b \in Lists(h[p]) : place \in {b} \X (1 .. h[p].bands[b])
        BY <3>2 DEF Nested
      <4>2. place \in Nested(m) <=> \E b \in Lists(m) : place \in {b} \X (1 .. m.bands[b])
        BY <2>4 DEF Nested
      <4>3. \A b \in Lists(h[p]) : b \in Lists(m) /\ Kept(m, b) /\ h[p].bands[b] = m.bands[b]
        BY <3>1 DEF Lists
      <4>4. \A b \in Lists(m) : Kept(m, b) => b \in Lists(h[p]) /\ h[p].bands[b] = m.bands[b]
        BY <3>1 DEF Lists
      <4>5. \A b, n : place \in {b} \X (1 .. n) => place[1] = b
        OBVIOUS
      <4> QED
        BY <4>1, <4>2, <4>3, <4>4, <4>5
    <3> QED
      BY <3>4, <3>5 DEF m
  <2> QED
    BY <2>3, <2>4
<1>5. ASSUME NEW p \in Built(t), NEW place \in Nested(h[p])
      PROVE  Append(p, place) \in Built(t)
  <2> DEFINE q == Append(p, place)
  <2>1. place \in Nested(t[p]) /\ Kept(t[p], place[1])
    BY <1>4, <1>5
  <2>2. q \in DOMAIN t /\ q \in Seq(P) /\ p \in Seq(P)
    BY <1>2, <2>1 DEF IsAlgorithm
  <2>3. place \in P
    <3>1. Len(p) + 1 \in DOMAIN q /\ q[Len(p) + 1] = place
      BY <2>2
    <3> QED
      BY <2>2, <3>1
  <2>4. Len(q) = Len(p) + 1 /\ q[Len(p) + 1] = place /\ \A i \in 1 .. Len(p) : q[i] = p[i]
    BY <2>2, <2>3, AppendProperties
  <2> HIDE DEF q
  <2>5. ASSUME NEW k \in 1 .. Len(p) + 1
        PROVE  SubSeq(q, 1, k - 1) = SubSeq(p, 1, k - 1)
    <3>1. /\ SubSeq(p, 1, k - 1) \in Seq(P) /\ Len(SubSeq(p, 1, k - 1)) = k - 1
          /\ \A i \in 1 .. k - 1 : SubSeq(p, 1, k - 1)[i] = p[i]
      BY <2>2, PrefixOf
    <3>2. /\ SubSeq(q, 1, k - 1) \in Seq(P) /\ Len(SubSeq(q, 1, k - 1)) = k - 1
          /\ \A i \in 1 .. k - 1 : SubSeq(q, 1, k - 1)[i] = q[i]
      BY <2>2, <2>4, PrefixOf
    <3>3. \A i \in 1 .. k - 1 : q[i] = p[i]
      BY <2>2, <2>4
    <3> QED
      BY <3>1, <3>2, <3>3, SeqEqual
  <2>6. SubSeq(p, 1, (Len(p) + 1) - 1) = p
    <3>1. (Len(p) + 1) - 1 = Len(p)
      BY <2>2
    <3> QED
      BY <2>2, <3>1, Prefix
  <2>7. ASSUME NEW k \in DOMAIN q PROVE Kept(t[SubSeq(q, 1, k - 1)], q[k][1])
    <3>1. k \in 1 .. Len(p) + 1
      BY <2>2, <2>4
    <3>2. CASE k = Len(p) + 1
      BY <2>1, <2>4, <2>5, <2>6, <3>1, <3>2
    <3>3. CASE k # Len(p) + 1
      <4>1. k \in DOMAIN p /\ k \in 1 .. Len(p)
        BY <2>2, <3>1, <3>3
      <4>2. Kept(t[SubSeq(p, 1, k - 1)], p[k][1])
        BY <1>2, <4>1
      <4> QED
        BY <2>4, <2>5, <3>1, <4>1, <4>2
    <3> QED
      BY <3>2, <3>3
  <2> QED
    BY <2>2, <2>7 DEF Built, q
<1>6. ASSUME NEW p \in Built(t), NEW k \in DOMAIN p
      PROVE  SubSeq(p, 1, k - 1) \in Built(t) /\ p[k] \in Nested(h[SubSeq(p, 1, k - 1)])
  <2> DEFINE q == SubSeq(p, 1, k - 1)
  <2>1. p \in Seq(P) /\ p \in DOMAIN t /\ k \in 1 .. Len(p)
    BY <1>2
  <2>2. q \in DOMAIN t /\ p[k] \in Nested(t[q]) /\ Kept(t[q], p[k][1])
    BY <1>2, <2>1 DEF IsAlgorithm
  <2>3. /\ q \in Seq(P) /\ Len(q) = k - 1
        /\ \A i \in 1 .. k - 1 : q[i] = p[i]
    BY <2>1, PrefixOf
  <2> HIDE DEF q
  <2>4. ASSUME NEW i \in DOMAIN q PROVE Kept(t[SubSeq(q, 1, i - 1)], q[i][1])
    <3>1. i \in DOMAIN p /\ i \in 1 .. k - 1
      BY <2>1, <2>3
    <3>2. SubSeq(q, 1, i - 1) = SubSeq(p, 1, i - 1)
      <4> DEFINE n == i - 1
      <4>1. n \in Nat /\ n <= Len(q) /\ n <= Len(p)
        BY <2>1, <2>3, <3>1
      <4>2. \A j \in 1 .. n : q[j] = p[j]
        BY <2>3, <3>1
      <4> HIDE DEF n
      <4>3. /\ SubSeq(p, 1, n) \in Seq(P) /\ Len(SubSeq(p, 1, n)) = n
            /\ \A j \in 1 .. n : SubSeq(p, 1, n)[j] = p[j]
        BY <2>1, <4>1, PrefixOf
      <4>4. /\ SubSeq(q, 1, n) \in Seq(P) /\ Len(SubSeq(q, 1, n)) = n
            /\ \A j \in 1 .. n : SubSeq(q, 1, n)[j] = q[j]
        BY <2>3, <4>1, PrefixOf
      <4>5. SubSeq(q, 1, n) = SubSeq(p, 1, n)
        BY <4>2, <4>3, <4>4, SeqEqual
      <4> QED
        BY <4>5 DEF n
    <3>3. Kept(t[SubSeq(p, 1, i - 1)], p[i][1])
      BY <1>2, <3>1
    <3> QED
      BY <2>3, <3>1, <3>2, <3>3
  <2>5. q \in Built(t)
    BY <2>2, <2>4 DEF Built
  <2> QED
    BY <1>4, <2>2, <2>5 DEF q
<1>7. IsAlgorithm(h)
  BY <1>1, <1>2, <1>3, <1>4, <1>5, <1>6 DEF IsAlgorithm
<1> QED
  BY <1>7 DEF h

-----------------------------------------------------------------------------
(* The invariant *)

\* Nothing has happened to a configuration that was just received.
LEMMA InitIInv == Init => IInv
BY DEF Init, IInv, TypeOK, Stages, PastValidation, BuiltFromConfig, ConditionsAreAlgorithms, Saved

\* A configuration becomes valid only without errors.
LEMMA ValidateIInv == IInv /\ Validate => IInv'
BY DEF IInv, Validate, TypeOK, Stages, PastValidation, BuiltFromConfig, ConditionsAreAlgorithms, Saved

\* A run is saved as the construction makes it, or cannot be built.
LEMMA SaveRunIInv == IInv /\ SaveRun => IInv'
<1> SUFFICES ASSUME IInv, SaveRun PROVE IInv'
  OBVIOUS
<1>1. config' = config /\ stage = "valid" /\ stage' \in {"unprepared", "saved"}
  BY DEF SaveRun
<1>2. TypeOK' /\ PastValidation' /\ ConditionsAreAlgorithms'
  BY <1>1 DEF IInv, TypeOK, Stages, PastValidation, ConditionsAreAlgorithms
<1>3. BuiltFromConfig'
  BY <1>1 DEF SaveRun, BuiltFromConfig, Saved, NotBuilt
<1> QED
  BY <1>2, <1>3 DEF IInv

\* The study of a valid human run is prepared, or has nothing in it.
LEMMA PrepareStudyIInv == IInv /\ PrepareStudy => IInv'
<1> SUFFICES ASSUME IInv, PrepareStudy PROVE IInv'
  OBVIOUS
<1>1. stage = "saved" /\ UNCHANGED <<config, errors, hydrated, nodeIds>>
  BY DEF PrepareStudy
<1>2. \/ stage' = "failed" /\ (config.tracks = 0 \/ config.algorithms = << >>)
      \/ /\ stage' = "prepared"
         /\ conditions' = {<<t, a, a>> : t \in 1 .. config.tracks, a \in DOMAIN config.algorithms}
  BY ConditionsFollow
<1>3. TypeOK' /\ PastValidation'
  BY <1>1, <1>2 DEF IInv, TypeOK, Stages, PastValidation
<1>4. BuiltFromConfig'
  BY <1>1, <1>2 DEF IInv, BuiltFromConfig, Saved, NotBuilt
<1>5. ConditionsAreAlgorithms'
  BY <1>1, <1>2 DEF ConditionsAreAlgorithms
<1> QED
  BY <1>3, <1>4, <1>5 DEF IInv

\* A run whose material is refused stays as it is.
LEMMA RefuseMaterialIInv == IInv /\ RefuseMaterial => IInv'
BY DEF IInv, RefuseMaterial, TypeOK, Stages, PastValidation, BuiltFromConfig, NotBuilt,
       ConditionsAreAlgorithms, Saved

\* IInv holds in every reachable state, for all configurations.
THEOREM Invariant == Spec => []IInv
<1>1. IInv /\ [Next]_vars => IInv'
  <2> SUFFICES ASSUME IInv, [Next]_vars PROVE IInv'
    OBVIOUS
  <2>1. CASE UNCHANGED vars
    BY <2>1 DEF vars, IInv, TypeOK, PastValidation, BuiltFromConfig, NotBuilt,
           ConditionsAreAlgorithms, Saved
  <2> QED
    BY <2>1, ValidateIInv, SaveRunIInv, PrepareStudyIInv, RefuseMaterialIInv DEF Next
<1> QED
  BY <1>1, InitIInv, PTL DEF Spec

\* No saved run combines a simulator with an algorithm that cannot take its
\* packets, at any of the depths the validation looks at.
THEOREM SizesFitAlways == Spec => []SizesFit
BY Invariant, SizesFollow, PTL

\* The construction raises only for modules or settings that are missing, for null, or
\* for what lies deeper than the validation looks, and keeps channels and frequencies
\* together.
THEOREM ValidConfigsAreBuiltAlways == Spec => []ValidConfigsAreBuilt
BY Invariant, BuiltFollows, PTL

\* A saved human run fails to be prepared only without tracks or algorithms, or for its
\* material, and the conditions of one that is prepared are its algorithms.
THEOREM ConditionsAreAlgorithmsAlways == Spec => []ConditionsAreAlgorithms
<1>1. IInv => ConditionsAreAlgorithms
  BY DEF IInv
<1> QED
  BY <1>1, Invariant, PTL

\* What a saved run is built from are whole algorithms: nothing that its
\* settings name was dropped, and nothing was kept that they do not name.
HydratedAreAlgorithms == Saved => \A h \in Range(hydrated) : IsAlgorithm(h)

\* The trees of a saved run are trees again, channel by channel and level by
\* level, below the depth the validation looks at too.
THEOREM HydratedAreAlgorithmsAlways == Spec => []HydratedAreAlgorithms
<1>1. IInv => HydratedAreAlgorithms
  <2> SUFFICES ASSUME IInv, Saved, NEW h \in Range(hydrated) PROVE IsAlgorithm(h)
    BY DEF HydratedAreAlgorithms
  <2>1. config \in Configs /\ BuiltFromConfig
    BY DEF IInv, TypeOK
  <2>2. PICK t \in Range(config.algorithms) : h = Hydrate(t) /\ ~Raises(t)
    BY <2>1, HydratedFrom
  <2>3. IsAlgorithm(t)
    BY <2>1, <2>2, ConfigShape
  <2> QED
    BY <2>2, <2>3, HydratedIsAlgorithm
<1> QED
  BY <1>1, Invariant, PTL

=============================================================================
