--------------------------- MODULE AudioPage_proofs ---------------------------
(***************************************************************************)
(* The safety of the page's audio, for any number of trials, conditions,   *)
(* loads and faults, any sizes, sample rates and budget.  The accounts of  *)
(* each load are kept by every step of its loaders, and a load begins only *)
(* when the one before is over, so that one load at most holds buffers.    *)
(***************************************************************************)
EXTENDS AudioPage, Integers, WellFoundedInduction, TLAPS

-----------------------------------------------------------------------------
(* Arithmetic *)

LEMMA ProductsGrow ==
    ASSUME NEW a \in Nat, NEW b \in Nat, NEW c \in Nat, a <= b
    PROVE  a * c <= b * c /\ a * c \in Nat
<1>1. PICK d \in Nat : b = a + d
  <2>1. b - a \in Nat /\ b = a + (b - a)
    OBVIOUS
  <2> QED BY <2>1
<1>2. (a + d) * c = a * c + d * c /\ d * c \in Nat /\ a * c \in Nat
  OBVIOUS
<1> QED BY <1>1, <1>2

LEMMA HalvesGrow ==
    ASSUME NEW a \in Nat, NEW b \in Nat
    PROVE  /\ CeilHalf(a) \in Nat
           /\ a <= b => CeilHalf(a) <= CeilHalf(b)
           /\ CeilHalf(a + b) <= CeilHalf(a) + CeilHalf(b)
           /\ a <= 2 * b => CeilHalf(a) <= b
  BY DEF CeilHalf

-----------------------------------------------------------------------------
(* Sizes *)

\* The study and the browser it is heard in.
StudyOK == size \in [1 .. Trials -> Sizes] /\ rate \in Rates

LEMMA SizesAreNumbers ==
    ASSUME StudyOK, NEW t \in 0 .. Trials
    PROVE  /\ SizeOf(t) \in Nat /\ SizeOf(t) > 0 /\ rate \in Nat /\ rate > 0
           /\ Buffers(t) \in Nat /\ 0 < Buffers(t) /\ Buffers(t) <= 2 + PLC
           /\ Decoded(t) \in Nat /\ Reserved(t) \in Nat
<1>1. PICK i \in 1 .. Trials : SizeOf(t) = size[i]
  <2>1. (IF t = 0 THEN 1 ELSE t) \in 1 .. Trials
    BY AudioAssumption
  <2> QED BY <2>1 DEF SizeOf
<1>2. /\ SizeOf(t) \in Nat /\ SizeOf(t) > 0 /\ rate \in Nat /\ rate > 0
      /\ Header \in Nat /\ Allowance \in Nat
  <2>1. size[i] \in Nat \ {0} /\ rate \in Nat \ {0}
    BY AudioAssumption DEF StudyOK
  <2>2. Header \in Nat /\ Allowance \in Nat
    BY AudioAssumption
  <2> QED BY <1>1, <2>1, <2>2
<1>3. Buffers(t) \in Nat /\ 0 < Buffers(t) /\ Buffers(t) <= 2 + PLC
  BY AudioAssumption DEF Buffers
<1>4. Decoded(t) \in Nat
  <2>1. SizeOf(t) * rate \in Nat
    BY <1>2
  <2> QED BY <2>1, HalvesGrow DEF Decoded
<1>5. Reserved(t) \in Nat
  <2>1. CASE SizeOf(t) + Header > Allowance
    <3>1. SizeOf(t) + Header - Allowance \in Nat
      BY <1>2, <2>1
    <3>2. (SizeOf(t) + Header - Allowance) * rate \in Nat
      BY <1>2, <3>1
    <3> QED BY <2>1, <3>2, HalvesGrow DEF Reserved
  <2>2. CASE ~(SizeOf(t) + Header > Allowance)
    BY <2>2 DEF Reserved
  <2> QED BY <2>1, <2>2
<1> QED BY <1>2, <1>3, <1>4, <1>5

\* What a buffer takes beyond what was reserved for its file: the part of the
\* allowance that its header does not use.
Slack == CeilHalf((Allowance - Header) * rate)

LEMMA ReservationsCover ==
    ASSUME StudyOK, NEW t \in 0 .. Trials
    PROVE  Slack \in Nat /\ Decoded(t) <= Reserved(t) + Slack
<1>1. /\ SizeOf(t) \in Nat /\ rate \in Nat /\ Allowance - Header \in Nat
      /\ Header \in Nat /\ Allowance \in Nat
  BY SizesAreNumbers, AudioAssumption
<1> DEFINE a == SizeOf(t)  b == Allowance - Header
<1>2. a * rate \in Nat /\ b * rate \in Nat
  BY <1>1
<1>3. Slack \in Nat
  BY <1>2, HalvesGrow DEF Slack
<1>4. CASE a + Header > Allowance
  <2>1. PICK c \in Nat : c = a + Header - Allowance
    BY <1>1, <1>4
  <2>2. a = c + b
    BY <1>1, <2>1
  <2>3. (c + b) * rate = c * rate + b * rate /\ c * rate \in Nat
    BY <1>1, <2>1
  <2>4. CeilHalf(c * rate + b * rate) <= CeilHalf(c * rate) + CeilHalf(b * rate)
    BY <1>2, <2>3, HalvesGrow
  <2>5. Reserved(t) = CeilHalf(c * rate)
    BY <1>4, <2>1 DEF Reserved
  <2>6. Decoded(t) = CeilHalf((c + b) * rate)
    BY <2>2 DEF Decoded
  <2> HIDE DEF a, b
  <2> QED BY <1>3, <2>3, <2>4, <2>5, <2>6 DEF Slack, b
<1>5. CASE ~(a + Header > Allowance)
  <2>1. a <= b
    BY <1>1, <1>5
  <2>2. a * rate <= b * rate
    BY <1>1, <2>1, ProductsGrow
  <2>3. Decoded(t) <= Slack
    BY <1>2, <2>2, HalvesGrow DEF Decoded, Slack
  <2>4. Reserved(t) = 0 /\ Decoded(t) \in Nat
    BY <1>5, SizesAreNumbers DEF Reserved
  <2> QED BY <1>3, <2>3, <2>4
<1> QED BY <1>3, <1>4, <1>5

\* A browser that is not faster than the study sees no more than the service did.
LEMMA ServiceSawIt ==
    ASSUME StudyOK, ServerAccepts(size), rate <= 2, NEW t \in 0 .. Trials
    PROVE  /\ Decoded(t) <= SizeOf(t) /\ Reserved(t) <= SizeOf(t)
           /\ Buffers(t) * SizeOf(t) <= Budget /\ SizeOf(t) <= Budget
<1>1. /\ SizeOf(t) \in Nat /\ SizeOf(t) > 0 /\ rate \in Nat /\ Header \in Nat
      /\ Allowance \in Nat /\ Header <= Allowance /\ Budget \in Nat
      /\ Buffers(t) \in Nat /\ 0 < Buffers(t) /\ Buffers(t) <= 2 + PLC /\ PLC \in Nat
  BY SizesAreNumbers, AudioAssumption
<1>2. \A n \in Nat : n * rate <= 2 * n /\ n * rate \in Nat
  BY <1>1, ProductsGrow
<1>3. Decoded(t) <= SizeOf(t)
  BY <1>1, <1>2, HalvesGrow DEF Decoded
<1>4. Reserved(t) <= SizeOf(t)
  <2>1. CASE SizeOf(t) + Header > Allowance
    <3>1. PICK c \in Nat : c = SizeOf(t) + Header - Allowance
      BY <1>1, <2>1
    <3>2. CeilHalf(c * rate) <= c
      BY <1>2, <3>1, HalvesGrow
    <3>3. Reserved(t) = CeilHalf(c * rate)
      BY <2>1, <3>1 DEF Reserved
    <3>4. c <= SizeOf(t)
      BY <1>1, <3>1
    <3>5. CeilHalf(c * rate) \in Nat
      BY <1>2, HalvesGrow
    <3> QED BY <1>1, <3>2, <3>3, <3>4, <3>5
  <2>2. CASE ~(SizeOf(t) + Header > Allowance)
    BY <1>1, <2>2 DEF Reserved
  <2> QED BY <2>1, <2>2
<1>5. (2 + PLC) * SizeOf(t) <= Budget
  <2>1. (IF t = 0 THEN 1 ELSE t) \in 1 .. Trials
    BY AudioAssumption
  <2> QED BY <2>1 DEF ServerAccepts, SizeOf
<1>6. Buffers(t) * SizeOf(t) <= (2 + PLC) * SizeOf(t) /\ Buffers(t) * SizeOf(t) \in Nat
  BY <1>1, ProductsGrow
<1>7. 1 * SizeOf(t) <= (2 + PLC) * SizeOf(t)
  BY <1>1, ProductsGrow
<1>8. (2 + PLC) * SizeOf(t) \in Nat
  BY <1>1
<1> QED BY <1>1, <1>3, <1>4, <1>5, <1>6, <1>7, <1>8

-----------------------------------------------------------------------------
(* The accounts of a load *)

\* The counters of a load and the sizes of its buffers are natural numbers.
LEMMA LoadFields ==
    ASSUME StudyOK, NEW l \in Load
    PROVE  /\ l.trial \in 0 .. Trials
           /\ l.left \in Nat /\ l.fetching \in Nat /\ l.reading \in Nat
           /\ l.decoding \in Nat /\ l.reserved \in Nat /\ l.kept \in Nat
           /\ l.pc \in {"none", "working", "settling", "over"}
           /\ l.navigating \in BOOLEAN /\ l.aborted \in BOOLEAN /\ l.timedOut \in BOOLEAN
           /\ Buffers(l.trial) \in Nat /\ Reserved(l.trial) \in Nat
           /\ Decoded(l.trial) \in Nat /\ Budget \in Nat
<1>1. /\ l.trial \in 0 .. Trials
      /\ l.left \in Nat /\ l.fetching \in Nat /\ l.reading \in Nat
      /\ l.decoding \in Nat /\ l.reserved \in Nat /\ l.kept \in Nat
      /\ l.pc \in {"none", "working", "settling", "over"}
      /\ l.navigating \in BOOLEAN /\ l.aborted \in BOOLEAN /\ l.timedOut \in BOOLEAN
  BY DEF Load, Concurrency
<1> QED BY <1>1, SizesAreNumbers, AudioAssumption

\* Loaders take turns with l's files: m is what a step leaves.
LEMMA AnswerAccounted ==
    ASSUME StudyOK, NEW l \in Load, NEW m \in Load, Accounted(l), ~l.aborted,
           l.fetching > 0, (l.reserved + 1) * Reserved(l.trial) <= Budget,
           m.pc = l.pc, m.trial = l.trial, m.left = l.left,
           m.fetching = l.fetching - 1, m.reading = l.reading + 1,
           m.decoding = l.decoding, m.reserved = l.reserved + 1, m.kept = l.kept,
           m.aborted = l.aborted
    PROVE  Accounted(m) /\ m.pc = "working"
<1>1. l.pc = "working"
  BY LoadFields DEF Accounted, Concurrency
<1>2. Buffers(m.trial) = Buffers(l.trial) /\ Reserved(m.trial) = Reserved(l.trial)
      /\ Decoded(m.trial) = Decoded(l.trial)
  OBVIOUS
<1>3. m.reserved * Reserved(m.trial) <= Budget /\ m.kept * Decoded(m.trial) <= Budget
  BY <1>2 DEF Accounted
<1>4. l.left + (l.fetching + l.reading + l.decoding) + l.kept = Buffers(l.trial)
      /\ l.reading + l.decoding + l.kept = l.reserved
      /\ l.fetching + l.reading + l.decoding <= 3
  BY <1>1 DEF Accounted, Concurrency
<1>5. m.pc = "working" /\ ~m.aborted
  BY <1>1
<1>6. /\ m.fetching + m.reading + m.decoding <= 3
      /\ m.fetching + m.reading + m.decoding # 0
      /\ m.left + (m.fetching + m.reading + m.decoding) + m.kept = Buffers(m.trial)
      /\ m.reading + m.decoding + m.kept = m.reserved
      /\ m.reserved \in Nat /\ Buffers(m.trial) \in Nat
  BY <1>2, <1>4, LoadFields
<1> QED BY <1>3, <1>5, <1>6 DEF Accounted, Concurrency


LEMMA ReceiveAccounted ==
    ASSUME StudyOK, NEW l \in Load, NEW m \in Load, Accounted(l), ~l.aborted,
           l.reading > 0, m.pc = l.pc, m.trial = l.trial, m.left = l.left,
           m.fetching = l.fetching, m.reading = l.reading - 1,
           m.decoding = l.decoding + 1, m.reserved = l.reserved, m.kept = l.kept,
           m.aborted = l.aborted
    PROVE  Accounted(m) /\ m.pc = "working"
<1>1. l.pc = "working"
  BY LoadFields DEF Accounted, Concurrency
<1>2. Buffers(m.trial) = Buffers(l.trial) /\ Reserved(m.trial) = Reserved(l.trial)
      /\ Decoded(m.trial) = Decoded(l.trial)
  OBVIOUS
<1>3. m.reserved * Reserved(m.trial) <= Budget /\ m.kept * Decoded(m.trial) <= Budget
  BY <1>2 DEF Accounted
<1>4. l.left + (l.fetching + l.reading + l.decoding) + l.kept = Buffers(l.trial)
      /\ l.reading + l.decoding + l.kept = l.reserved
      /\ l.fetching + l.reading + l.decoding <= 3
  BY <1>1 DEF Accounted, Concurrency
<1>5. m.pc = "working" /\ ~m.aborted
  BY <1>1
<1>6. /\ m.fetching + m.reading + m.decoding = l.fetching + l.reading + l.decoding
      /\ m.reading + m.decoding + m.kept = l.reading + l.decoding + l.kept
      /\ m.fetching + m.reading + m.decoding # 0
  BY LoadFields
<1>7. /\ m.left + (m.fetching + m.reading + m.decoding) + m.kept = Buffers(m.trial)
      /\ m.reading + m.decoding + m.kept = m.reserved
      /\ m.reserved \in Nat /\ Buffers(m.trial) \in Nat
  BY <1>2, <1>4, <1>6, LoadFields
<1> QED BY <1>3, <1>4, <1>5, <1>6, <1>7, LoadFields DEF Accounted, Concurrency

\* A loader keeps a buffer and takes the next file, if there is one.
LEMMA KeepAccounted ==
    ASSUME StudyOK, NEW l \in Load, NEW m \in Load, Accounted(l), ~l.aborted,
           l.decoding > 0, (l.kept + 1) * Decoded(l.trial) <= Budget,
           m.pc = l.pc, m.trial = l.trial, m.left = l.left - Taken(l),
           m.fetching = l.fetching + Taken(l), m.reading = l.reading,
           m.decoding = l.decoding - 1, m.reserved = l.reserved, m.kept = l.kept + 1,
           m.aborted = l.aborted
    PROVE  Accounted(m) /\ m.pc = "working"
<1>1. l.pc = "working"
  BY LoadFields DEF Accounted, Concurrency
<1>2. Buffers(m.trial) = Buffers(l.trial) /\ Reserved(m.trial) = Reserved(l.trial)
      /\ Decoded(m.trial) = Decoded(l.trial)
  OBVIOUS
<1>3. m.reserved * Reserved(m.trial) <= Budget /\ m.kept * Decoded(m.trial) <= Budget
  BY <1>2 DEF Accounted
<1>4. l.left + (l.fetching + l.reading + l.decoding) + l.kept = Buffers(l.trial)
      /\ l.reading + l.decoding + l.kept = l.reserved
      /\ l.fetching + l.reading + l.decoding <= 3
  BY <1>1 DEF Accounted, Concurrency
<1>5. m.pc = "working" /\ ~m.aborted
  BY <1>1
<1>6. PICK k \in {0, 1} : Taken(l) = k /\ k <= l.left /\ (k = 0 => l.left = 0)
  BY LoadFields DEF Taken, Least
<1>7. /\ m.fetching + m.reading + m.decoding
             = (l.fetching + l.reading + l.decoding) - 1 + k
      /\ m.reading + m.decoding + m.kept = l.reading + l.decoding + l.kept
  <2>1. /\ l.fetching \in Nat /\ l.reading \in Nat /\ l.decoding \in Nat /\ l.kept \in Nat
        /\ m.fetching = l.fetching + k
    BY <1>6, LoadFields
  <2> QED BY <2>1
<1>8. m.left = l.left - k /\ m.kept = l.kept + 1
  BY <1>6
<1>9. /\ m.fetching + m.reading + m.decoding <= 3
      /\ m.fetching + m.reading + m.decoding = 0 => m.left = 0
  <2>1. /\ l.fetching \in Nat /\ l.reading \in Nat /\ l.decoding \in Nat
        /\ l.fetching + l.reading + l.decoding > 0 /\ l.left \in Nat
    BY LoadFields
  <2> DEFINE flying == l.fetching + l.reading + l.decoding
             after == m.fetching + m.reading + m.decoding
  <2>2. flying \in Nat /\ flying <= 3 /\ flying > 0 /\ after = flying - 1 + k
    BY <1>4, <1>7, <2>1
  <2> HIDE DEF flying, after
  <2>3. after <= 3 /\ (after = 0 => k = 0)
    BY <2>2
  <2>4. k = 0 => m.left = 0
    BY <1>6, <1>8
  <2> QED BY <2>3, <2>4 DEF after
<1>10. /\ m.left + (m.fetching + m.reading + m.decoding) + m.kept = Buffers(m.trial)
       /\ m.reading + m.decoding + m.kept = m.reserved
       /\ m.reserved \in Nat /\ Buffers(m.trial) \in Nat
  BY <1>2, <1>4, <1>6, <1>7, <1>8, LoadFields
<1> QED BY <1>3, <1>5, <1>9, <1>10, LoadFields DEF Accounted, Concurrency

\* A load that failed or was aborted only drops files.
LEMMA DropAccounted ==
    ASSUME StudyOK, NEW l \in Load, NEW m \in Load, Accounted(l),
           m.pc \in {"working", "settling"}, m.aborted,
           m.trial = l.trial, m.left = l.left, m.fetching <= l.fetching,
           m.reading <= l.reading, m.decoding <= l.decoding,
           m.reserved = l.reserved, m.kept = l.kept
    PROVE  Accounted(m)
<1>2. Buffers(m.trial) = Buffers(l.trial) /\ Reserved(m.trial) = Reserved(l.trial)
      /\ Decoded(m.trial) = Decoded(l.trial)
  OBVIOUS
<1>3. m.reserved * Reserved(m.trial) <= Budget /\ m.kept * Decoded(m.trial) <= Budget
  BY <1>2 DEF Accounted
<1>4. l.left + (l.fetching + l.reading + l.decoding) + l.kept <= Buffers(l.trial)
      /\ l.reading + l.decoding + l.kept <= l.reserved
      /\ l.fetching + l.reading + l.decoding <= 3
  BY DEF Accounted, Concurrency
<1>5. /\ m.fetching + m.reading + m.decoding <= 3
      /\ m.left + (m.fetching + m.reading + m.decoding) + m.kept <= Buffers(m.trial)
      /\ m.reading + m.decoding + m.kept <= m.reserved
  BY <1>2, <1>4, LoadFields
<1> QED BY <1>3, <1>5 DEF Accounted, Concurrency

\* A load that is over, or is still to come, holds nothing.
LEMMA NothingAccounted ==
    ASSUME StudyOK, NEW m \in Load, m.pc \in {"none", "over"}, m.left = 0,
           m.fetching = 0, m.reading = 0, m.decoding = 0, m.reserved = 0, m.kept = 0
    PROVE  Accounted(m)
<1>1. m.reserved * Reserved(m.trial) <= Budget /\ m.kept * Decoded(m.trial) <= Budget
  BY LoadFields
<1>2. /\ m.fetching + m.reading + m.decoding <= 3
      /\ m.left + (m.fetching + m.reading + m.decoding) + m.kept <= Buffers(m.trial)
      /\ m.reading + m.decoding + m.kept <= m.reserved
      /\ m.fetching + m.reading + m.decoding + m.kept = 0
  BY LoadFields
<1> QED BY <1>1, <1>2 DEF Accounted, Concurrency

LEMMA NoLoadFields ==
    ASSUME NEW pc \in {"none", "over"}, NEW t \in 0 .. Trials
    PROVE  /\ NoLoad(pc) \in Load
           /\ [NoLoad(pc) EXCEPT !.trial = t] \in Load
           /\ [NoLoad(pc) EXCEPT !.trial = t, !.decoding = 0] \in Load
           /\ [NoLoad(pc) EXCEPT !.trial = t, !.decoding = 0]
                = [NoLoad(pc) EXCEPT !.trial = t]
<1>1. 0 \in 0 .. Trials /\ 0 \in 0 .. Concurrency
  BY AudioAssumption DEF Concurrency
<1>2. NoLoad(pc) \in Load /\ NoLoad(pc).decoding = 0
  BY <1>1 DEF NoLoad, Load
<1> DEFINE s == [NoLoad(pc) EXCEPT !.trial = t]
<1>3. s \in Load /\ s.decoding = 0
  BY <1>2 DEF Load
<1>4. [s EXCEPT !.decoding = 0] = s
  BY <1>3 DEF Load
<1> QED BY <1>2, <1>3, <1>4

\* The first files of a trial have been asked for.
LEMMA NewLoadAccounted ==
    ASSUME StudyOK, NEW t \in 0 .. Trials, NEW n \in BOOLEAN
    PROVE  /\ NewLoad(t, n) \in Load /\ Accounted(NewLoad(t, n))
           /\ NewLoad(t, n).pc = "working" /\ NewLoad(t, n).trial = t
<1>1. PICK k \in 1 .. 3 : /\ k = Least(Concurrency, Buffers(t)) /\ k <= Buffers(t)
                          /\ Buffers(t) - k \in Nat
  BY SizesAreNumbers DEF Least, Concurrency
<1> DEFINE s == [NoLoad("working") EXCEPT !.trial = t, !.navigating = n]
           r == [s EXCEPT !.left = Buffers(t) - k]
           m == [r EXCEPT !.fetching = k]
<1>2. NewLoad(t, n) = m
  BY <1>1 DEF NewLoad
<1>3. 0 \in 0 .. Trials /\ 0 \in 0 .. Concurrency /\ k \in 0 .. Concurrency
  BY AudioAssumption DEF Concurrency
<1>4. s \in Load /\ s.pc = "working" /\ s.trial = t /\ s.left = 0 /\ s.fetching = 0
      /\ s.reading = 0 /\ s.decoding = 0 /\ s.reserved = 0 /\ s.kept = 0 /\ ~s.aborted
  BY <1>3 DEF NoLoad, Load
<1> HIDE DEF s
<1>5. r \in Load /\ r.pc = "working" /\ r.trial = t /\ r.left = Buffers(t) - k
      /\ r.fetching = 0 /\ r.reading = 0 /\ r.decoding = 0 /\ r.reserved = 0
      /\ r.kept = 0 /\ ~r.aborted
  BY <1>1, <1>4 DEF Load
<1> HIDE DEF r
<1>6. m \in Load /\ m.pc = "working" /\ m.trial = t /\ m.left = Buffers(t) - k
      /\ m.fetching = k /\ m.reading = 0 /\ m.decoding = 0 /\ m.reserved = 0
      /\ m.kept = 0 /\ ~m.aborted
  BY <1>3, <1>5 DEF Load
<1> HIDE DEF m
<1>7. m.reserved * Reserved(m.trial) <= Budget /\ m.kept * Decoded(m.trial) <= Budget
  BY <1>6, LoadFields
<1>8. /\ m.fetching + m.reading + m.decoding <= 3
      /\ m.fetching + m.reading + m.decoding # 0
      /\ m.left + (m.fetching + m.reading + m.decoding) + m.kept = Buffers(m.trial)
      /\ m.reading + m.decoding + m.kept = m.reserved
      /\ m.reserved \in Nat /\ Buffers(m.trial) \in Nat
  BY <1>1, <1>6, LoadFields
<1> QED BY <1>2, <1>6, <1>7, <1>8 DEF Accounted, Concurrency

-----------------------------------------------------------------------------
(* The moves of a load *)

\* A step of load g leaves m in its place, which is of the same trial and is
\* accounted for.
LoadMove(g, m) ==
    /\ load' \in [1 .. MaxLoads -> Load] /\ load'[g] = m
    /\ \A h \in 1 .. MaxLoads : h # g => load'[h] = load[h]
    /\ m \in Load /\ Accounted(m) /\ m.trial = load[g].trial

\* Its loaders are at work, and still are.
Moves(g) ==
    /\ Working(g)
    /\ \E m \in Load : LoadMove(g, m) /\ m.pc \in {"working", "settling"}

\* Files are in flight only while the loaders work, and no more than there are
\* loaders.
LEMMA InFlight ==
    ASSUME StudyOK, NEW l \in Load, Accounted(l)
    PROVE  /\ l.fetching > 0 \/ l.reading > 0 \/ l.decoding > 0 =>
                 l.pc \in {"working", "settling"}
           /\ l.fetching + l.reading + l.decoding <= 3
           /\ l.fetching > 0 => l.reading + 1 <= 3
           /\ l.reading > 0 => l.decoding + 1 <= 3
           /\ l.decoding > 0 => l.fetching + 1 <= 3
           /\ Taken(l) \in {0, 1} /\ l.left - Taken(l) \in Nat
<1>1. l.fetching + l.reading + l.decoding <= 3
      /\ (l.pc \in {"none", "over"} => l.fetching + l.reading + l.decoding + l.kept = 0)
  BY DEF Accounted, Concurrency
<1>2. Taken(l) \in {0, 1} /\ l.left - Taken(l) \in Nat
  <2>1. l.left \in Nat
    BY LoadFields
  <2> QED BY <2>1 DEF Taken, Least
<1> QED BY <1>1, <1>2, LoadFields

LEMMA Flying ==
    ASSUME StudyOK, load \in [1 .. MaxLoads -> Load], NEW g \in 1 .. MaxLoads,
           Accounted(load[g]),
           load[g].fetching > 0 \/ load[g].reading > 0 \/ load[g].decoding > 0
    PROVE  Working(g)
  BY InFlight DEF Working

LEMMA FailsChanges ==
    ASSUME NEW l \in Load
    PROVE  /\ Fails(l) \in Load /\ Fails(l).pc = "settling" /\ Fails(l).trial = l.trial
           /\ Fails(l).left = l.left /\ Fails(l).fetching = l.fetching
           /\ Fails(l).reading = l.reading /\ Fails(l).decoding = l.decoding
           /\ Fails(l).reserved = l.reserved /\ Fails(l).kept = l.kept /\ Fails(l).aborted
  BY DEF Load, Fails

LEMMA AnswerMoves ==
    ASSUME StudyOK, load \in [1 .. MaxLoads -> Load], NEW g \in 1 .. MaxLoads,
           Accounted(load[g]), load[g].fetching > 0, ~load[g].aborted, Fits(load[g]),
           load' = [load EXCEPT ![g].fetching = @ - 1, ![g].reading = @ + 1,
                                ![g].reserved = @ + 1]
    PROVE  Moves(g)
<1> DEFINE l == load[g]
           s == [l EXCEPT !.fetching = @ - 1, !.reading = @ + 1]
           m == [s EXCEPT !.reserved = @ + 1]
<1>1. l \in Load /\ l.fetching > 0 /\ ~l.aborted /\ Accounted(l)
      /\ (l.reserved + 1) * Reserved(l.trial) <= Budget
  BY DEF Fits
<1>2. l.reading < Concurrency
  BY <1>1, InFlight DEF Concurrency, Load
<1>3. s \in Load /\ s.pc = l.pc /\ s.trial = l.trial /\ s.left = l.left
      /\ s.fetching = l.fetching - 1 /\ s.reading = l.reading + 1
      /\ s.decoding = l.decoding /\ s.reserved = l.reserved /\ s.kept = l.kept
      /\ s.aborted = l.aborted
  BY <1>1, <1>2 DEF Load, Concurrency
<1>4. load' = [load EXCEPT ![g] = m]
  OBVIOUS
<1> HIDE DEF s
<1>5. m \in Load /\ m.pc = s.pc /\ m.trial = s.trial /\ m.left = s.left
      /\ m.fetching = s.fetching /\ m.reading = s.reading
      /\ m.decoding = s.decoding /\ m.reserved = s.reserved + 1 /\ m.kept = s.kept
      /\ m.aborted = s.aborted
  <2>1. s.reserved + 1 \in Nat
    BY <1>3, SMTT(30) DEF Load
  <2> QED BY <1>3, <2>1 DEF Load
<1> HIDE DEF m
<1>6. Accounted(m) /\ m.pc = "working"
  <2> HIDE DEF l
  <2> QED BY <1>1, <1>3, <1>5, AnswerAccounted
<1>7. LoadMove(g, m)
  BY <1>3, <1>4, <1>5, <1>6, ZenonT(60) DEF LoadMove
<1> QED BY <1>1, <1>5, <1>6, <1>7, Flying DEF Moves

LEMMA ReceiveMoves ==
    ASSUME StudyOK, load \in [1 .. MaxLoads -> Load], NEW g \in 1 .. MaxLoads,
           Accounted(load[g]), load[g].reading > 0, ~load[g].aborted,
           load' = [load EXCEPT ![g].reading = @ - 1, ![g].decoding = @ + 1]
    PROVE  Moves(g)
<1> DEFINE l == load[g]
           m == [l EXCEPT !.reading = @ - 1, !.decoding = @ + 1]
<1>1. l \in Load /\ l.reading > 0 /\ ~l.aborted /\ Accounted(l)
  OBVIOUS
<1>2. l.decoding < Concurrency
  BY <1>1, InFlight DEF Concurrency, Load
<1>3. m \in Load /\ m.pc = l.pc /\ m.trial = l.trial /\ m.left = l.left
      /\ m.fetching = l.fetching /\ m.reading = l.reading - 1
      /\ m.decoding = l.decoding + 1 /\ m.reserved = l.reserved /\ m.kept = l.kept
      /\ m.aborted = l.aborted
  BY <1>1, <1>2 DEF Load, Concurrency
<1>4. load' = [load EXCEPT ![g] = m]
  OBVIOUS
<1> HIDE DEF m
<1>6. Accounted(m) /\ m.pc = "working"
  <2> HIDE DEF l
  <2> QED BY <1>1, <1>3, ReceiveAccounted
<1>7. LoadMove(g, m)
  BY <1>3, <1>4, <1>6 DEF LoadMove
<1> QED BY <1>1, <1>3, <1>6, <1>7, Flying DEF Moves

LEMMA KeepMoves ==
    ASSUME StudyOK, load \in [1 .. MaxLoads -> Load], NEW g \in 1 .. MaxLoads,
           Accounted(load[g]), load[g].decoding > 0, ~load[g].aborted,
           (load[g].kept + 1) * Decoded(load[g].trial) <= Budget, NEW done,
           done = [load[g] EXCEPT !.decoding = @ - 1],
           load' = [load EXCEPT ![g] = [done EXCEPT
               !.kept = @ + 1, !.left = @ - Taken(load[g]), !.fetching = @ + Taken(load[g])]]
    PROVE  Moves(g)
<1> DEFINE l == load[g]
<1>1. l \in Load /\ l.decoding > 0 /\ ~l.aborted /\ Accounted(l)
      /\ (l.kept + 1) * Decoded(l.trial) <= Budget
  OBVIOUS
<1>2. PICK k \in {0, 1} : Taken(l) = k /\ l.left - k \in Nat
  BY <1>1, InFlight
<1> DEFINE s == [done EXCEPT !.kept = @ + 1, !.left = @ - k]
           m == [s EXCEPT !.fetching = @ + k]
<1>3. l.fetching + k \in 0 .. Concurrency /\ l.decoding - 1 \in 0 .. Concurrency
      /\ l.kept + 1 \in Nat
  BY <1>1, <1>2, InFlight DEF Concurrency, Load
<1>4. done \in Load /\ done.pc = l.pc /\ done.trial = l.trial /\ done.left = l.left
      /\ done.fetching = l.fetching /\ done.reading = l.reading
      /\ done.decoding = l.decoding - 1 /\ done.reserved = l.reserved
      /\ done.kept = l.kept /\ done.aborted = l.aborted
  BY <1>1, <1>3 DEF Load
<1>5. load' = [load EXCEPT ![g] = m]
  BY <1>2
<1>6. s \in Load /\ s.pc = done.pc /\ s.trial = done.trial /\ s.left = done.left - k
      /\ s.fetching = done.fetching /\ s.reading = done.reading
      /\ s.decoding = done.decoding /\ s.reserved = done.reserved
      /\ s.kept = done.kept + 1 /\ s.aborted = done.aborted
  <2>1. done.left - k \in Nat /\ done.kept + 1 \in Nat
    BY <1>2, <1>3, <1>4
  <2> QED BY <1>4, <2>1 DEF Load
<1> HIDE DEF s
<1>7. m \in Load /\ m.pc = s.pc /\ m.trial = s.trial /\ m.left = s.left
      /\ m.fetching = s.fetching + k /\ m.reading = s.reading
      /\ m.decoding = s.decoding /\ m.reserved = s.reserved
      /\ m.kept = s.kept /\ m.aborted = s.aborted
  <2>1. s.fetching + k \in 0 .. Concurrency
    BY <1>3, <1>4, <1>6
  <2> QED BY <1>6, <2>1 DEF Load
<1> HIDE DEF m
<1>8. Accounted(m) /\ m.pc = "working"
  <2> HIDE DEF l
  <2>1. /\ m.pc = l.pc /\ m.trial = l.trial /\ m.left = l.left - Taken(l)
        /\ m.fetching = l.fetching + Taken(l) /\ m.reading = l.reading
        /\ m.decoding = l.decoding - 1 /\ m.reserved = l.reserved
        /\ m.kept = l.kept + 1 /\ m.aborted = l.aborted
    BY <1>2, <1>4, <1>6, <1>7
  <2> QED BY <1>1, <1>7, <2>1, KeepAccounted
<1>9. LoadMove(g, m)
  BY <1>4, <1>5, <1>6, <1>7, <1>8 DEF LoadMove
<1> QED BY <1>1, <1>7, <1>8, <1>9, Flying DEF Moves

\* An aborted load drops what was decoded.
LEMMA DropMoves ==
    ASSUME StudyOK, load \in [1 .. MaxLoads -> Load], NEW g \in 1 .. MaxLoads,
           Accounted(load[g]), load[g].decoding > 0, load[g].aborted,
           load' = [load EXCEPT ![g] = [load[g] EXCEPT !.decoding = @ - 1]]
    PROVE  Moves(g)
<1> DEFINE l == load[g]
           m == [l EXCEPT !.decoding = @ - 1]
<1>1. l \in Load /\ l.decoding \in 1 .. Concurrency /\ Concurrency \in Nat /\ l.aborted
      /\ Accounted(l)
  BY DEF Load, Concurrency
<1>2. m \in Load /\ m.pc = l.pc /\ m.trial = l.trial /\ m.left = l.left
      /\ m.fetching = l.fetching /\ m.reading = l.reading /\ m.decoding <= l.decoding
      /\ m.reserved = l.reserved /\ m.kept = l.kept /\ m.aborted
  BY <1>1 DEF Load, Concurrency
<1>4. l.pc \in {"working", "settling"}
  BY <1>1, Flying DEF Working
<1> HIDE DEF m
<1>3. Accounted(m)
  <2> HIDE DEF l
  <2>1. l.fetching \in Nat /\ l.reading \in Nat
    BY <1>1, LoadFields
  <2>2. /\ m.fetching <= l.fetching /\ m.reading <= l.reading
        /\ m.pc \in {"working", "settling"}
    BY <1>2, <1>4, <2>1
  <2> QED BY <1>1, <1>2, <2>2, DropAccounted
<1>5. LoadMove(g, m)
  BY <1>2, <1>3 DEF LoadMove, m
<1> QED BY <1>2, <1>4, <1>5 DEF Moves, Working

LEMMA FetchFailsMoves ==
    ASSUME StudyOK, load \in [1 .. MaxLoads -> Load], NEW g \in 1 .. MaxLoads,
           Accounted(load[g]), load[g].fetching > 0,
           load' = [load EXCEPT ![g] = [Fails(load[g]) EXCEPT !.fetching = @ - 1]]
    PROVE  Moves(g)
<1> DEFINE l == load[g]
           m == [Fails(l) EXCEPT !.fetching = @ - 1]
<1>1. l \in Load /\ l.fetching \in 1 .. Concurrency /\ Concurrency \in Nat
  BY DEF Load, Concurrency
<1>2. m \in Load /\ m.pc = "settling" /\ m.trial = l.trial /\ m.left = l.left
      /\ m.fetching <= l.fetching /\ m.reading <= l.reading /\ m.decoding <= l.decoding
      /\ m.reserved = l.reserved /\ m.kept = l.kept /\ m.aborted
  <2> DEFINE f == Fails(l)
  <2>1. /\ f \in Load /\ f.pc = "settling" /\ f.trial = l.trial /\ f.left = l.left
        /\ f.fetching = l.fetching /\ f.reading = l.reading /\ f.decoding = l.decoding
        /\ f.reserved = l.reserved /\ f.kept = l.kept /\ f.aborted
    BY <1>1, FailsChanges
  <2> HIDE DEF f
  <2>2. /\ f.fetching \in 0 .. 3 /\ f.reading \in 0 .. 3 /\ f.decoding \in 0 .. 3
    BY <2>1 DEF Load, Concurrency
  <2>3. [f EXCEPT !.fetching = @ - 1] \in Load
    BY <1>1, <2>1 DEF Load, Concurrency
  <2> DEFINE n == [f EXCEPT !.fetching = @ - 1]
  <2>4. n.pc = f.pc /\ n.trial = f.trial /\ n.left = f.left
        /\ n.fetching = f.fetching - 1 /\ n.reading = f.reading /\ n.decoding = f.decoding
        /\ n.reserved = f.reserved /\ n.kept = f.kept /\ n.aborted = f.aborted
    BY <2>1 DEF Load
  <2>6. n.fetching <= f.fetching /\ n.reading <= f.reading /\ n.decoding <= f.decoding
    <3> HIDE DEF n
    <3> QED BY <2>2, <2>4
  <2>5. m = n
    BY DEF f
  <2> HIDE DEF n
  <2> HIDE DEF m
  <2> QED BY <2>1, <2>3, <2>4, <2>5, <2>6 DEF n
<1>3. Accounted(m)
  BY <1>1, <1>2, DropAccounted
<1> HIDE DEF m
<1>4. Working(g)
  BY <1>1, Flying
<1>5. LoadMove(g, m)
  BY <1>2, <1>3 DEF LoadMove, m
<1> QED BY <1>2, <1>4, <1>5 DEF Moves

LEMMA ReadFailsMoves ==
    ASSUME StudyOK, load \in [1 .. MaxLoads -> Load], NEW g \in 1 .. MaxLoads,
           Accounted(load[g]), load[g].reading > 0,
           load' = [load EXCEPT ![g] = [Fails(load[g]) EXCEPT !.reading = @ - 1]]
    PROVE  Moves(g)
<1> DEFINE l == load[g]
           m == [Fails(l) EXCEPT !.reading = @ - 1]
<1>1. l \in Load /\ l.reading \in 1 .. Concurrency /\ Concurrency \in Nat
  BY DEF Load, Concurrency
<1>2. m \in Load /\ m.pc = "settling" /\ m.trial = l.trial /\ m.left = l.left
      /\ m.fetching <= l.fetching /\ m.reading <= l.reading /\ m.decoding <= l.decoding
      /\ m.reserved = l.reserved /\ m.kept = l.kept /\ m.aborted
  <2> DEFINE f == Fails(l)
  <2>1. /\ f \in Load /\ f.pc = "settling" /\ f.trial = l.trial /\ f.left = l.left
        /\ f.fetching = l.fetching /\ f.reading = l.reading /\ f.decoding = l.decoding
        /\ f.reserved = l.reserved /\ f.kept = l.kept /\ f.aborted
    BY <1>1, FailsChanges
  <2> HIDE DEF f
  <2>2. /\ f.fetching \in 0 .. 3 /\ f.reading \in 0 .. 3 /\ f.decoding \in 0 .. 3
    BY <2>1 DEF Load, Concurrency
  <2>3. [f EXCEPT !.reading = @ - 1] \in Load
    BY <1>1, <2>1 DEF Load, Concurrency
  <2> DEFINE n == [f EXCEPT !.reading = @ - 1]
  <2>4. n.pc = f.pc /\ n.trial = f.trial /\ n.left = f.left
        /\ n.fetching = f.fetching /\ n.reading = f.reading - 1 /\ n.decoding = f.decoding
        /\ n.reserved = f.reserved /\ n.kept = f.kept /\ n.aborted = f.aborted
    BY <2>1 DEF Load
  <2>6. n.fetching <= f.fetching /\ n.reading <= f.reading /\ n.decoding <= f.decoding
    <3> HIDE DEF n
    <3> QED BY <2>2, <2>4
  <2>5. m = n
    BY DEF f
  <2> HIDE DEF n
  <2> HIDE DEF m
  <2> QED BY <2>1, <2>3, <2>4, <2>5, <2>6 DEF n
<1>3. Accounted(m)
  BY <1>1, <1>2, DropAccounted
<1> HIDE DEF m
<1>4. Working(g)
  BY <1>1, Flying
<1>5. LoadMove(g, m)
  BY <1>2, <1>3 DEF LoadMove, m
<1> QED BY <1>2, <1>4, <1>5 DEF Moves

LEMMA DecodeFailsMoves ==
    ASSUME StudyOK, load \in [1 .. MaxLoads -> Load], NEW g \in 1 .. MaxLoads,
           Accounted(load[g]), load[g].decoding > 0,
           load' = [load EXCEPT ![g] = [Fails(load[g]) EXCEPT !.decoding = @ - 1]]
    PROVE  Moves(g)
<1> DEFINE l == load[g]
           m == [Fails(l) EXCEPT !.decoding = @ - 1]
<1>1. l \in Load /\ l.decoding \in 1 .. Concurrency /\ Concurrency \in Nat
  BY DEF Load, Concurrency
<1>2. m \in Load /\ m.pc = "settling" /\ m.trial = l.trial /\ m.left = l.left
      /\ m.fetching <= l.fetching /\ m.reading <= l.reading /\ m.decoding <= l.decoding
      /\ m.reserved = l.reserved /\ m.kept = l.kept /\ m.aborted
  <2> DEFINE f == Fails(l)
  <2>1. /\ f \in Load /\ f.pc = "settling" /\ f.trial = l.trial /\ f.left = l.left
        /\ f.fetching = l.fetching /\ f.reading = l.reading /\ f.decoding = l.decoding
        /\ f.reserved = l.reserved /\ f.kept = l.kept /\ f.aborted
    BY <1>1, FailsChanges
  <2> HIDE DEF f
  <2>2. /\ f.fetching \in 0 .. 3 /\ f.reading \in 0 .. 3 /\ f.decoding \in 0 .. 3
    BY <2>1 DEF Load, Concurrency
  <2>3. [f EXCEPT !.decoding = @ - 1] \in Load
    BY <1>1, <2>1 DEF Load, Concurrency
  <2> DEFINE n == [f EXCEPT !.decoding = @ - 1]
  <2>4. n.pc = f.pc /\ n.trial = f.trial /\ n.left = f.left
        /\ n.fetching = f.fetching /\ n.reading = f.reading /\ n.decoding = f.decoding - 1
        /\ n.reserved = f.reserved /\ n.kept = f.kept /\ n.aborted = f.aborted
    BY <2>1 DEF Load
  <2>6. n.fetching <= f.fetching /\ n.reading <= f.reading /\ n.decoding <= f.decoding
    <3> HIDE DEF n
    <3> QED BY <2>2, <2>4
  <2>5. m = n
    BY DEF f
  <2> HIDE DEF n
  <2> HIDE DEF m
  <2> QED BY <2>1, <2>3, <2>4, <2>5, <2>6 DEF n
<1>3. Accounted(m)
  BY <1>1, <1>2, DropAccounted
<1> HIDE DEF m
<1>4. Working(g)
  BY <1>1, Flying
<1>5. LoadMove(g, m)
  BY <1>2, <1>3 DEF LoadMove, m
<1> QED BY <1>2, <1>4, <1>5 DEF Moves

\* What is fetched is given up together.
LEMMA AbortMoves ==
    ASSUME StudyOK, load \in [1 .. MaxLoads -> Load], NEW g \in 1 .. MaxLoads,
           Accounted(load[g]), load[g].fetching + load[g].reading > 0,
           load' = [load EXCEPT ![g] = [Fails(load[g]) EXCEPT !.fetching = 0, !.reading = 0]]
    PROVE  Moves(g)
<1> DEFINE l == load[g]
           m == [Fails(l) EXCEPT !.fetching = 0, !.reading = 0]
<1>1. l \in Load /\ Accounted(l) /\ 0 \in 0 .. Concurrency
  BY DEF Concurrency
<1>2. m \in Load /\ m.pc = "settling" /\ m.trial = l.trial /\ m.left = l.left
      /\ m.fetching = 0 /\ m.reading = 0 /\ m.decoding = l.decoding
      /\ m.reserved = l.reserved /\ m.kept = l.kept /\ m.aborted
  BY <1>1 DEF Load, Fails
<1> HIDE DEF m
<1>3. Accounted(m)
  <2> HIDE DEF l
  <2>1. m.fetching <= l.fetching /\ m.reading <= l.reading /\ m.decoding <= l.decoding
    BY <1>1, <1>2 DEF Load, Concurrency
  <2> QED BY <1>1, <1>2, <2>1, DropAccounted
<1>4. Working(g)
  <2>1. l.fetching > 0 \/ l.reading > 0
    BY <1>1, LoadFields
  <2> QED BY <2>1, Flying
<1>5. LoadMove(g, m)
  BY <1>2, <1>3 DEF LoadMove, m
<1> QED BY <1>2, <1>4, <1>5 DEF Moves

\* A timeout, or leaving the page, aborts the load.
LEMMA TimeoutMoves ==
    ASSUME StudyOK, load \in [1 .. MaxLoads -> Load], NEW g \in 1 .. MaxLoads,
           Accounted(load[g]), Working(g),
           \/ load' = [load EXCEPT ![g].timedOut = TRUE, ![g].aborted = TRUE]
           \/ load' = [load EXCEPT ![g].aborted = TRUE]
    PROVE  Moves(g)
<1> DEFINE l == load[g]
           r == [l EXCEPT !.timedOut = TRUE, !.aborted = TRUE]
           s == [l EXCEPT !.aborted = TRUE]
<1>1. l \in Load /\ Accounted(l)
  OBVIOUS
<1>2. PICK m \in {r, s} : load' = [load EXCEPT ![g] = m]
  OBVIOUS
<1>3. m \in Load /\ m.pc = l.pc /\ m.trial = l.trial /\ m.left = l.left
      /\ m.fetching = l.fetching /\ m.reading = l.reading /\ m.decoding = l.decoding
      /\ m.reserved = l.reserved /\ m.kept = l.kept /\ m.aborted
  <2>1. CASE m = r
    BY <1>1, <2>1 DEF Load
  <2>2. CASE m = s
    BY <1>1, <2>2 DEF Load
  <2> QED BY <1>2, <2>1, <2>2
<1>4. l.pc \in {"working", "settling"}
  BY DEF Working
<1>5. Accounted(m)
  <2> HIDE DEF l
  <2>1. l.fetching \in Nat /\ l.reading \in Nat /\ l.decoding \in Nat
    BY <1>1, LoadFields
  <2>2. m.fetching <= l.fetching /\ m.reading <= l.reading /\ m.decoding <= l.decoding
    BY <1>3, <2>1
  <2> QED BY <1>1, <1>3, <1>4, <2>2, DropAccounted
<1>6. LoadMove(g, m)
  BY <1>2, <1>3, <1>5 DEF LoadMove
<1> QED BY <1>3, <1>4, <1>6 DEF Moves

-----------------------------------------------------------------------------
(* The invariant while the last load is under way *)

\* What a step leaves in place of a load is accounted for afterwards, too: the
\* sizes are what they were.
LEMMA StillAccounted ==
    ASSUME NEW h, NEW m, UNCHANGED study, load'[h] = m, Accounted(m)
    PROVE  Accounted(load[h])'
<1>1. size' = size /\ rate' = rate
  BY DEF study
<1>2. Accounted(m)'
  BY <1>1 DEF Accounted, Reserved, Decoded, SizeOf
<1> QED BY <1>2 DEF Accounted, Reserved, Decoded, SizeOf

LEMMA MovesAreAccounted ==
    ASSUME IInv, UNCHANGED study, NEW g \in 1 .. MaxLoads, NEW m, LoadMove(g, m)
    PROVE  (\A h \in 1 .. MaxLoads : Accounted(load[h]))'
<1> SUFFICES ASSUME NEW h \in 1 .. MaxLoads
             PROVE  Accounted(load[h])'
  OBVIOUS
<1>1. CASE h = g
  BY <1>1, StillAccounted DEF LoadMove
<1>2. CASE h # g
  <2>1. PICK r : r = load[h]
    OBVIOUS
  <2>2. Accounted(r) /\ load'[h] = r
    BY <1>2, <2>1 DEF IInv, LoadMove
  <2> QED BY <2>2, StillAccounted
<1> QED BY <1>1, <1>2

LEMMA StudyInvariant ==
    ASSUME IInv
    PROVE  StudyOK /\ load \in [1 .. MaxLoads -> Load]
           /\ \A g \in 1 .. MaxLoads : load[g] \in Load /\ Accounted(load[g])
           /\ generation \in 1 .. MaxLoads
  BY DEF IInv, TypeOK, StudyOK

\* Only the last load is at work.  Until it is over the page is neither ready nor
\* failed, nothing is to be saved, and the engine has no buffers.
LEMMA OnlyTheLastWorks ==
    ASSUME IInv, NEW g \in 1 .. MaxLoads, Working(g)
    PROVE  /\ g = generation /\ load[generation].pc # "over"
           /\ ~page.ready /\ ~page.failed /\ ~page.pending /\ page.saving = "none"
           /\ control = 0 /\ playing = 0
<1>1. g = generation /\ load[generation].pc # "over"
  <2>1. generation \in 1 .. MaxLoads /\ generation \in Nat /\ g \in Nat
    BY StudyInvariant
  <2>2. ~(g < generation) /\ ~(g > generation)
    BY DEF IInv, LoadsTakeTurns, Working
  <2> QED BY <2>1, <2>2 DEF Working
<1>2. ~page.ready /\ ~page.failed /\ ~page.pending /\ page.saving = "none"
  BY <1>1 DEF IInv, PageWaitsForItsLoad, TypeOK, Page
<1>3. control = 0 /\ playing = 0
  BY <1>1 DEF IInv, EngineHasTheLastLoad, OnlyTheShownPageSounds
<1> QED BY <1>1, <1>2, <1>3

\* Loads take turns as long as no other one moves.
LEMMA TurnsKept ==
    ASSUME IInv, NEW m, LoadMove(generation, m), m.pc # "none", UNCHANGED generation
    PROVE  LoadsTakeTurns'
<1>1. generation \in 1 .. MaxLoads /\ generation \in Nat /\ MaxLoads \in Nat
  BY StudyInvariant, AudioAssumption
<1>2. load'[generation].pc # "none" /\ generation' = generation
  BY DEF LoadMove
<1>3. ASSUME NEW h \in 1 .. MaxLoads
      PROVE  /\ h < generation => load'[h].pc = "over"
             /\ h > generation => load'[h].pc = "none"
  <2>1. h < generation \/ h > generation => load'[h] = load[h]
    BY <1>1 DEF LoadMove
  <2> QED BY <2>1 DEF IInv, LoadsTakeTurns
<1> QED BY <1>2, <1>3 DEF LoadsTakeTurns

LEMMA LoadersKeepIInv ==
    ASSUME IInv, NEW g \in 1 .. MaxLoads, Working(g), NEW m, LoadMove(g, m),
           m.pc # "none", UNCHANGED <<study, page, generation, sound>>,
           overBudget' \in BOOLEAN, overBudget' => rate > 2, faults' \in 0 .. MaxFaults
    PROVE  IInv'
<1>1. /\ size' = size /\ rate' = rate /\ page' = page /\ generation' = generation
      /\ control' = control /\ resuming' = resuming /\ playing' = playing
  BY DEF study, sound
<1>2. /\ g = generation /\ ~page.ready /\ ~page.failed /\ ~page.pending
      /\ page.saving = "none" /\ control = 0 /\ playing = 0
  BY OnlyTheLastWorks
<1>3. TypeOK'
  BY <1>1 DEF IInv, TypeOK, LoadMove
<1>4. ServerAccepts(size)'
  BY <1>1 DEF IInv, ServerAccepts
<1>5. LoadsTakeTurns'
  BY <1>1, <1>2, TurnsKept
<1>6. (\A h \in 1 .. MaxLoads : Accounted(load[h]))'
  BY MovesAreAccounted
<1>7. PageWaitsForItsLoad'
  BY <1>1, <1>2 DEF PageWaitsForItsLoad
<1>8. EngineHasTheLastLoad' /\ OnlyTheShownPageSounds'
  BY <1>1, <1>2 DEF EngineHasTheLastLoad, OnlyTheShownPageSounds
<1>9. PreparedStudyLoads'
  BY <1>1 DEF PreparedStudyLoads
<1> QED BY <1>3, <1>4, <1>5, <1>6, <1>7, <1>8, <1>9 DEF IInv

LEMMA MovesKeepIInv ==
    ASSUME IInv, NEW g \in 1 .. MaxLoads, Moves(g),
           UNCHANGED <<study, page, generation, sound>>,
           overBudget' \in BOOLEAN, overBudget' => rate > 2, faults' \in 0 .. MaxFaults
    PROVE  IInv'
<1>1. PICK m \in Load : LoadMove(g, m) /\ m.pc \in {"working", "settling"}
  BY DEF Moves
<1>2. Working(g) /\ m.pc # "none"
  BY <1>1 DEF Moves
<1> QED BY <1>1, <1>2, LoadersKeepIInv

-----------------------------------------------------------------------------
(* The steps of the loaders *)

\* What the service accepted fits, as long as the browser is not faster.
LEMMA PreparedFits ==
    ASSUME StudyOK, ServerAccepts(size), rate <= 2, NEW l \in Load, Accounted(l),
           ~l.aborted
    PROVE  /\ l.fetching > 0 => Fits(l)
           /\ l.decoding > 0 => (l.kept + 1) * Decoded(l.trial) <= Budget
<1> DEFINE t == l.trial
<1>1. /\ t \in 0 .. Trials /\ SizeOf(t) \in Nat /\ Budget \in Nat
      /\ Header \in Nat /\ Allowance \in Nat /\ Header <= Allowance
      /\ Buffers(t) \in Nat /\ Decoded(t) \in Nat /\ Reserved(t) \in Nat
      /\ l.reserved \in Nat /\ l.kept \in Nat
  BY LoadFields, SizesAreNumbers, AudioAssumption
<1>2. /\ Decoded(t) <= SizeOf(t) /\ Reserved(t) <= SizeOf(t)
      /\ SizeOf(t) * Buffers(t) <= Budget /\ SizeOf(t) <= Budget
  <2>1. /\ Decoded(t) <= SizeOf(t) /\ Reserved(t) <= SizeOf(t)
        /\ Buffers(t) * SizeOf(t) <= Budget /\ SizeOf(t) <= Budget
    BY <1>1, ServiceSawIt
  <2>2. Buffers(t) * SizeOf(t) = SizeOf(t) * Buffers(t)
    BY <1>1
  <2> QED BY <2>1, <2>2
<1> HIDE DEF t
<1>3. \A n, b \in Nat : n <= Buffers(t) /\ b <= SizeOf(t) => n * b <= Budget
  <2> SUFFICES ASSUME NEW n \in Nat, NEW b \in Nat, n <= Buffers(t), b <= SizeOf(t)
               PROVE  n * b <= Budget
    OBVIOUS
  <2>1. n * b <= Buffers(t) * b /\ n * b \in Nat
    BY <1>1, ProductsGrow
  <2>2. b * Buffers(t) <= SizeOf(t) * Buffers(t) /\ b * Buffers(t) \in Nat
    BY <1>1, ProductsGrow
  <2>3. Buffers(t) * b = b * Buffers(t) /\ SizeOf(t) * Buffers(t) \in Nat
    BY <1>1
  <2> QED BY <1>1, <1>2, <2>1, <2>2, <2>3
<1>4. l.fetching > 0 \/ l.decoding > 0 =>
          l.left + (l.fetching + l.reading + l.decoding) + l.kept = Buffers(t)
          /\ l.reading + l.decoding + l.kept = l.reserved
  <2>1. l.fetching > 0 \/ l.decoding > 0 => l.pc = "working"
    BY InFlight DEF Accounted
  <2> QED BY <2>1 DEF Accounted, t
<1>5. ASSUME l.fetching > 0  PROVE Fits(l)
  <2>1. l.reserved + 1 <= Buffers(t) /\ l.reserved + 1 \in Nat
    BY <1>4, <1>5, LoadFields
  <2>2. (l.reserved + 1) * Reserved(t) <= Budget
    BY <1>1, <1>2, <1>3, <2>1
  <2>3. SizeOf(t) + Header <= Budget + Allowance
    BY <1>1, <1>2
  <2> QED BY <2>2, <2>3 DEF Fits, t
<1>6. ASSUME l.decoding > 0  PROVE (l.kept + 1) * Decoded(l.trial) <= Budget
  <2>1. l.kept + 1 <= Buffers(t) /\ l.kept + 1 \in Nat
    BY <1>4, <1>6, LoadFields
  <2> QED BY <1>1, <1>2, <1>3, <2>1 DEF t
<1> QED BY <1>5, <1>6

\* So a load of a prepared study fails for its budget in a faster browser only.
LEMMA OverBudgetIsFast ==
    ASSUME IInv, NEW g \in 1 .. MaxLoads, ~load[g].aborted,
           \/ load[g].fetching > 0 /\ ~Fits(load[g])
           \/ /\ load[g].decoding > 0
              /\ (load[g].kept + 1) * Decoded(load[g].trial) > Budget
    PROVE  rate > 2
<1>1. PICK l \in Load : l = load[g]
  BY StudyInvariant
<1>2. StudyOK /\ Accounted(l) /\ ServerAccepts(size) /\ rate \in Nat /\ Budget \in Nat
  BY <1>1, StudyInvariant, SizesAreNumbers, AudioAssumption DEF IInv, StudyOK
<1>3. Decoded(l.trial) \in Nat /\ l.kept \in Nat
  BY <1>2, LoadFields
<1>4. (l.kept + 1) * Decoded(l.trial) \in Nat
  BY <1>3
<1>5. ASSUME rate <= 2  PROVE FALSE
  <2>1. /\ l.fetching > 0 => Fits(l)
        /\ l.decoding > 0 => (l.kept + 1) * Decoded(l.trial) <= Budget
    BY <1>1, <1>2, <1>5, PreparedFits
  <2> QED BY <1>1, <1>2, <1>4, <2>1
<1> QED BY <1>2, <1>5

LEMMA RespondKeepsIInv ==
    ASSUME IInv, NEW g \in 1 .. MaxLoads, Respond(g)
    PROVE  IInv'
<1>1. /\ load[g].fetching > 0 /\ ~load[g].aborted
      /\ UNCHANGED <<study, page, generation, sound>> /\ faults' \in 0 .. MaxFaults
  BY DEF Respond, IInv, TypeOK
<1>2. /\ overBudget \in BOOLEAN /\ (overBudget => rate > 2)
  BY DEF IInv, TypeOK, PreparedStudyLoads
<1>3. CASE /\ Fits(load[g]) /\ UNCHANGED overBudget
           /\ load' = [load EXCEPT ![g].fetching = @ - 1, ![g].reading = @ + 1,
                                   ![g].reserved = @ + 1]
  <2>1. Moves(g)
    BY <1>1, <1>3, StudyInvariant, AnswerMoves
  <2> QED BY <1>1, <1>2, <1>3, <2>1, MovesKeepIInv
<1>4. CASE /\ ~Fits(load[g]) /\ overBudget' = TRUE
           /\ load' = [load EXCEPT ![g] = [Fails(load[g]) EXCEPT !.fetching = @ - 1]]
  <2>1. Moves(g)
    BY <1>1, <1>4, StudyInvariant, FetchFailsMoves
  <2>2. rate > 2
    BY <1>1, <1>4, OverBudgetIsFast
  <2> QED BY <1>1, <1>4, <2>1, <2>2, MovesKeepIInv
<1> QED BY <1>3, <1>4 DEF Respond

LEMMA ReceiveKeepsIInv ==
    ASSUME IInv, NEW g \in 1 .. MaxLoads, Receive(g)
    PROVE  IInv'
<1>1. /\ UNCHANGED <<study, page, generation, sound, overBudget, faults>>
      /\ load[g].reading > 0 /\ ~load[g].aborted
      /\ load' = [load EXCEPT ![g].reading = @ - 1, ![g].decoding = @ + 1]
  BY DEF Receive
<1>2. /\ overBudget \in BOOLEAN /\ (overBudget => rate > 2) /\ faults \in 0 .. MaxFaults
  BY DEF IInv, TypeOK, PreparedStudyLoads
<1>3. Moves(g)
  BY <1>1, StudyInvariant, ReceiveMoves
<1> QED BY <1>1, <1>2, <1>3, MovesKeepIInv

LEMMA DecodeKeepsIInv ==
    ASSUME IInv, NEW g \in 1 .. MaxLoads, Decode(g)
    PROVE  IInv'
<1> DEFINE done == [load[g] EXCEPT !.decoding = @ - 1]
<1>1. /\ load[g].decoding > 0
      /\ UNCHANGED <<study, page, generation, sound>> /\ faults' \in 0 .. MaxFaults
  BY DEF Decode, IInv, TypeOK
<1>2. /\ overBudget \in BOOLEAN /\ (overBudget => rate > 2)
  BY DEF IInv, TypeOK, PreparedStudyLoads
<1>3. g = generation
  BY <1>1, StudyInvariant, Flying, OnlyTheLastWorks
<1>4. CASE /\ load[g].aborted /\ UNCHANGED overBudget
           /\ load' = [load EXCEPT ![g] = done]
  <2>1. Moves(g)
    BY <1>1, <1>4, StudyInvariant, DropMoves
  <2> QED BY <1>1, <1>2, <1>4, <2>1, MovesKeepIInv
<1>5. CASE /\ ~load[g].aborted /\ overBudget' = TRUE
           /\ (load[g].kept + 1) * Decoded(load[g].trial) > Budget
           /\ load' = [load EXCEPT ![g] = Fails(done)]
  <2>1. Fails(done) = [Fails(load[g]) EXCEPT !.decoding = @ - 1]
    BY StudyInvariant DEF Fails, Load
  <2>2. Moves(g)
    BY <1>1, <1>5, <2>1, StudyInvariant, DecodeFailsMoves
  <2>3. rate > 2
    BY <1>1, <1>5, OverBudgetIsFast
  <2> QED BY <1>1, <1>5, <2>2, <2>3, MovesKeepIInv
<1>6. CASE /\ ~load[g].aborted /\ UNCHANGED overBudget
           /\ (load[g].kept + 1) * Decoded(load[g].trial) <= Budget
           /\ load' = [load EXCEPT ![g] = [done EXCEPT
                  !.kept = @ + 1, !.left = @ - Taken(load[g]),
                  !.fetching = @ + Taken(load[g])]]
  <2>1. Moves(g)
    BY <1>1, <1>6, StudyInvariant, KeepMoves
  <2> QED BY <1>1, <1>2, <1>6, <2>1, MovesKeepIInv
<1> QED BY <1>3, <1>4, <1>5, <1>6 DEF Decode

LEMMA FileFailsKeepsIInv ==
    ASSUME IInv, NEW g \in 1 .. MaxLoads, FileFails(g)
    PROVE  IInv'
<1>1. /\ UNCHANGED <<study, page, generation, sound, overBudget>>
      /\ faults' \in 0 .. MaxFaults
  BY AudioAssumption, SMTT(30) DEF FileFails, Fault, IInv, TypeOK
<1>2. /\ overBudget \in BOOLEAN /\ (overBudget => rate > 2)
  BY DEF IInv, TypeOK, PreparedStudyLoads
<1>3. Moves(g)
  BY StudyInvariant, FetchFailsMoves, ReadFailsMoves, DecodeFailsMoves DEF FileFails
<1> QED BY <1>1, <1>2, <1>3, MovesKeepIInv

LEMMA TimeoutKeepsIInv ==
    ASSUME IInv, NEW g \in 1 .. MaxLoads, Timeout(g)
    PROVE  IInv'
<1>1. /\ UNCHANGED <<study, page, generation, sound, overBudget>>
      /\ faults' \in 0 .. MaxFaults
  BY AudioAssumption, SMTT(30) DEF Timeout, Fault, IInv, TypeOK
<1>2. /\ overBudget \in BOOLEAN /\ (overBudget => rate > 2)
  BY DEF IInv, TypeOK, PreparedStudyLoads
<1>3. Moves(g)
  BY StudyInvariant, TimeoutMoves DEF Timeout
<1> QED BY <1>1, <1>2, <1>3, MovesKeepIInv

LEMMA AbortFetchesKeepsIInv ==
    ASSUME IInv, NEW g \in 1 .. MaxLoads, AbortFetches(g)
    PROVE  IInv'
<1>1. UNCHANGED <<study, page, generation, sound, overBudget, faults>>
  BY DEF AbortFetches
<1>2. /\ overBudget \in BOOLEAN /\ (overBudget => rate > 2) /\ faults \in 0 .. MaxFaults
  BY DEF IInv, TypeOK, PreparedStudyLoads
<1>3. Moves(g)
  BY StudyInvariant, AbortMoves DEF AbortFetches
<1> QED BY <1>1, <1>2, <1>3, MovesKeepIInv

-----------------------------------------------------------------------------
(* The end of a load *)

LEMMA OverMoves ==
    ASSUME IInv, NEW g \in 1 .. MaxLoads, AllSettled(load[g]),
           \/ load' = [load EXCEPT ![g] = [NoLoad("over") EXCEPT
                           !.trial = load[g].trial, !.decoding = load[g].decoding]]
           \/ load' = [load EXCEPT ![g] = [NoLoad("over") EXCEPT !.trial = load[g].trial]]
    PROVE  \E m \in Load : LoadMove(g, m) /\ m.pc = "over"
<1>1. load[g] \in Load /\ load[g].trial \in 0 .. Trials /\ load \in [1 .. MaxLoads -> Load]
      /\ StudyOK
  BY StudyInvariant, LoadFields
<1>2. load[g].decoding = 0
  BY <1>1, LoadFields DEF AllSettled
<1> DEFINE m == [NoLoad("over") EXCEPT !.trial = load[g].trial]
<1>3. load' = [load EXCEPT ![g] = m] /\ m \in Load
  BY <1>1, <1>2, NoLoadFields
<1>4. /\ m.pc = "over" /\ m.trial = load[g].trial /\ m.left = 0 /\ m.fetching = 0
      /\ m.reading = 0 /\ m.decoding = 0 /\ m.reserved = 0 /\ m.kept = 0
  BY DEF NoLoad
<1> HIDE DEF m
<1>5. Accounted(m)
  BY <1>1, <1>3, <1>4, NothingAccounted
<1>6. LoadMove(g, m)
  BY <1>1, <1>3, <1>4, <1>5 DEF LoadMove
<1> QED BY <1>3, <1>4, <1>6

LEMMA AbandonKeepsIInv ==
    ASSUME IInv, NEW g \in 1 .. MaxLoads, Abandon(g)
    PROVE  IInv'
<1>1. /\ UNCHANGED <<study, page, generation, sound, overBudget, faults>>
      /\ Working(g) /\ AllSettled(load[g])
  BY DEF Abandon, Working
<1>2. /\ overBudget \in BOOLEAN /\ (overBudget => rate > 2) /\ faults \in 0 .. MaxFaults
  BY DEF IInv, TypeOK, PreparedStudyLoads
<1>3. PICK m \in Load : LoadMove(g, m) /\ m.pc = "over"
  BY <1>1, OverMoves DEF Abandon
<1> QED BY <1>1, <1>2, <1>3, LoadersKeepIInv

\* What the end of a load leaves behind whichever way it ends.
LEMMA EndKeepsIInv ==
    ASSUME IInv, NEW g \in 1 .. MaxLoads, Working(g), NEW m \in Load, LoadMove(g, m),
           m.pc = "over", UNCHANGED <<study, generation, resuming, playing, overBudget, faults>>
    PROVE  /\ g = generation /\ playing = 0 /\ load'[generation].pc = "over"
           /\ ServerAccepts(size)' /\ LoadsTakeTurns' /\ PreparedStudyLoads'
           /\ (\A h \in 1 .. MaxLoads : Accounted(load[h]))'
           /\ page' \in Page /\ control' \in 0 .. generation => TypeOK'
<1>1. /\ size' = size /\ rate' = rate /\ generation' = generation
      /\ resuming' = resuming /\ playing' = playing
      /\ overBudget' = overBudget /\ faults' = faults
  BY DEF study
<1>2. g = generation /\ playing = 0
  BY OnlyTheLastWorks
<1>3. load'[generation].pc = "over" /\ load' \in [1 .. MaxLoads -> Load]
  BY <1>2 DEF LoadMove
<1>4. ServerAccepts(size)' /\ PreparedStudyLoads'
  BY <1>1 DEF IInv, ServerAccepts, PreparedStudyLoads
<1>5. LoadsTakeTurns'
  BY <1>1, <1>2, TurnsKept
<1>6. (\A h \in 1 .. MaxLoads : Accounted(load[h]))'
  BY MovesAreAccounted
<1>7. ASSUME page' \in Page, control' \in 0 .. generation  PROVE TypeOK'
  BY <1>1, <1>3, <1>7 DEF IInv, TypeOK
<1> QED BY <1>2, <1>3, <1>4, <1>5, <1>6, <1>7

LEMMA SettleKeepsIInv ==
    ASSUME IInv, NEW g \in 1 .. MaxLoads, Settle(g)
    PROVE  IInv'
<1>1. /\ UNCHANGED <<study, generation, sound, overBudget, faults>>
      /\ Working(g) /\ AllSettled(load[g])
      /\ page' = [page EXCEPT !.failed = TRUE]
  BY DEF Settle, Failed, Working
<1>2. PICK m \in Load : LoadMove(g, m) /\ m.pc = "over"
  BY <1>1, OverMoves DEF Settle
<1>3. UNCHANGED <<generation, control, resuming, playing>>
  BY <1>1 DEF sound
<1>4. /\ ~page.ready /\ ~page.pending /\ page.saving = "none"
      /\ control = 0 /\ playing = 0 /\ page \in Page
  BY <1>1, OnlyTheLastWorks DEF IInv, TypeOK
<1>5. /\ page' \in Page /\ ~page'.ready /\ page'.failed /\ ~page'.pending
      /\ page'.saving = "none"
  BY <1>1, <1>4 DEF Page
<1>6. control' \in 0 .. generation
  BY <1>3 DEF IInv, TypeOK
<1>7. /\ load'[generation].pc = "over"
      /\ ServerAccepts(size)' /\ LoadsTakeTurns' /\ PreparedStudyLoads'
      /\ (\A h \in 1 .. MaxLoads : Accounted(load[h]))' /\ TypeOK'
  BY <1>1, <1>2, <1>3, <1>5, <1>6, EndKeepsIInv
<1>8. PageWaitsForItsLoad'
  BY <1>3, <1>5, <1>7 DEF PageWaitsForItsLoad
<1>9. EngineHasTheLastLoad' /\ OnlyTheShownPageSounds'
  BY <1>3, <1>4, <1>5 DEF EngineHasTheLastLoad, OnlyTheShownPageSounds
<1> QED BY <1>7, <1>8, <1>9 DEF IInv

\* A load that succeeded has all the buffers of its trial, within the budget.
LEMMA AllFilesKept ==
    ASSUME StudyOK, NEW l \in Load, Accounted(l), l.pc = "working", ~l.aborted,
           AllSettled(l)
    PROVE  Buffers(l.trial) * Decoded(l.trial) <= Budget
<1>1. l.kept = Buffers(l.trial)
  <2>1. l.fetching + l.reading + l.decoding = 0 /\ l.left = 0
        /\ l.left + (l.fetching + l.reading + l.decoding) + l.kept = Buffers(l.trial)
    BY DEF Accounted, AllSettled
  <2> QED BY <2>1, LoadFields
<1>2. l.kept * Decoded(l.trial) <= Budget
  BY DEF Accounted
<1> QED BY <1>1, <1>2

LEMMA InstallKeepsIInv ==
    ASSUME IInv, NEW g \in 1 .. MaxLoads, Install(g)
    PROVE  IInv'
<1>1. /\ UNCHANGED <<study, generation, resuming, playing, overBudget, faults>>
      /\ Working(g) /\ AllSettled(load[g]) /\ control' = g
      /\ page' = [page EXCEPT !.ready = TRUE, !.polling = TRUE]
  BY DEF Install, Working
<1>2. PICK m \in Load : LoadMove(g, m) /\ m.pc = "over"
  BY <1>1, OverMoves DEF Install
<1>3. /\ ~page.failed /\ ~page.pending /\ page.saving = "none"
      /\ playing = 0 /\ page \in Page /\ g = generation /\ generation \in Nat
  BY <1>1, OnlyTheLastWorks DEF IInv, TypeOK
<1>4. /\ page' \in Page /\ page'.ready /\ ~page'.failed /\ ~page'.pending
      /\ page'.saving = "none"
  BY <1>1, <1>3 DEF Page
<1>5. control' = generation /\ control' \in 0 .. generation
  BY <1>1, <1>3
<1>6. /\ load'[generation].pc = "over"
      /\ ServerAccepts(size)' /\ LoadsTakeTurns' /\ PreparedStudyLoads'
      /\ (\A h \in 1 .. MaxLoads : Accounted(load[h]))' /\ TypeOK'
  BY <1>1, <1>2, <1>4, <1>5, EndKeepsIInv
<1>7. PageWaitsForItsLoad'
  BY <1>1, <1>4, <1>6 DEF PageWaitsForItsLoad
<1>8. EngineHasTheLastLoad'
  <2>1. PICK t \in 0 .. Trials : t = load[g].trial
    BY StudyInvariant, LoadFields
  <2>2. Buffers(t) * Decoded(t) <= Budget
    BY <2>1, StudyInvariant, AllFilesKept DEF Install
  <2>3. (Buffers(t) * Decoded(t) <= Budget)'
    BY <1>1, <2>2 DEF study, Buffers, Decoded, SizeOf
  <2>4. load'[generation'].trial = t
    BY <1>1, <1>2, <1>3, <2>1 DEF LoadMove
  <2>5. (Buffers(load[generation].trial) * Decoded(load[generation].trial) <= Budget)'
    BY <2>3, <2>4 DEF Decoded, SizeOf, Buffers
  <2> QED BY <1>1, <1>5, <1>6, <2>5 DEF EngineHasTheLastLoad
<1>9. OnlyTheShownPageSounds'
  BY <1>1, <1>3 DEF OnlyTheShownPageSounds
<1> QED BY <1>6, <1>7, <1>8, <1>9 DEF IInv

-----------------------------------------------------------------------------
(* The steps of the page *)

LEMMA StaleTypes ==
    ASSUME NEW n \in Nat, NEW k \in Nat, n <= k, resuming \subseteq [engine: 1 .. n, fresh: BOOLEAN]
    PROVE  Stale(resuming) \subseteq [engine: 1 .. k, fresh: BOOLEAN]
<1> SUFFICES ASSUME NEW q \in resuming
             PROVE  [q EXCEPT !.fresh = FALSE] \in [engine: 1 .. k, fresh: BOOLEAN]
  BY DEF Stale
<1>1. q \in [engine: 1 .. n, fresh: BOOLEAN]
  OBVIOUS
<1>2. q \in [engine: 1 .. k, fresh: BOOLEAN]
  BY <1>1
<1> QED BY <1>2

\* Taking the audio away aborts the last load unless it is over.
LEMMA ClearedWhenOver ==
    ASSUME IInv, load[generation].pc = "over"
    PROVE  ClearedLoads = load
<1>1. load \in [1 .. MaxLoads -> Load] /\ generation \in 1 .. MaxLoads
  BY DEF IInv, TypeOK
<1>2. PICK l \in Load : l = load[generation]
  BY <1>1
<1>3. [l EXCEPT !.aborted = l.aborted] = l
  BY DEF Load
<1>4. (l.aborted \/ l.pc # "over") = l.aborted
  <2>1. l.aborted \in BOOLEAN /\ l.pc = "over"
    BY <1>2 DEF Load
  <2> QED BY <2>1
<1>5. ClearedLoads = [load EXCEPT ![generation] = [l EXCEPT !.aborted = (l.aborted \/ l.pc # "over")]]
  BY <1>2 DEF ClearedLoads
<1>6. ClearedLoads = [load EXCEPT ![generation] = l]
  BY <1>3, <1>4, <1>5
<1> QED BY <1>1, <1>2, <1>6

LEMMA ClearedWhenNot ==
    ASSUME IInv, load[generation].pc # "over"
    PROVE  ClearedLoads = [load EXCEPT ![generation].aborted = TRUE]
  BY DEF ClearedLoads

LEMMA ClearKeeps ==
    ASSUME IInv, load' = ClearedLoads, UNCHANGED <<study, generation>>
    PROVE  /\ load' \in [1 .. MaxLoads -> Load]
           /\ (\A h \in 1 .. MaxLoads : Accounted(load[h]))' /\ LoadsTakeTurns'
           /\ load[generation].pc = "over" => load'[generation].pc = "over"
<1>1. generation \in 1 .. MaxLoads /\ load \in [1 .. MaxLoads -> Load]
  BY DEF IInv, TypeOK
<1>2. CASE load[generation].pc = "over"
  <2>1. load' = load
    BY <1>2, ClearedWhenOver
  <2>2. PICK m \in Load : m = load[generation] /\ LoadMove(generation, m) /\ m.pc = "over"
    BY <1>1, <1>2, <2>1 DEF LoadMove, IInv
  <2>3. (\A h \in 1 .. MaxLoads : Accounted(load[h]))'
    BY <1>1, <2>2, MovesAreAccounted
  <2>4. LoadsTakeTurns'
    BY <2>2, TurnsKept
  <2> QED BY <1>1, <1>2, <2>1, <2>3, <2>4
<1>3. CASE load[generation].pc # "over"
  <2>1. Working(generation)
    BY <1>1, <1>3, LoadFields, StudyInvariant DEF IInv, LoadsTakeTurns, Working
  <2>2. load' = [load EXCEPT ![generation].aborted = TRUE]
    BY <1>3, ClearedWhenNot
  <2>3. PICK g \in 1 .. MaxLoads : g = generation
    BY <1>1
  <2>4. Moves(g)
    <3>1. load' = [load EXCEPT ![g].aborted = TRUE] /\ Working(g) /\ Accounted(load[g])
      BY <2>1, <2>2, <2>3, StudyInvariant
    <3> QED BY <3>1, StudyInvariant, TimeoutMoves
  <2>5. PICK m \in Load : LoadMove(g, m) /\ m.pc \in {"working", "settling"}
    BY <2>4 DEF Moves
  <2>6. (\A h \in 1 .. MaxLoads : Accounted(load[h]))'
    BY <2>5, MovesAreAccounted
  <2>7. LoadsTakeTurns'
    BY <2>3, <2>5, TurnsKept
  <2> QED BY <1>3, <2>5, <2>6, <2>7 DEF LoadMove
<1> QED BY <1>2, <1>3

LEMMA StartKeepsIInv ==
    ASSUME IInv, NEW t \in 0 .. Trials, NEW n \in BOOLEAN, generation < MaxLoads,
           load[generation].pc = "over", page.saving # "none" \/ ~page.pending,
           StartLoad(t, n), UNCHANGED <<study, overBudget, faults>>
    PROVE  IInv'
<1> DEFINE h == generation + 1
<1>1. /\ size' = size /\ rate' = rate /\ overBudget' = overBudget /\ faults' = faults
      /\ control' = 0 /\ playing' = 0 /\ resuming' = Stale(resuming)
      /\ generation' = h
      /\ page' = [page EXCEPT !.trial = t, !.ready = FALSE, !.failed = FALSE,
                              !.saving = "none",
                              !.pending = IF page.saving = "none" THEN @ ELSE FALSE]
  BY DEF study, StartLoad, ClearAudio
<1>2. StudyOK /\ load \in [1 .. MaxLoads -> Load] /\ generation \in 1 .. MaxLoads
      /\ generation \in Nat /\ MaxLoads \in Nat /\ h \in 1 .. MaxLoads /\ h \in Nat
  BY StudyInvariant, AudioAssumption
<1>3. PICK m \in Load : m = NewLoad(t, n) /\ m.pc = "working" /\ Accounted(m)
  BY <1>2, NewLoadAccounted
<1>4. load' = [load EXCEPT ![h] = m]
  BY <1>3, ClearedWhenOver DEF StartLoad
<1>5. load' \in [1 .. MaxLoads -> Load] /\ load'[h] = m
      /\ \A i \in 1 .. MaxLoads : i # h => load'[i] = load[i]
  BY <1>2, <1>4
<1>6. page \in Page /\ page.pending \in BOOLEAN
  BY DEF IInv, TypeOK, Page
<1>7. page' \in Page /\ ~page'.ready /\ ~page'.failed /\ ~page'.pending
      /\ page'.saving = "none"
  <2> DEFINE p == [page EXCEPT !.trial = t, !.ready = FALSE]
             q == [p EXCEPT !.failed = FALSE, !.saving = "none"]
             r == [q EXCEPT !.pending = FALSE]
  <2>1. p \in Page /\ ~p.ready
    BY <1>6 DEF Page
  <2> HIDE DEF p
  <2>2. q \in Page /\ ~q.ready /\ ~q.failed /\ q.saving = "none"
    BY <2>1 DEF Page
  <2>4. (IF page.saving = "none" THEN page.pending ELSE FALSE) = FALSE
    BY <1>6
  <2>5. page' = r
    BY <1>1, <2>4 DEF p
  <2> HIDE DEF q
  <2>3. r \in Page /\ ~r.ready /\ ~r.failed /\ r.saving = "none" /\ ~r.pending
    BY <2>2 DEF Page
  <2> QED BY <2>3, <2>5
<1>8. resuming' \subseteq [engine: 1 .. h, fresh: BOOLEAN]
  BY <1>1, <1>2, StaleTypes DEF IInv, TypeOK
<1>9. TypeOK'
  BY <1>1, <1>2, <1>5, <1>7, <1>8 DEF IInv, TypeOK
<1>10. ServerAccepts(size)' /\ PreparedStudyLoads'
  BY <1>1 DEF IInv, ServerAccepts, PreparedStudyLoads
<1>11. LoadsTakeTurns'
  <2>1. ASSUME NEW i \in 1 .. MaxLoads
        PROVE  /\ i < h => load'[i].pc = "over"
               /\ i > h => load'[i].pc = "none"
    <3>1. i < h => i < generation \/ i = generation
      BY <1>2
    <3>2. i > h => i > generation
      BY <1>2
    <3>3. i # h => load'[i] = load[i]
      BY <1>5
    <3> QED BY <1>2, <3>1, <3>2, <3>3 DEF IInv, LoadsTakeTurns
  <2> QED BY <1>1, <1>3, <1>5, <2>1 DEF LoadsTakeTurns
<1>12. (\A i \in 1 .. MaxLoads : Accounted(load[i]))'
  <2> SUFFICES ASSUME NEW i \in 1 .. MaxLoads
               PROVE  Accounted(load[i])'
    OBVIOUS
  <2>1. PICK r : r = load'[i]
    OBVIOUS
  <2>2. Accounted(r)
    BY <1>3, <1>5, <2>1, StudyInvariant
  <2> QED BY <2>1, <2>2, StillAccounted
<1>13. PageWaitsForItsLoad'
  BY <1>7 DEF PageWaitsForItsLoad
<1>14. EngineHasTheLastLoad' /\ OnlyTheShownPageSounds'
  BY <1>1, <1>7 DEF EngineHasTheLastLoad, OnlyTheShownPageSounds
<1> QED BY <1>9, <1>10, <1>11, <1>12, <1>13, <1>14 DEF IInv

LEMMA ContinueKeepsIInv ==
    ASSUME IInv, Continue
    PROVE  IInv'
<1>1. /\ load[generation].pc = "over" /\ ~page.pending
  BY DEF IInv, PageWaitsForItsLoad, Continue
<1>2. 1 \in 0 .. Trials
  BY AudioAssumption
<1> QED BY <1>1, <1>2, StartKeepsIInv DEF Continue

LEMMA LoadNextPageKeepsIInv ==
    ASSUME IInv, LoadNextPage
    PROVE  IInv'
<1>1. /\ page.saving # "none" /\ load[generation].pc = "over" /\ generation < MaxLoads
      /\ page.trial \in 0 .. Trials /\ UNCHANGED <<study, overBudget, faults>>
  BY DEF IInv, PageWaitsForItsLoad, LoadNextPage, TypeOK, Page
<1>2. CASE page.trial < Trials /\ StartLoad(page.trial + 1, TRUE)
  <2>1. page.trial + 1 \in 0 .. Trials
    BY <1>1, <1>2, AudioAssumption
  <2> QED BY <1>1, <1>2, <2>1, StartKeepsIInv
<1>3. CASE StartLoad(page.trial, FALSE)
  BY <1>1, <1>3, StartKeepsIInv
<1> QED BY <1>2, <1>3 DEF LoadNextPage

\* A step of the page that leaves its loads and its engine alone.
LEMMA PageKeepsIInv ==
    ASSUME IInv, UNCHANGED <<study, generation, load, control, overBudget>>,
           page' \in Page, page'.ready => page.ready, page'.failed => page.failed,
           page'.ready \/ page'.failed \/ page'.pending \/ page'.saving # "none" =>
               load[generation].pc = "over",
           page'.failed => ~page'.ready,
           page'.trial = 0 /\ (page'.pending \/ page'.saving # "none") => page'.failed,
           page'.saving = "navigate" => page'.trial # 0,
           page'.saving # "none" => generation < MaxLoads,
           resuming' \subseteq [engine: 1 .. generation, fresh: BOOLEAN],
           playing' \in {0, playing, control}, faults' \in 0 .. MaxFaults
    PROVE  IInv'
<1>1. /\ size' = size /\ rate' = rate /\ overBudget' = overBudget
      /\ control' = control /\ generation' = generation /\ load' = load
  BY DEF study
<1>2. playing' # 0 => playing' = control
  BY DEF IInv, OnlyTheShownPageSounds
<1>3. TypeOK'
  <2>1. playing' \in 0 .. generation
    BY DEF IInv, TypeOK
  <2> QED BY <1>1, <2>1 DEF IInv, TypeOK
<1>4. ServerAccepts(size)' /\ PreparedStudyLoads'
  BY <1>1 DEF IInv, ServerAccepts, PreparedStudyLoads
<1>5. LoadsTakeTurns'
  BY <1>1 DEF IInv, LoadsTakeTurns
<1>6. (\A i \in 1 .. MaxLoads : Accounted(load[i]))'
  <2> SUFFICES ASSUME NEW i \in 1 .. MaxLoads
               PROVE  Accounted(load[i])'
    OBVIOUS
  <2>1. PICK r : r = load[i]
    OBVIOUS
  <2>2. Accounted(r) /\ load'[i] = r
    BY <1>1, <2>1, StudyInvariant
  <2> QED BY <2>2, StillAccounted
<1>7. PageWaitsForItsLoad'
  BY <1>1 DEF PageWaitsForItsLoad
<1>8. EngineHasTheLastLoad' /\ OnlyTheShownPageSounds'
  <2>1. OnlyTheShownPageSounds'
    BY <1>1, <1>2 DEF OnlyTheShownPageSounds
  <2>2. EngineHasTheLastLoad'
    BY <1>1 DEF IInv, EngineHasTheLastLoad, Decoded, SizeOf, Buffers
  <2> QED BY <2>1, <2>2
<1> QED BY <1>3, <1>4, <1>5, <1>6, <1>7, <1>8 DEF IInv

\* What the invariant says of the page when it is taken apart.
LEMMA PageFacts ==
    ASSUME IInv
    PROVE  /\ page \in Page /\ page.ready \in BOOLEAN /\ page.failed \in BOOLEAN
           /\ page.pending \in BOOLEAN /\ page.saving \in {"none", "navigate", "retry"}
           /\ page.ready \/ page.failed \/ page.pending \/ page.saving # "none" =>
                  load[generation].pc = "over"
           /\ page.failed => ~page.ready
           /\ page.trial = 0 /\ (page.pending \/ page.saving # "none") => page.failed
           /\ page.saving = "navigate" => page.trial # 0
           /\ page.saving # "none" => generation < MaxLoads
           /\ resuming \subseteq [engine: 1 .. generation, fresh: BOOLEAN]
           /\ faults \in 0 .. MaxFaults /\ generation \in 1 .. MaxLoads
<1>1. PageWaitsForItsLoad /\ TypeOK
  BY DEF IInv
<1>2. page \in Page
  BY <1>1 DEF TypeOK
<1>3. /\ page.ready \in BOOLEAN /\ page.failed \in BOOLEAN
      /\ page.pending \in BOOLEAN /\ page.saving \in {"none", "navigate", "retry"}
  BY <1>2 DEF Page
<1>4. /\ page.ready \/ page.failed \/ page.pending \/ page.saving # "none" =>
             load[generation].pc = "over"
      /\ page.failed => ~page.ready
      /\ page.trial = 0 /\ (page.pending \/ page.saving # "none") => page.failed
      /\ page.saving = "navigate" => page.trial # 0
      /\ page.saving # "none" => generation < MaxLoads
  BY <1>1 DEF PageWaitsForItsLoad
<1> QED BY <1>1, <1>2, <1>3, <1>4 DEF TypeOK

LEMMA NavigateKeepsIInv ==
    ASSUME IInv, Navigate
    PROVE  IInv'
<1>1. /\ page' = [page EXCEPT !.saving = "navigate"] /\ page.ready /\ page.trial > 0
      /\ generation < MaxLoads
      /\ UNCHANGED <<study, generation, load, control, resuming, playing, overBudget, faults>>
  BY DEF Navigate, sound
<1>2. /\ page' \in Page /\ page'.saving = "navigate" /\ page'.ready = page.ready
      /\ page'.failed = page.failed /\ page'.pending = page.pending
      /\ page'.trial = page.trial
  BY <1>1, PageFacts DEF Page
<1>3. page.trial # 0
  BY <1>1, PageFacts DEF Page
<1> QED BY <1>1, <1>2, <1>3, PageFacts, PageKeepsIInv

LEMMA RetryKeepsIInv ==
    ASSUME IInv, Retry
    PROVE  IInv'
<1>1. /\ page' = [page EXCEPT !.saving = "retry"] /\ (page.pending \/ page.failed)
      /\ generation < MaxLoads
      /\ UNCHANGED <<study, generation, load, control, resuming, playing, overBudget, faults>>
  BY DEF Retry, RetryShown, sound
<1>2. /\ page' \in Page /\ page'.saving = "retry" /\ page'.ready = page.ready
      /\ page'.failed = page.failed /\ page'.pending = page.pending
      /\ page'.trial = page.trial
  BY <1>1, PageFacts DEF Page
<1>3. page.trial = 0 => page.failed
  BY <1>1, PageFacts
<1> QED BY <1>1, <1>2, <1>3, PageFacts, PageKeepsIInv

LEMMA RetrySavedKeepsIInv ==
    ASSUME IInv, RetrySaved
    PROVE  IInv'
<1>1. /\ page' = [page EXCEPT !.saving = "none", !.pending = FALSE]
      /\ UNCHANGED <<study, generation, load, control, resuming, playing, overBudget, faults>>
  BY DEF RetrySaved, sound
<1>2. /\ page' \in Page /\ page'.saving = "none" /\ page'.ready = page.ready
      /\ page'.failed = page.failed /\ ~page'.pending /\ page'.trial = page.trial
  BY <1>1, PageFacts DEF Page
<1> QED BY <1>1, <1>2, PageFacts, PageKeepsIInv

LEMMA SaveFailsKeepsIInv ==
    ASSUME IInv, SaveFails
    PROVE  IInv'
<1>1. PICK refused \in BOOLEAN :
          page' = [page EXCEPT !.saving = "none", !.pending = TRUE,
                               !.locked = @ \/ refused]
  BY DEF SaveFails
<1>2. /\ page.saving # "none" /\ faults' \in 0 .. MaxFaults
      /\ UNCHANGED <<study, generation, load, control, resuming, playing, overBudget>>
  BY PageFacts, AudioAssumption DEF SaveFails, Fault, sound
<1> DEFINE p == [page EXCEPT !.saving = "none", !.pending = TRUE]
           q == [p EXCEPT !.locked = (page.locked \/ refused)]
<1>3. /\ p \in Page /\ p.saving = "none" /\ p.ready = page.ready
      /\ p.failed = page.failed /\ p.trial = page.trial
  BY PageFacts DEF Page
<1>4. page' = q
  BY <1>1
<1> HIDE DEF p
<1>5. /\ q \in Page /\ q.saving = p.saving /\ q.ready = p.ready
      /\ q.failed = p.failed /\ q.trial = p.trial
  BY <1>3 DEF Page
<1> HIDE DEF q
<1>6. /\ page' \in Page /\ page'.saving = "none" /\ page'.ready = page.ready
      /\ page'.failed = page.failed /\ page'.trial = page.trial
  BY <1>3, <1>4, <1>5
<1> QED BY <1>2, <1>6, PageFacts, PageKeepsIInv

LEMMA LockKeepsIInv ==
    ASSUME IInv, Lock
    PROVE  IInv'
<1>1. /\ page' = [page EXCEPT !.locked = TRUE]
      /\ UNCHANGED <<study, generation, load, control, overBudget, faults>>
  BY DEF Lock
<1>2. /\ page' \in Page /\ page'.saving = page.saving /\ page'.ready = page.ready
      /\ page'.failed = page.failed /\ page'.pending = page.pending
      /\ page'.trial = page.trial
  BY <1>1, PageFacts DEF Page
<1>3. resuming' \subseteq [engine: 1 .. generation, fresh: BOOLEAN]
  <2>1. Stale(resuming) \subseteq [engine: 1 .. generation, fresh: BOOLEAN]
    BY PageFacts, StaleTypes
  <2> QED BY <2>1, PageFacts DEF Lock
<1>4. playing' \in {0, playing, control}
  BY DEF Lock
<1> QED BY <1>1, <1>2, <1>3, <1>4, PageFacts, PageKeepsIInv

LEMMA PlayKeepsIInv ==
    ASSUME IInv, Play
    PROVE  IInv'
<1>1. /\ UNCHANGED <<study, page, generation, load, control, playing, overBudget, faults>>
      /\ resuming' = Stale(resuming) \cup {[engine |-> control, fresh |-> TRUE]}
      /\ page.ready
  BY DEF Play
<1>2. control \in 1 .. generation
  BY <1>1, PageFacts DEF IInv, EngineHasTheLastLoad
<1>3. resuming' \subseteq [engine: 1 .. generation, fresh: BOOLEAN]
  <2>1. Stale(resuming) \subseteq [engine: 1 .. generation, fresh: BOOLEAN]
    BY PageFacts, StaleTypes
  <2>2. [engine |-> control, fresh |-> TRUE] \in [engine: 1 .. generation, fresh: BOOLEAN]
    BY <1>2
  <2> QED BY <1>1, <2>1, <2>2
<1> QED BY <1>1, <1>3, PageFacts, PageKeepsIInv

LEMMA ResumedKeepsIInv ==
    ASSUME IInv, Resumed
    PROVE  IInv'
<1>1. PICK request \in resuming :
          /\ resuming' = resuming \ {request}
          /\ playing' = IF MayStart(request) THEN request.engine ELSE playing
          /\ UNCHANGED <<study, page, generation, load, control, overBudget, faults>>
  BY DEF Resumed
<1>2. playing' \in {0, playing, control}
  BY <1>1 DEF MayStart
<1>3. resuming' \subseteq [engine: 1 .. generation, fresh: BOOLEAN]
  BY <1>1, PageFacts
<1> QED BY <1>1, <1>2, <1>3, PageFacts, PageKeepsIInv

LEMMA PauseKeepsIInv ==
    ASSUME IInv, Pause
    PROVE  IInv'
<1>1. /\ UNCHANGED <<study, page, generation, load, control, overBudget, faults>>
      /\ resuming' = Stale(resuming) /\ playing' = 0
  BY DEF Pause
<1>2. resuming' \subseteq [engine: 1 .. generation, fresh: BOOLEAN]
  BY <1>1, PageFacts, StaleTypes
<1> QED BY <1>1, <1>2, PageFacts, PageKeepsIInv

\* The page is left: its audio is taken away.
LEMMA LeaveKeepsIInv ==
    ASSUME IInv, ClearAudio, load' = ClearedLoads,
           UNCHANGED <<study, generation, overBudget, faults>>,
           page' \in Page, ~page'.ready, page'.failed = page.failed,
           page'.pending = page.pending, page'.trial = page.trial,
           page'.saving \in {"none", page.saving}
    PROVE  IInv'
<1>1. /\ size' = size /\ rate' = rate /\ overBudget' = overBudget /\ faults' = faults
      /\ control' = 0 /\ playing' = 0 /\ resuming' = Stale(resuming)
      /\ generation' = generation
  BY DEF study, ClearAudio
<1>2. /\ load' \in [1 .. MaxLoads -> Load]
      /\ (\A h \in 1 .. MaxLoads : Accounted(load[h]))' /\ LoadsTakeTurns'
      /\ load[generation].pc = "over" => load'[generation].pc = "over"
  BY ClearKeeps
<1>3. resuming' \subseteq [engine: 1 .. generation, fresh: BOOLEAN]
  BY <1>1, PageFacts, StaleTypes
<1>4. TypeOK'
  BY <1>1, <1>2, <1>3 DEF IInv, TypeOK
<1>5. ServerAccepts(size)' /\ PreparedStudyLoads'
  BY <1>1 DEF IInv, ServerAccepts, PreparedStudyLoads
<1>6. PageWaitsForItsLoad'
  <2>1. page'.saving # "none" => page'.saving = page.saving
    OBVIOUS
  <2> QED BY <1>1, <1>2, <2>1, PageFacts DEF PageWaitsForItsLoad
<1>7. EngineHasTheLastLoad' /\ OnlyTheShownPageSounds'
  BY <1>1 DEF EngineHasTheLastLoad, OnlyTheShownPageSounds
<1> QED BY <1>2, <1>4, <1>5, <1>6, <1>7 DEF IInv

LEMMA SubmittedKeepsIInv ==
    ASSUME IInv, Submitted
    PROVE  IInv'
<1> DEFINE p == [page EXCEPT !.phase = "done", !.ready = FALSE]
           q == [p EXCEPT !.saving = "none"]
<1>1. page' = q
  BY DEF Submitted
<1>2. /\ p \in Page /\ ~p.ready /\ p.failed = page.failed
      /\ p.pending = page.pending /\ p.trial = page.trial
  BY PageFacts DEF Page
<1> HIDE DEF p
<1>3. /\ q \in Page /\ ~q.ready /\ q.failed = p.failed
      /\ q.pending = p.pending /\ q.trial = p.trial /\ q.saving = "none"
  BY <1>2 DEF Page
<1> HIDE DEF q
<1>4. /\ page' \in Page /\ ~page'.ready /\ page'.failed = page.failed
      /\ page'.pending = page.pending /\ page'.trial = page.trial /\ page'.saving = "none"
  BY <1>1, <1>2, <1>3
<1> QED BY <1>4, LeaveKeepsIInv DEF Submitted

LEMMA ShutdownKeepsIInv ==
    ASSUME IInv, Shutdown
    PROVE  IInv'
<1>1. page' = [page EXCEPT !.phase = "gone", !.ready = FALSE]
  BY DEF Shutdown
<1>2. /\ page' \in Page /\ ~page'.ready /\ page'.failed = page.failed
      /\ page'.pending = page.pending /\ page'.trial = page.trial
      /\ page'.saving = page.saving
  BY <1>1, PageFacts DEF Page
<1> QED BY <1>2, LeaveKeepsIInv DEF Shutdown

-----------------------------------------------------------------------------
(* The theorems *)

LEMMA StartsInvariant ==
    ASSUME Init
    PROVE  IInv
<1>1. /\ size \in [1 .. Trials -> Sizes] /\ ServerAccepts(size) /\ rate \in Rates
      /\ page = [phase |-> "open", trial |-> 0, ready |-> FALSE, failed |-> FALSE,
                 saving |-> "none", pending |-> FALSE, locked |-> FALSE,
                 polling |-> FALSE]
      /\ generation = 1 /\ control = 0 /\ resuming = {} /\ playing = 0
      /\ overBudget = FALSE /\ faults = 0
      /\ load = [g \in 1 .. MaxLoads |->
                    IF g = 1 THEN NewLoad(0, FALSE) ELSE NoLoad("none")]
  BY DEF Init
<1>2. 0 \in 0 .. Trials /\ 1 \in 1 .. MaxLoads /\ 0 \in 0 .. MaxFaults
  BY AudioAssumption
<1>3. StudyOK
  BY <1>1 DEF StudyOK
<1>4. PICK m \in Load : m = NewLoad(0, FALSE) /\ m.pc = "working" /\ Accounted(m)
  BY <1>2, <1>3, NewLoadAccounted
<1>5. PICK n \in Load : n = NoLoad("none") /\ n.pc = "none" /\ Accounted(n)
  <2> DEFINE n == NoLoad("none")
  <2>1. n \in Load
    BY <1>2, NoLoadFields
  <2>2. /\ n.pc = "none" /\ n.left = 0 /\ n.fetching = 0 /\ n.reading = 0
        /\ n.decoding = 0 /\ n.reserved = 0 /\ n.kept = 0
    BY DEF NoLoad
  <2> HIDE DEF n
  <2>3. Accounted(n)
    BY <1>3, <2>1, <2>2, NothingAccounted
  <2> QED BY <2>1, <2>2, <2>3 DEF n
<1>6. /\ load \in [1 .. MaxLoads -> Load] /\ load[1] = m
      /\ \A g \in 1 .. MaxLoads : g # 1 => load[g] = n
  BY <1>1, <1>2, <1>4, <1>5
<1>7. page \in Page
  BY <1>1, <1>2 DEF Page
<1>8. TypeOK
  <2>1. generation \in 1 .. MaxLoads /\ faults \in 0 .. MaxFaults
    BY <1>1, <1>2
  <2>3. control \in 0 .. generation /\ playing \in 0 .. generation
    BY <1>1
  <2>4. resuming \subseteq [engine: 1 .. generation, fresh: BOOLEAN]
    BY <1>1
  <2>5. overBudget \in BOOLEAN
    BY <1>1
  <2>2. size \in [1 .. Trials -> Sizes] /\ rate \in Rates
    BY <1>1
  <2> QED BY <1>6, <1>7, <2>1, <2>2, <2>3, <2>4, <2>5 DEF TypeOK
<1>9. LoadsTakeTurns
  <2>1. generation = 1
    BY <1>1
  <2>2. \A g \in 1 .. MaxLoads : ~(g < 1) /\ (g > 1 => load[g].pc = "none")
    BY <1>5, <1>6
  <2>3. load[1].pc # "none"
    BY <1>4, <1>6
  <2> QED BY <2>1, <2>2, <2>3 DEF LoadsTakeTurns
<1>10. \A g \in 1 .. MaxLoads : Accounted(load[g])
  BY <1>4, <1>5, <1>6
<1>11. PageWaitsForItsLoad
  BY <1>1 DEF PageWaitsForItsLoad
<1>12. EngineHasTheLastLoad /\ OnlyTheShownPageSounds /\ PreparedStudyLoads
  BY <1>1 DEF EngineHasTheLastLoad, OnlyTheShownPageSounds, PreparedStudyLoads
<1> QED BY <1>1, <1>8, <1>9, <1>10, <1>11, <1>12 DEF IInv

LEMMA StutterKeepsIInv ==
    ASSUME IInv, UNCHANGED vars
    PROVE  IInv'
  BY PageFacts, PageKeepsIInv DEF vars, sound

LEMMA NextKeepsIInv ==
    ASSUME IInv, Next
    PROVE  IInv'
<1>1. CASE SaveSucceeds
  BY <1>1, LoadNextPageKeepsIInv, RetrySavedKeepsIInv, SubmittedKeepsIInv DEF SaveSucceeds
<1>2. CASE LoadStep
  <2>1. PICK g \in 1 .. MaxLoads :
            \/ Respond(g) \/ Receive(g) \/ Decode(g) \/ AbortFetches(g)
            \/ Settle(g) \/ Abandon(g) \/ Install(g)
    BY <1>2 DEF LoadStep
  <2> QED BY <2>1, RespondKeepsIInv, ReceiveKeepsIInv, DecodeKeepsIInv,
             AbortFetchesKeepsIInv, SettleKeepsIInv, AbandonKeepsIInv, InstallKeepsIInv
<1>3. CASE User
  BY <1>3, ContinueKeepsIInv, NavigateKeepsIInv, RetryKeepsIInv, PlayKeepsIInv,
     PauseKeepsIInv, ShutdownKeepsIInv DEF User
<1>4. CASE World
  BY <1>4, SaveFailsKeepsIInv, LockKeepsIInv, ResumedKeepsIInv, FileFailsKeepsIInv,
     TimeoutKeepsIInv DEF World
<1> QED BY <1>1, <1>2, <1>3, <1>4 DEF Next

\* The inductive invariant holds in every state of the page: its types, the turns of
\* its loads, the accounts of their files, the state of the page and of its engine.
THEOREM Invariant == Spec => []IInv
<1>1. Init => IInv
  BY StartsInvariant
<1>2. IInv /\ [Next]_vars => IInv'
  BY NextKeepsIInv, StutterKeepsIInv
<1> QED BY <1>1, <1>2, PTL DEF Spec

\* What sounds is always the page that is shown (playTrack's token and engine are
\* compared again when the AudioContext has resumed).
THEOREM ShownPageSounds == Spec => []OnlyTheShownPageSounds
<1>1. IInv => OnlyTheShownPageSounds
  BY DEF IInv
<1> QED BY <1>1, Invariant, PTL

\* A study whose audio the service accepted exceeds the budget of the page only in a
\* browser that runs faster than the study's sample rate.
THEOREM PreparedStudiesLoad == Spec => []PreparedStudyLoads
<1>1. IInv => PreparedStudyLoads
  BY DEF IInv
<1> QED BY <1>1, Invariant, PTL

\* A load that is not the last one has no file in flight and keeps no buffer.
LEMMA OldLoadsHoldNothing ==
    ASSUME IInv, NEW g \in 1 .. MaxLoads, g # generation
    PROVE  load[g].fetching + load[g].reading + load[g].decoding + load[g].kept = 0
<1>1. PICK l \in Load : l = load[g] /\ Accounted(l)
  BY StudyInvariant
<1>2. l.pc \in {"none", "over"}
  BY <1>1, StudyInvariant DEF IInv, LoadsTakeTurns
<1> QED BY <1>1, <1>2 DEF Accounted

\* A load begins only when the earlier ones have let go of all their files: loadPage
\* waits for the aborted loaders before the page can be retried.
THEOREM LoadsTakeTheirTurn == Spec => []LoadsDoNotOverlap
<1>1. IInv => LoadsDoNotOverlap
  <2> SUFFICES ASSUME IInv, NEW g \in 1 .. MaxLoads, g < generation
               PROVE  load[g].fetching + load[g].reading + load[g].decoding
                          + load[g].kept = 0
    BY DEF LoadsDoNotOverlap
  <2>1. g # generation
    BY StudyInvariant
  <2> QED BY <2>1, OldLoadsHoldNothing
<1> QED BY <1>1, Invariant, PTL

-----------------------------------------------------------------------------
(* The memory for decoded audio *)

\* A non-empty set of natural numbers has a least element.
LEMMA LeastOf ==
    ASSUME NEW S, S \subseteq Nat, S # {}
    PROVE  \E x \in S : \A y \in S : ~(y < x)
<1>1. IsWellFoundedOn({p \in Nat \X Nat : p[1] < p[2]}, Nat)
  BY NatLessThanWellFounded DEF OpToRel
<1>2. \E x \in S : \A y \in S : ~(<<y, x>> \in {p \in Nat \X Nat : p[1] < p[2]})
  BY <1>1, WFMin
<1> QED BY <1>2

\* The running sums over the loads, of which HeldByAll is the last.
IsSum(S) == S = [g \in 0 .. MaxLoads |-> IF g = 0 THEN 0 ELSE S[g - 1] + Held(g)]

LEMMA SumOfOne ==
    ASSUME NEW n \in 1 .. MaxLoads, Held(n) \in Nat,
           \A g \in 1 .. MaxLoads : g # n => Held(g) = 0
    PROVE  HeldByAll = Held(n)
<1> DEFINE F == [g \in 0 .. MaxLoads |-> IF g < n THEN 0 ELSE Held(n)]
           S == CHOOSE s : IsSum(s)
<1>1. MaxLoads \in Nat \ {0} /\ n \in Nat /\ n > 0
  BY AudioAssumption
<1>2. IsSum(F)
  <2>1. ASSUME NEW g \in 0 .. MaxLoads
        PROVE  F[g] = IF g = 0 THEN 0 ELSE F[g - 1] + Held(g)
    <3>1. CASE g = 0
      BY <1>1, <3>1
    <3>2. CASE g # 0
      <4>1. g \in 1 .. MaxLoads /\ g - 1 \in 0 .. MaxLoads
        BY <1>1, <3>2
      <4>2. F[g] = (IF g < n THEN 0 ELSE Held(n))
            /\ F[g - 1] = (IF g - 1 < n THEN 0 ELSE Held(n))
        BY <4>1
      <4> HIDE DEF F
      <4>3. CASE g = n
        BY <1>1, <3>2, <4>2, <4>3
      <4>4. CASE g # n
        <5>1. Held(g) = 0
          BY <4>1, <4>4
        <5>2. g < n <=> g - 1 < n
          BY <1>1, <4>1, <4>4
        <5> QED BY <3>2, <4>2, <5>1, <5>2
      <4> QED BY <4>3, <4>4
    <3> QED BY <3>1, <3>2
  <2> QED BY <2>1 DEF IsSum
<1>3. IsSum(S)
  BY <1>2
<1>4. HeldByAll = S[MaxLoads]
  BY DEF HeldByAll, IsSum
<1> HIDE DEF S
<1>5. \A g \in 0 .. MaxLoads : S[g] = F[g]
  <2> DEFINE Bad == {g \in 0 .. MaxLoads : S[g] # F[g]}
  <2>1. SUFFICES ASSUME Bad # {}
                 PROVE  FALSE
    OBVIOUS
  <2>2. PICK g \in Bad : \A i \in Bad : ~(i < g)
    <3>1. Bad \subseteq Nat
      BY <1>1
    <3> HIDE DEF Bad
    <3> QED BY <2>1, <3>1, LeastOf
  <2>3. S[g] = (IF g = 0 THEN 0 ELSE S[g - 1] + Held(g))
    BY <1>3 DEF IsSum
  <2>4. F[g] = (IF g = 0 THEN 0 ELSE F[g - 1] + Held(g))
    BY <1>2 DEF IsSum
  <2>5. g \in 0 .. MaxLoads /\ g # 0 /\ S[g] # F[g]
    BY <2>3, <2>4
  <2>6. g - 1 \in 0 .. MaxLoads /\ g - 1 < g
    BY <1>1, <2>5
  <2>7. S[g - 1] = F[g - 1]
    BY <2>2, <2>6
  <2> QED BY <2>3, <2>4, <2>5, <2>7
<1>6. F[MaxLoads] = Held(n)
  BY <1>1
<1> QED BY <1>1, <1>4, <1>5, <1>6

\* The buffers of a load that are being decoded, or wait for the rest of their page,
\* were reserved, but for the slack of their headers.
LEMMA LoadFits ==
    ASSUME StudyOK, NEW l \in Load, Accounted(l)
    PROVE  Decoded(l.trial) * (l.decoding + l.kept) <= Budget + (2 + PLC) * Slack
<1> DEFINE t == l.trial  n == l.decoding + l.kept
<1>1. /\ t \in 0 .. Trials /\ Decoded(t) \in Nat /\ Reserved(t) \in Nat
      /\ Budget \in Nat /\ PLC \in Nat /\ n \in Nat /\ l.reserved \in Nat
  BY LoadFields, AudioAssumption
<1>2. n <= l.reserved /\ n <= 2 + PLC
  <2>1. l.reading + l.decoding + l.kept <= l.reserved
        /\ l.left + (l.fetching + l.reading + l.decoding) + l.kept <= Buffers(t)
    BY DEF Accounted
  <2>2. Buffers(t) \in Nat /\ Buffers(t) <= 2 + PLC
    BY <1>1, SizesAreNumbers
  <2> QED BY <1>1, <2>1, <2>2, LoadFields
<1>3. l.reserved * Reserved(t) <= Budget
  BY DEF Accounted
<1>4. Slack \in Nat /\ Decoded(t) <= Reserved(t) + Slack
  BY <1>1, ReservationsCover
<1> HIDE DEF t, n
<1>5. Decoded(t) * n <= (Reserved(t) + Slack) * n /\ Decoded(t) * n \in Nat
  BY <1>1, <1>4, ProductsGrow
<1>6. (Reserved(t) + Slack) * n = n * Reserved(t) + n * Slack
  BY <1>1, <1>4
<1>7. n * Reserved(t) <= l.reserved * Reserved(t) /\ n * Reserved(t) \in Nat
      /\ l.reserved * Reserved(t) \in Nat
  BY <1>1, <1>2, ProductsGrow
<1>8. n * Slack <= (2 + PLC) * Slack /\ n * Slack \in Nat /\ (2 + PLC) * Slack \in Nat
  <2>1. 2 + PLC \in Nat
    BY <1>1
  <2> QED BY <1>1, <1>2, <1>4, <2>1, ProductsGrow
<1>9. Decoded(t) * n <= Budget + (2 + PLC) * Slack
  BY <1>1, <1>3, <1>5, <1>6, <1>7, <1>8
<1> QED BY <1>9 DEF t, n

\* The decoded audio of all loads and of the page shown stays within the budget, but
\* for the part of the allowance for headers that the files' headers do not use.
THEOREM MemoryBounded == Spec => []BudgetKept
<1>1. IInv => BudgetKept
  <2> SUFFICES ASSUME IInv
               PROVE  BudgetKept
    OBVIOUS
  <2>1. PICK n \in 1 .. MaxLoads : n = generation
    BY DEF IInv, TypeOK
  <2>2. PICK l \in Load : l = load[n] /\ Accounted(l)
    BY StudyInvariant
  <2>3. l.trial \in 0 .. Trials /\ Decoded(l.trial) \in Nat /\ Buffers(l.trial) \in Nat
        /\ l.decoding \in Nat /\ l.kept \in Nat /\ Budget \in Nat
        /\ (2 + PLC) * Slack \in Nat
    <3>1. /\ l.trial \in 0 .. Trials /\ Decoded(l.trial) \in Nat /\ Buffers(l.trial) \in Nat
          /\ l.decoding \in Nat /\ l.kept \in Nat /\ Budget \in Nat
      BY StudyInvariant, LoadFields
    <3>2. Slack \in Nat /\ 2 + PLC \in Nat
      BY <3>1, StudyInvariant, ReservationsCover, AudioAssumption
    <3> QED BY <3>1, <3>2
  <2>4. Held(n) \in Nat /\ Held(n) <= Budget + (2 + PLC) * Slack
    <3>1. CASE control = n
      <4>1. /\ l.pc = "over" /\ Buffers(l.trial) * Decoded(l.trial) <= Budget
        BY <2>1, <2>2, <3>1 DEF IInv, EngineHasTheLastLoad
      <4>2. l.decoding + l.kept = 0
        <5>1. l.fetching + l.reading + l.decoding + l.kept = 0
          BY <2>2, <4>1 DEF Accounted
        <5>2. l.fetching \in Nat /\ l.reading \in Nat
          BY StudyInvariant, LoadFields
        <5> QED BY <2>3, <5>1, <5>2
      <4>3. Held(n) = Decoded(l.trial) * Buffers(l.trial)
        BY <2>2, <2>3, <3>1, <4>2 DEF Held
      <4>4. Decoded(l.trial) * Buffers(l.trial) = Buffers(l.trial) * Decoded(l.trial)
            /\ Decoded(l.trial) * Buffers(l.trial) \in Nat
        BY <2>3
      <4> QED BY <2>3, <4>1, <4>3, <4>4
    <3>2. CASE control # n
      <4>1. Held(n) = Decoded(l.trial) * (l.decoding + l.kept)
        BY <2>2, <2>3, <3>2 DEF Held
      <4>2. Decoded(l.trial) * (l.decoding + l.kept) \in Nat
        BY <2>3
      <4> QED BY <2>2, <4>1, <4>2, StudyInvariant, LoadFits
    <3> QED BY <3>1, <3>2
  <2>5. ASSUME NEW g \in 1 .. MaxLoads, g # n
        PROVE  Held(g) = 0
    <3>1. PICK k \in Load : k = load[g] /\ Accounted(k)
      BY StudyInvariant
    <3>2. k.decoding = 0 /\ k.kept = 0 /\ Decoded(k.trial) \in Nat
      <4>1. k.fetching + k.reading + k.decoding + k.kept = 0
        BY <2>1, <2>5, <3>1, OldLoadsHoldNothing
      <4>2. /\ k.fetching \in Nat /\ k.reading \in Nat /\ k.decoding \in Nat
            /\ k.kept \in Nat /\ Decoded(k.trial) \in Nat
        BY StudyInvariant, LoadFields
      <4>3. \A a, b, c, d \in Nat : a + b + c + d = 0 => c = 0 /\ d = 0
        OBVIOUS
      <4> QED BY <4>1, <4>2, <4>3
    <3>3. control # g
      BY <2>1, <2>5 DEF IInv, EngineHasTheLastLoad
    <3> QED BY <3>1, <3>2, <3>3 DEF Held
  <2>6. HeldByAll = Held(n)
    BY <2>4, <2>5, SumOfOne
  <2> QED BY <2>4, <2>6 DEF BudgetKept, Slack
<1> QED BY <1>1, Invariant, PTL
=============================================================================
