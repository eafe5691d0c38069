------------------------------ MODULE AudioPage ------------------------------
(***************************************************************************)
(* How the participant's page gets its audio (loadPage and playTrack in    *)
(* player.js) and what the preparation of the study promised about it      *)
(* (audio_loading.py).  Every trial is loaded by up to three concurrent    *)
(* loaders that share a budget of decoded bytes and an abort signal;       *)
(* a file that takes too long aborts them all, decoding cannot be aborted, *)
(* and the participant retries a load that failed.  One page; what it      *)
(* saves is in module ListeningPlayer.                                     *)
(*                                                                         *)
(* The buffers of a trial have the same length and number of channels (the *)
(* page insists on it), so loaders and files are counted, not named.       *)
(***************************************************************************)
EXTENDS Naturals, FiniteSets

CONSTANTS Trials,     \* number of trials of the session
          PLC,        \* number of PLC conditions of a trial
          Sizes,      \* bytes a buffer of a trial may have at 48000 Hz
          Rates,      \* sample rates of the browser's audio, in halves of 48000 Hz
          Header,     \* bytes of a WAV file that are no samples
          Allowance,  \* WAV_HEADER_ALLOWANCE
          Budget,     \* LISTENING_AUDIO_BUDGET_MIB, of workers and backend alike
          MaxLoads,   \* bound on the pages loaded
          MaxFaults   \* bound on failed calls and files, and on timeouts

ASSUME AudioAssumption ==
    /\ Trials \in Nat \ {0} /\ PLC \in Nat
    /\ Sizes \subseteq Nat \ {0} /\ Rates \subseteq Nat \ {0}
    /\ Allowance \in Nat /\ Header \in 0 .. Allowance
    /\ Budget \in Nat
    /\ MaxLoads \in Nat \ {0} /\ MaxFaults \in Nat

VARIABLES
    size,        \* bytes of each buffer of each trial, as published
    rate,        \* of the AudioContext
    page,        \* what the participant sees
    generation,  \* number of the last load
    load,        \* every load: its loaders and files
    control,     \* the load whose buffers the audio engine has, or 0
    resuming,    \* calls of playTrack that wait for the AudioContext
    playing,     \* the load whose engine sounds, or 0
    overBudget,  \* history: a load failed for its budget
    faults

study == <<size, rate>>
sound == <<control, resuming, playing>>
vars == <<study, page, generation, load, sound, overBudget, faults>>

Concurrency == 3

Least(a, b) == IF a < b THEN a ELSE b
CeilHalf(n) == (n + 1) \div 2

\* Definitions whose name starts with Wrong are plausible defects of the
\* definition that follows them.  No specification uses them: each is put in
\* the place of that definition to see that a property notices it.

-----------------------------------------------------------------------------
(* Sizes.  Trial 0 is the adjustment of the volume: the reference alone. *)

\* A trial has a reference that is also the hidden one, an anchor and the PLC
\* conditions.
Buffers(t) == IF t = 0 THEN 1 ELSE 2 + PLC

\* validate_study_audio_budget counts them at 48000 Hz.
ServerAccepts(sizes) == \A t \in 1 .. Trials : (2 + PLC) * sizes[t] <= Budget

SizeOf(t) == size[IF t = 0 THEN 1 ELSE t]

\* What the browser makes of a file, and what the page reserves for it.
Decoded(t) == CeilHalf(SizeOf(t) * rate)
WrongReserved(t) == CeilHalf((SizeOf(t) + Header) * rate)
Reserved(t) ==
    IF SizeOf(t) + Header > Allowance
    THEN CeilHalf((SizeOf(t) + Header - Allowance) * rate) ELSE 0

-----------------------------------------------------------------------------
(* State *)

\* left: files no loader has taken.  The others are being fetched, read or
\* decoded, or in the map of stimuli (kept).  reserved counts the answers whose
\* bytes were reserved.
Load == [pc: {"none", "working", "settling", "over"}, trial: 0 .. Trials,
         navigating: BOOLEAN, left: Nat, fetching: 0 .. Concurrency,
         reading: 0 .. Concurrency, decoding: 0 .. Concurrency,
         reserved: Nat, kept: Nat, aborted: BOOLEAN, timedOut: BOOLEAN]
NoLoad(pc) == [pc |-> pc, trial |-> 0, navigating |-> FALSE, left |-> 0,
               fetching |-> 0, reading |-> 0, decoding |-> 0, reserved |-> 0,
               kept |-> 0, aborted |-> FALSE, timedOut |-> FALSE]
NewLoad(t, navigating) ==
    LET started == Least(Concurrency, Buffers(t))
    IN [NoLoad("working") EXCEPT !.trial = t, !.navigating = navigating,
                                 !.left = Buffers(t) - started, !.fetching = started]

\* saving: the click that waits for flush().  pending: a save is to be repeated.
Page == [phase: {"open", "done", "gone"}, trial: 0 .. Trials, ready: BOOLEAN,
         failed: BOOLEAN, saving: {"none", "navigate", "retry"}, pending: BOOLEAN,
         locked: BOOLEAN, polling: BOOLEAN]

TypeOK ==
    /\ size \in [1 .. Trials -> Sizes]
    /\ rate \in Rates
    /\ page \in Page
    /\ generation \in 1 .. MaxLoads
    /\ load \in [1 .. MaxLoads -> Load]
    /\ control \in 0 .. generation
    /\ resuming \subseteq [engine: 1 .. generation, fresh: BOOLEAN]
    /\ playing \in 0 .. generation
    /\ overBudget \in BOOLEAN
    /\ faults \in 0 .. MaxFaults

\* boot() has read the checkpoint and the configuration and loads the first page.
Init ==
    /\ size \in {sizes \in [1 .. Trials -> Sizes] : ServerAccepts(sizes)}
    /\ rate \in Rates
    /\ page = [phase |-> "open", trial |-> 0, ready |-> FALSE, failed |-> FALSE,
               saving |-> "none", pending |-> FALSE, locked |-> FALSE,
               polling |-> FALSE]
    /\ generation = 1
    /\ load = [g \in 1 .. MaxLoads |->
                  IF g = 1 THEN NewLoad(0, FALSE) ELSE NoLoad("none")]
    /\ control = 0
    /\ resuming = {}
    /\ playing = 0
    /\ overBudget = FALSE
    /\ faults = 0

Fault == faults < MaxFaults /\ faults' = faults + 1

\* writable(), and navigating: from the click to the end of the load it leads to.
Writable == ~page.locked /\ page.phase = "open"
Navigating == page.saving = "navigate" \/ \E g \in 1 .. MaxLoads : load[g].navigating

WrongRetryShown ==
    (page.pending \/ ~page.ready) /\ page.saving = "none" /\ ~Navigating /\ Writable

\* buttons()
RetryShown == (page.pending \/ page.failed) /\ page.saving = "none" /\ ~Navigating /\ Writable

Stale(requests) == {[request EXCEPT !.fresh = FALSE] : request \in requests}

-----------------------------------------------------------------------------
(* Pages *)

\* clearAudio
ClearedLoads == [load EXCEPT ![generation].aborted = @ \/ load[generation].pc # "over"]
ClearAudio == control' = 0 /\ playing' = 0 /\ resuming' = Stale(resuming)

\* The synchronous part of loadPage.
StartLoad(t, navigating) ==
    /\ ClearAudio
    /\ generation' = generation + 1
    /\ load' = [ClearedLoads EXCEPT ![generation + 1] = NewLoad(t, navigating)]
    /\ page' = [page EXCEPT !.trial = t, !.ready = FALSE, !.failed = FALSE,
                            !.saving = "none",
                            !.pending = IF page.saving = "none" THEN @ ELSE FALSE]

\* The volume is set; the first trial follows.
Continue ==
    /\ page.trial = 0 /\ page.ready /\ Writable /\ page.saving = "none"
    /\ generation < MaxLoads
    /\ StartLoad(1, FALSE)
    /\ UNCHANGED <<study, overBudget, faults>>

\* navigate(1) and the retry button begin with flush().
Navigate ==
    /\ page.trial > 0 /\ page.ready /\ Writable /\ page.saving = "none" /\ ~Navigating
    /\ generation < MaxLoads
    /\ page' = [page EXCEPT !.saving = "navigate"]
    /\ UNCHANGED <<study, generation, load, sound, overBudget, faults>>

Retry ==
    /\ RetryShown
    /\ generation < MaxLoads
    /\ page' = [page EXCEPT !.saving = "retry"]
    /\ UNCHANGED <<study, generation, load, sound, overBudget, faults>>

\* flush() succeeded.
LoadNextPage ==
    /\ \/ page.saving = "navigate" /\ page.trial < Trials /\ StartLoad(page.trial + 1, TRUE)
       \/ page.saving = "retry" /\ ~page.ready /\ StartLoad(page.trial, FALSE)
    /\ UNCHANGED <<study, overBudget, faults>>

RetrySaved ==
    /\ page.saving = "retry" /\ page.ready
    /\ page' = [page EXCEPT !.saving = "none", !.pending = FALSE]
    /\ UNCHANGED <<study, generation, load, sound, overBudget, faults>>

Submitted ==
    /\ page.saving = "navigate" /\ page.trial = Trials
    /\ ClearAudio
    /\ load' = ClearedLoads
    /\ page' = [page EXCEPT !.phase = "done", !.ready = FALSE, !.saving = "none"]
    /\ UNCHANGED <<study, generation, overBudget, faults>>

\* flush() failed; the save stays pending or was refused.
SaveFails ==
    /\ page.saving # "none" /\ Fault
    /\ \E refused \in BOOLEAN :
          page' = [page EXCEPT !.saving = "none", !.pending = TRUE,
                               !.locked = @ \/ refused]
    /\ UNCHANGED <<study, generation, load, sound, overBudget>>

\* A poll finds the session changed, or the collection closed: then it also pauses.
Lock ==
    /\ page.polling /\ Writable
    /\ page' = [page EXCEPT !.locked = TRUE]
    /\ \/ UNCHANGED <<resuming, playing>>
       \/ resuming' = Stale(resuming) /\ playing' = 0
    /\ UNCHANGED <<study, generation, load, control, overBudget, faults>>

\* The frame around the page is taken away.
Shutdown ==
    /\ page.phase # "gone"
    /\ ClearAudio
    /\ load' = ClearedLoads
    /\ page' = [page EXCEPT !.phase = "gone", !.ready = FALSE]
    /\ UNCHANGED <<study, generation, overBudget, faults>>

-----------------------------------------------------------------------------
(* Loaders *)

Working(g) == load[g].pc \in {"working", "settling"}
WrongAllSettled(l) == l.fetching + l.reading = 0
AllSettled(l) == l.fetching + l.reading + l.decoding = 0

\* A loader throws: loadPage aborts the others and waits for them.
Fails(l) == [l EXCEPT !.pc = "settling", !.aborted = TRUE]

\* The head of an answer has arrived: its bytes are reserved before they are read.
WrongFits(l) == SizeOf(l.trial) + Header <= Budget + Allowance
Fits(l) ==
    /\ SizeOf(l.trial) + Header <= Budget + Allowance
    /\ (l.reserved + 1) * Reserved(l.trial) <= Budget

Respond(g) ==
    LET l == load[g]
    IN /\ l.fetching > 0 /\ ~l.aborted
       /\ \/ /\ Fits(l)
             /\ load' = [load EXCEPT ![g].fetching = @ - 1, ![g].reading = @ + 1,
                                     ![g].reserved = @ + 1]
             /\ UNCHANGED overBudget
          \/ /\ ~Fits(l)
             /\ load' = [load EXCEPT ![g] = [Fails(l) EXCEPT !.fetching = @ - 1]]
             /\ overBudget' = TRUE
       /\ UNCHANGED <<study, page, generation, sound, faults>>

Receive(g) ==
    /\ load[g].reading > 0 /\ ~load[g].aborted
    /\ load' = [load EXCEPT ![g].reading = @ - 1, ![g].decoding = @ + 1]
    /\ UNCHANGED <<study, page, generation, sound, overBudget, faults>>

\* The files a loader takes when it is done with one.
Taken(l) == Least(1, l.left)

\* decodeAudioData is done; the loader stops if the load was aborted, and takes
\* the next file otherwise.
Decode(g) ==
    LET l == load[g]
        done == [l EXCEPT !.decoding = @ - 1]
    IN /\ l.decoding > 0
       /\ \/ /\ l.aborted \/ g # generation
             /\ load' = [load EXCEPT ![g] = done]
             /\ UNCHANGED overBudget
          \/ /\ ~l.aborted /\ g = generation
             /\ (l.kept + 1) * Decoded(l.trial) > Budget
             /\ load' = [load EXCEPT ![g] = Fails(done)]
             /\ overBudget' = TRUE
          \/ /\ ~l.aborted /\ g = generation
             /\ (l.kept + 1) * Decoded(l.trial) <= Budget
             /\ load' = [load EXCEPT ![g] = [done EXCEPT
                    !.kept = @ + 1, !.left = @ - Taken(l), !.fetching = @ + Taken(l)]]
             /\ UNCHANGED overBudget
       /\ UNCHANGED <<study, page, generation, sound, faults>>

\* A call fails, the answer is no WAV file, or it does not say its length.
FileFails(g) ==
    /\ ~load[g].aborted /\ Fault
    /\ \/ /\ load[g].fetching > 0
          /\ load' = [load EXCEPT ![g] = [Fails(load[g]) EXCEPT !.fetching = @ - 1]]
       \/ /\ load[g].reading > 0
          /\ load' = [load EXCEPT ![g] = [Fails(load[g]) EXCEPT !.reading = @ - 1]]
       \/ /\ load[g].decoding > 0
          /\ load' = [load EXCEPT ![g] = [Fails(load[g]) EXCEPT !.decoding = @ - 1]]
    /\ UNCHANGED <<study, page, generation, sound, overBudget>>

\* The timer of a file goes off.
Timeout(g) ==
    /\ Working(g) /\ ~AllSettled(load[g]) /\ ~load[g].timedOut /\ Fault
    /\ load' = [load EXCEPT ![g].timedOut = TRUE, ![g].aborted = TRUE]
    /\ UNCHANGED <<study, page, generation, sound, overBudget>>

\* What is aborted before it is decoded throws.
AbortFetches(g) ==
    /\ load[g].aborted /\ load[g].fetching + load[g].reading > 0
    /\ load' = [load EXCEPT ![g] = [Fails(load[g]) EXCEPT !.fetching = 0, !.reading = 0]]
    /\ UNCHANGED <<study, page, generation, sound, overBudget, faults>>

-----------------------------------------------------------------------------
(* The end of a load *)

\* Failed, also because the last files were decoded after the timeout: the
\* stimuli are dropped and the load can be retried.
WrongFailed(l) == l.pc = "settling" /\ AllSettled(l)
Failed(l) == AllSettled(l) /\ (l.pc = "settling" \/ (l.pc = "working" /\ l.timedOut))

Settle(g) ==
    /\ Failed(load[g])
    /\ load' = [load EXCEPT ![g] = [NoLoad("over") EXCEPT !.trial = load[g].trial,
                                                        !.decoding = load[g].decoding]]
    /\ page' = [page EXCEPT !.failed = TRUE]
    /\ UNCHANGED <<study, generation, sound, overBudget, faults>>

\* Nothing failed, but the page has been left: loadPage returns.
Abandon(g) ==
    /\ load[g].pc = "working" /\ AllSettled(load[g]) /\ ~load[g].timedOut
    /\ load[g].aborted \/ g # generation
    /\ load' = [load EXCEPT ![g] = [NoLoad("over") EXCEPT !.trial = load[g].trial,
                                                        !.decoding = load[g].decoding]]
    /\ UNCHANGED <<study, page, generation, sound, overBudget, faults>>

\* All files are there: the engine gets them and the page is ready.
Install(g) ==
    /\ load[g].pc = "working" /\ AllSettled(load[g])
    /\ ~load[g].timedOut /\ ~load[g].aborted /\ g = generation
    /\ load' = [load EXCEPT ![g] = [NoLoad("over") EXCEPT !.trial = load[g].trial]]
    /\ control' = g
    /\ page' = [page EXCEPT !.ready = TRUE, !.polling = TRUE]
    /\ UNCHANGED <<study, generation, resuming, playing, overBudget, faults>>

-----------------------------------------------------------------------------
(* Playback *)

\* playTrack: a click, and what it does when the AudioContext runs.  Only the
\* last click counts, and a pause takes it back.
Play ==
    /\ page.ready /\ Writable /\ ~Navigating
    /\ resuming' = Stale(resuming) \cup {[engine |-> control, fresh |-> TRUE]}
    /\ UNCHANGED <<study, page, generation, load, control, playing, overBudget, faults>>

WrongMayStart(request) == page.ready /\ Writable /\ ~Navigating
MayStart(request) ==
    request.fresh /\ request.engine = control /\ page.ready /\ Writable /\ ~Navigating

Resumed ==
    \E request \in resuming :
        /\ resuming' = resuming \ {request}
        /\ playing' = IF MayStart(request) THEN request.engine ELSE playing
        /\ UNCHANGED <<study, page, generation, load, control, overBudget, faults>>

Pause ==
    /\ playing # 0
    /\ playing' = 0
    /\ resuming' = Stale(resuming)
    /\ UNCHANGED <<study, page, generation, load, control, overBudget, faults>>

-----------------------------------------------------------------------------
(* Specification *)

SaveSucceeds == LoadNextPage \/ RetrySaved \/ Submitted
LoadStep ==
    \E g \in 1 .. MaxLoads :
        \/ Respond(g) \/ Receive(g) \/ Decode(g) \/ AbortFetches(g)
        \/ Settle(g) \/ Abandon(g) \/ Install(g)
User == Continue \/ Navigate \/ Retry \/ Play \/ Pause \/ Shutdown
World == SaveFails \/ Lock \/ Resumed \/ \E g \in 1 .. MaxLoads : FileFails(g) \/ Timeout(g)

Next == SaveSucceeds \/ LoadStep \/ User \/ World

\* A call is answered, fails or is aborted by its timer, and decoding ends.
Spec == Init /\ [][Next]_vars /\ WF_vars(SaveSucceeds \/ SaveFails) /\ WF_vars(LoadStep)

-----------------------------------------------------------------------------
(* Properties *)

\* The memory for decoded audio stays within the budget, but for what WAV headers
\* are smaller than their allowance: buffers being decoded, decoded ones that wait
\* for the rest of their page, and those of the page shown, of all loads together.
Held(g) ==
    LET l == load[g]
    IN Decoded(l.trial) * (l.decoding + l.kept
                             + IF control = g THEN Buffers(l.trial) ELSE 0)
HeldByAll ==
    LET Sum[g \in 0 .. MaxLoads] == IF g = 0 THEN 0 ELSE Sum[g - 1] + Held(g)
    IN Sum[MaxLoads]
BudgetKept ==
    HeldByAll <= Budget + (2 + PLC) * CeilHalf((Allowance - Header) * rate)

\* A study that was prepared within the budget never exceeds it in the browser,
\* which sees lengths of files instead of shapes, unless its audio runs faster
\* than the study's 48000 Hz.
PreparedStudyLoads == overBudget => rate > 2

\* "Let aborted workers settle before allowing retry, rather than overlapping old
\* and new decoding buffers": a load begins when the earlier ones are over.
LoadsDoNotOverlap ==
    \A g \in 1 .. MaxLoads :
        g < generation =>
            load[g].fetching + load[g].reading + load[g].decoding + load[g].kept = 0

\* What sounds is the page that is shown, whenever the AudioContext resumes.
OnlyTheShownPageSounds == playing # 0 => playing = control

\* A participant is never left with a page that is neither ready nor retryable.
Waiting == Writable /\ ~page.ready /\ ~RetryShown
LoadingEnds == Waiting ~> ~Waiting

-----------------------------------------------------------------------------
(* The inductive invariant, proved in AudioPage_proofs *)

\* Every load has started or is still to come, and all but the last are over.
LoadsTakeTurns ==
    /\ \A g \in 1 .. MaxLoads :
          /\ g < generation => load[g].pc = "over"
          /\ g > generation => load[g].pc = "none"
    /\ load[generation].pc # "none"

\* The files of a load: no more in flight than there are loaders, no more than
\* the trial has, and all of them while nothing has failed.  What was answered was
\* reserved, and what is reserved or kept is within the budget.
Accounted(l) ==
    LET flying == l.fetching + l.reading + l.decoding
        answered == l.reading + l.decoding + l.kept
    IN /\ flying <= Concurrency
       /\ l.left + flying + l.kept <= Buffers(l.trial) /\ answered <= l.reserved
       /\ l.pc = "working" /\ ~l.aborted =>
             /\ l.left + flying + l.kept = Buffers(l.trial) /\ answered = l.reserved
             /\ flying = 0 => l.left = 0
       /\ l.pc = "settling" => l.aborted
       /\ l.pc \in {"none", "over"} => flying + l.kept = 0
       /\ l.reserved * Reserved(l.trial) <= Budget
       /\ l.kept * Decoded(l.trial) <= Budget

\* The participant acts, and a save is under way, only when the load is over; the
\* page of the volume has nothing to save and is retried only if its load failed.
PageWaitsForItsLoad ==
    /\ page.ready \/ page.failed \/ page.pending \/ page.saving # "none" =>
           load[generation].pc = "over"
    /\ page.failed => ~page.ready
    /\ page.trial = 0 /\ (page.pending \/ page.saving # "none") => page.failed
    /\ page.saving = "navigate" => page.trial # 0
    /\ page.saving # "none" => generation < MaxLoads

\* The engine has the buffers of the last load, which fitted when it was installed.
EngineHasTheLastLoad ==
    /\ control # 0 =>
          /\ control = generation /\ load[generation].pc = "over"
          /\ Buffers(load[generation].trial) * Decoded(load[generation].trial) <= Budget
    /\ page.ready => control # 0

IInv ==
    /\ TypeOK
    /\ ServerAccepts(size)
    /\ LoadsTakeTurns
    /\ \A g \in 1 .. MaxLoads : Accounted(load[g])
    /\ PageWaitsForItsLoad
    /\ EngineHasTheLastLoad
    /\ OnlyTheShownPageSounds
    /\ PreparedStudyLoads
=============================================================================
