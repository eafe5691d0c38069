# A verification of the PLC Studio backend

TLA+ models of the backend's own logic - runs, listening studies and the
participant's page - with the TLC runs that check them and the TLAPS proofs
about them. Paths below are relative to `src/plc_platform_backend/` unless they
say otherwise.

## 1. Inventory

The backend is a FastAPI service (`server.py`, `main.py`) whose requests are
coroutines of one process, a set of Dramatiq worker processes (`worker.py`,
`actors.py`) fed through Redis, one MongoDB database, and a shared directory for
audio and results. A *run* sends tracks through packet-loss simulators and
concealment algorithms. If it has a human calculator it ends in a *listening
study*: invited participants rate the audio in a page served by the backend
(`static/listening-client/player.js`), the researcher closes the collection, and
a worker publishes the frozen results.

| Component | State | Operations | Hard behaviour | Correct when |
|---|---|---|---|---|
| Run lifecycle (`runs/runs_service.py`, `runs_repository.py`, `runs_actors.py`) | status and failure report of each run, messages in Redis | save, retry, execute, delete; claim, settle, fail; publish the outcome | handlers and workers share nothing but conditional updates; delivery at least once; crashes between two steps; ambiguous sends | one worker per run, no forgotten run, a status never ahead of the results, outcomes announced only when final |
| Study preparation (`listening_studies/studies_service.py`) | published audio material, the study document | publish material, insert the study once | repeated launches, crashes between files and database | a repeated launch never replaces a study |
| Study collection (`participant_service.py`, `participant_repository.py`) | one study document with the heads of all sessions, immutable checkpoints, invitations | invite, consent, save, submit, revoke, exclude, delete unused, edit the protocol, close | each request reads, stages and publishes in separate steps | no lost, doubled or late save; consent to the wording in force; closing freezes |
| Finalization (`finalization.py`, `studies_controller.py`) | the artifact directory, the study's and the run's status | queue, publish, mark, settle | crashes between rename and mark, retries, digest conflicts | COMPLETED only with finalized results |
| Listening client (`player.js`) | ratings, changed rows, the pending request, the tab's IndexedDB record | edit, save, navigate, submit, poll, lock, discard, reload | lost answers, edits during a save, two tabs, reloads | no rating lost or overwritten silently |
| Results (`results_service.py`, `study_statistics.py`) | a cache keyed by study revision | snapshot, export, analyse | stale cache | equal revision, equal results |
| Page audio (`player.js`, `listening_studies/audio_loading.py`) | the loads of a page, the buffers of its engine, the playback asked for | load a page with three loaders, abort, retry, play, pause, leave; admit a study | decoding that cannot be aborted, timers, answers after the page was left, two ways to measure a size | within the budget, one page at a time, never waiting for nothing |
| Run configuration (`runs_service.py`, `modules/modules_validator.py`) | none | validate settings, packet sizes, node mapping | boundaries, nesting depth | incompatible runs are refused |
| Progress and status messages (`commons/interceptable_tqdm.py`, `runs_service.py`) | two process-wide registries of progress bars, the last message of each run | register, close, poll, reset, publish | testbench threads fill the registries that launches read and reset; statuses are published by two processes | progress of a run belongs to it and does not go back; statuses arrive in order |
| WebSocket forwarding (`runs/runs_ws.py`) | one Redis subscription and two tasks per client | subscribe, filter, forward, stop | a client that leaves while the service waits for Redis | the subscription ends with the client |
| Track library (`assets/`) | files and documents of tracks | upload, delete | no-overwrite check, reference check before deletion | a referenced track exists |
| Plugin editor (`plugins/`) | plugin source files, loaded modules | read, save, upload, reload | two editors, failed reloads | no edit lost silently |
| Module catalogue, archive, dashboard, documentation, wiring | files and configuration | read | none | - |

**How they interact.** API handlers change a run's status and send messages;
workers claim runs by the same conditional update and settle them. A human
launch inserts the study; closing the study and claiming the finalization meet
in the run's and the study's status. Participants' pages talk only to the
collection. Status changes and outcomes are published in Redis and forwarded to
WebSocket clients.

The hazards this leads to are listed in `PROJECT.json`, each at its line, with
the properties that would catch it.

## 2. Plan

Done in this order, the behaviour with the most to lose first:

1. `RunLifecycle` - the core - with `MCRunLifecycle` and `RunLifecycle_proofs`.
2. `ResponseRegister`, the abstract promise of a collection, and
   `ListeningStudy`, which implements it (`MCListeningStudy`).
3. `ListeningPlayer`, the participant's page (`MCListeningPlayer`); it sees the
   collection as the register that step 2 justifies.
4. `StudyArtifacts` (`MCStudyArtifacts`): the directories that launches and
   finalizations publish; it details what `RunLifecycle` does in the single steps
   `TestbenchEnds` and `PublishArtifacts`.
5. `RunConfiguration` (`MCRunConfiguration`): validation, construction and
   attribution of a run's settings.
6. `TrackLibrary` and `PluginEditor`: uploads and deletions of tracks against the
   runs that need them, and sources saved under a file lock. `FileStores`
   (`MCFileStores`) puts them and `StudyArtifacts` together: what the service
   keeps in directories beside its database.
7. `AudioPage` (`MCAudioPage`): the page's three loaders, their budget, abort and
   generation, playback, and the audio budget of a study.
8. `RunProgress` and `RunFeed`, composed by `RunEvents` (`MCRunEvents`): progress
   bars of concurrent launches, the order of status messages, and how messages
   reach a client.

9. `ListeningStudy_proofs`: every safety property of `study`, and the refinement of
   `ResponseRegister`.
10. `FileStores_proofs`, `AudioPage_proofs` and `RunEvents_proofs`: every safety
    property of the runs `file_stores`, `audio_page` and `run_events`.
11. `ListeningPlayer_proofs`: every property of the run `player`.
12. `RunConfiguration_proofs`, for which the model's algorithms became functions from
    paths: every property of the run `run_configuration`. With it every safety
    property of every passing run is proved.

Next:

13. Rating checks and quality flags as operators of `ListeningStudy`, if a property
    ever depends on them: today they look at one request at a time.

## 3. The models

### RunLifecycle

One action per request, actor or step between two database or broker calls.

- `status`, `failure`, `study` are fields of the run and study documents.
  `TransitionStatus` is `RunsRepository.transition_status`: every status change
  but insertion and deletion goes through it, and it writes `failure` each time.
- `broker` counts undelivered messages. `Receive` takes one, `Acknowledge` ends
  it, `WorkerDies` and a raising `launch_run` (`ActorRaises`) put it back;
  `finalize_listening_run` has `max_retries=0`, so its message is dropped when it
  raises but not when the worker dies.
- `handler` records what an API request has read: `CheckDelete` / `DeleteRun` are
  the two halves of `delete_run`; `ExecuteRun` or `QueueFinalization`, then
  `SendMessage`, or `SendRaises` and `RollBack`, are `execute_run` and
  `queue_finalization_if_ready`. A send that raises may have stored the message.
- `worker` is the progress of an actor: `Claim`, then `TestbenchEnds` and
  `SettleLaunch` (`_launch_run`), or `PublishArtifacts`, `MarkFinalized` and
  `SettleFinalize` (`finalize_listening_run`), `FailRun` for its except branch,
  and `PublishCompletion`.
- `announced` and `abandoned` are history.

Simplifications: the clone and the failed source of `retry_run` are checked and
saved in one step (the source is not changed, and the clone has a fresh id); a
launch message is retried as long as `MaxFaults` allows and never dead-lettered;
the testbench thread ends with its worker; finalized artifacts appear in one
step.

### ListeningStudy and ResponseRegister

The study document is one MongoDB document, so each of its conditional updates is
one action; the requests of `participant_service.py` are the sequences of such
actions, with what a handler read kept in `saver` and `admin`.

- `BeginSave`, `LoadSave`, `StageSave`, `PublishSave`, `Respond` are a consent, a
  save or a submission. `context()`'s three reads are one step at the study read:
  a checkpoint is immutable once stored and its removal belongs to sessions
  without saves. A payload is the set of requests merged into it and its consent.
- `BeginInvitations`, `StageInvitation`, `InstallInvitation`, `IssueInvitations`
  are the loop of `create_invitations`, which reads the study once for the batch.
- `RemoveHead`, `CleanInvitations`, `CleanCheckpoints` are the three deletions of
  `delete_unused_invitation`; `BeginClose`, `CommitClose` are `close`.
- `UpdateInstructions`, `Revoke`, `Exclude` are single conditional updates.
- `SaverDies`, `AdminDies` end a request between any two steps.

`ResponseRegister` says what all of this amounts to: per session a set of saved
requests that grows by one request at a time, answers only to what is in it,
removal only while it is empty, and a freeze. `ImplementsRegister` is that
specification under the mapping `open <- Collecting`, `present <- Live`,
`saved <- Merged`, `answered <- acked`. The types of `ListeningStudy` and its
inductive invariant (`TypeOK`, `IInv`) are proved and listed by no run.

### ListeningPlayer

`page[t]` is the state of `player.js` in a tab, `disk[t]` its IndexedDB record,
`log` the checkpoints the server published. `Flush`, `Continue`, `Acknowledge`,
`Refused`, `CallFails` are `flush()` and `sendPending()` between their awaits;
`Boot` restores a draft; `PollReads` and `PollArrives` are the two ends of a poll.
A call the page gave up may still be served (`ghosts`); when it overlaps with its
own retry the retry is refused although the request was saved
(`ServeOverlapping`). Rows of a trial are not told apart from rows of another;
`navigating` stands for the save that leaves a page, `complete` for the last one.

### StudyArtifacts

`material` and `final` are the two directories of a study, `shared` the condition
data in the tree that runs share, `analysis` the version of the analysis code and
its environment, which the digest in the manifest covers. A worker prepares,
exports and saves, or finalizes, writes and marks; two of them may do either at
once and die anywhere. `Rebuild`, `LoseFile` and `Upgrade` are the world. A
bundle is a definition and the rest of what its hash covers. A result is
determined by the study's revision and the analysis (`SameInput`); the directories
a worker writes before it renames them are its own and left out.

### RunConfiguration

A configuration is what `create_run` receives: simulators with a packet size,
algorithms, analysers, a number of tracks. An algorithm is a leaf with crossfades,
or an AdvancedPLC whose channels hold algorithms in turn: a tree, written as a
function from paths to settings. The path `<<<<"left", 1>>, <<"right", 2>>>>` is
that of the second algorithm in the right channel of the first one in the left
channel. `IsAlgorithm` says that every prefix of a path is a path and that the paths
that continue one are those its settings have a place for (`Nested`): what a JSON
value with nested lists is. A walk of the code over the tree, which recurses with a
depth, is a set of paths with a condition on their lengths or on their prefixes.

- `Validate` is `validate_run_create`: `ModuleErrors` collects what
  `ModuleConfigValidator.validate_module` says of each algorithm (`SettingsErrors`)
  down to `MaxNestedDepth` (3, as `MAX_NESTED_DEPTH`), `PacketSizeErrors` compares
  packet sizes within the same reach, `HumanErrors` are the rules for human runs.
- `SaveRun` is `_build_testbench_from_config`: `Hydrate` drops the channels and
  frequencies that the mode makes meaningless (`Kept`, `KeptFrequencies`), and with a
  channel every path through it (`Built`); `Given` deals the nodes of the testbench,
  in level order (`NextLevel`), out to the modules.
  `Raises` is what raises on the way, at any depth. A run that has tracks but a level
  without nodes (`Sparse`) may raise or not: the testbench says whether such a level
  is there (`testbench_nodes[2]`).
- `PrepareStudy` is `prepare_studies`, which looks the nodes up again and raises if
  there is none; `RefuseMaterial` is what it says of the material itself: that it has
  no excerpts, too many ratings or too much audio.

What validation and construction do with one value at a time is left out: strings,
steps, enumerations of leaf algorithms, `less_than` and the inspection of plugins.
So is null in the place of a list of frequencies or of a packet size.

The model follows the code in some things a reader may not expect. The validation
accepts null for most settings, and below the top also settings that are missing
(`modules_validator.py:104-109`), and what an accepted configuration contains may
therefore raise at any depth while the run is saved:

- an AdvancedPLC without `stereo_image_processing` or `channel_link`, as soon as it
  has a channel (`runs_service.py:162`), or with null for a channel that is kept
  (266): `ChannelsRaise`. Null for one of the two settings is no error, and keeps
  more channels than either value.
- an algorithm inside another, or a crossfade, without its name or its settings or
  with one that has no value, or a null preset of PARCnet (173, 224, 269-276): an
  algorithm is `readable` if it has none of these.
- a configuration without one of the three categories of modules (403, 415, 429):
  `complete`.

`ValidConfigsAreBuilt` names them (`Whole` is an algorithm with none of the first
two) and says that nothing else raises above the depth that is validated. An empty
`frequencies` is accepted with any number of algorithms per channel, because
`keys_match` skips an empty mapping (`modules_validator.py:336`), while the
manifest says "Each channel must have one more algorithm than its crossfade
frequencies." A packet size of 128.0 is not compared
(`runs_service.py:1219`). A single `linked` channel, one of the three key sets the
manifest allows, is validated and then dropped: `_get_hydrated_module_settings`
keeps left and right, or mid and side, before it looks at `channel_link`
(`runs_service.py:252-264`), so the algorithm is built without any channel. What
lies deeper than the validation looks is built as it is.

### TrackLibrary

`file[n]` is what a name of the library directory holds. An upload request goes
through its batch file by file: `BeginUpload` is the controller's look at the
library, `OpenUpload`, `Receive`, `Publish` and `ReadBack` are
`LocalTrackStorage.save` between the look at the destination, the body, the
rename and the metadata read back; `UploadFails` ends it anywhere.
`BeginDeletion`, `CheckRuns` and one `Unlink` per file are `delete_tracks`.
`PrepareRun` and `SaveRun` are the two ends of `save_run`, `Advance` and `Requeue`
what `RunLifecycle` does to a status. The content of a file is either a readable
WAV within the limit or not.

`surprised` and `raced` are history and mark the two races the code leaves open:
another upload published the name since this one looked (the later of two uploads
without permission then replaces the earlier, `track_storage.py:130`), and a run
became active while its tracks were being deleted (the run then names a track
that is gone, `assets_service.py:139`). The properties say that nothing else goes
wrong.

### PluginEditor

`file[p]` is a source, missing, or something that is no regular file; the digest
that serves as revision is the source itself. `BeginSave` to `Release` are the
steps of `save_source` in one thread, `lock` is the file lock that the system
drops when its process dies, `BeginUpload` and `Link` are `upload`, which takes no
lock. `Tamper` is a developer at work in the directory; `tampered` is history and
marks the gap between the recheck and the rename.

### FileStores

Instances of `TrackLibrary`, `PluginEditor` and `StudyArtifacts`. The three are
directories of their own and share no state, so a behaviour uses one of them
(`used`) and their state spaces add up instead of multiplying. Its `IInv` is the
conjunction of the inductive invariants of the three, each stated at the end of its
module.

### AudioPage

`load[g]` is one call of `loadPage()`; its loaders and files are counted, since
the buffers of a trial have the same length. `Respond`, `Receive` and `Decode` are
the three awaits of a loader: the answer of `fetch`, whose bytes are reserved, its
body, and `decodeAudioData`, which no signal aborts. `FileFails`, `Timeout` and
`AbortFetches` are the ways a file ends otherwise, `Settle`, `Abandon` and
`Install` what `loadPage` does once all loaders have settled. `Continue`,
`Navigate`, `Retry`, `SaveFails` and the three outcomes of a save
(`LoadNextPage`, `RetrySaved`, `Submitted`) are the buttons, with `flush()` as one
wait: what it does is in `ListeningPlayer`. `Play`, `Resumed` and `Pause` are
`playTrack()` around its wait for the AudioContext. Trial 0 is the adjustment of
the volume, for which the reference alone is loaded. `ServerAccepts` is
`validate_study_audio_budget`: `Init` admits the studies it lets through.

Sizes are small numbers in the proportions of the code: a buffer at 48000 Hz, a
header of a WAV file (1) below its allowance (2), rates in halves of 48000 Hz.
Workers and backend are taken to be given the same budget. A loader that fails
aborts the others in the same step, as its `catch` does before anything else can
run. Two errors that `loadPage` throws after all loads settled, for buffers of
unequal lengths, do not occur: the published clips of a trial have one length.

`PreparedStudyLoads` has a proviso that the code does not: a browser whose
audio hardware runs faster than 48000 Hz reserves proportionally more than the
server counted, and a study close to the limit fails there for good
(`player.js:309`, `audio_loading.py:58`).

### RunProgress, RunFeed and RunEvents

`RunProgress` is one worker process with several Dramatiq threads, whose actors
are coroutines of one event loop (`actors.py:11`). `launch[r]` is the coroutine
of `_launch_run`, interrupted by testbench threads (`thread[r]`) at every step,
and by other launches only at its awaits (`Alone`). `active` and `closed` are the
two registries of `InterceptableTqdm`; `List`, `Copy` and `Report` are one poll;
`LaunchClears`/`LaunchCloses` and `ThreadClears`/`ThreadCloses` are the two
`reset_all()`, which clear under the lock and close afterwards. `Raise` ends a
node's loop with an exception, whose traceback holds the bar until the launch is
over; `Collect` is its `__del__`. `handler`, `queue` and `shown` are the status
messages of the request that queues a run and of the worker that claims it.

A node has a name of its own in the model (`NodesOf`) and the id that the testbench
gives it (`IdOf`). The id is derived from the settings of the node's worker and its
ancestors ("the shared execution tree", `runs_service.py:440`), so that a run and its
retry, and equal modules of one automated run, have the same ids. Nothing is assumed
about which nodes share one. `active` is a set of bars, `closed` maps ids to counts, as in
the code; of two registered bars with one id the poll takes the later, which is either
(`Picks`).

A run is queued by a request (`RunOf`), and may be queued again: `SendFails` is a send
that raises before or after the broker has the message, `Recall` and `TellCreated` take
the run back to CREATED, unless a worker has it, and publish that. `Drop` is a message
that finds its run not queued.

`beside` and `stray` are history. `beside[r]` are the runs that were at work in the
process together with `r`: launches that share it, the default with several Dramatiq
threads, report each other's nodes and clear each other's bars. `stray` are the ids of
bars that a reset found open, of a thread that outlived its launch or of a loop that
raised. A reset clears the registries first and closes such a bar afterwards, and so does
the garbage collector (`tqdm.__del__`), which enters its count in the registry of closed
bars that was just emptied. If it is the bar of a failed run, its retry has a node with
that id: closed bars take precedence over open ones (557-565), and the retry reports the
count of the failed run until its own bar closes or the registries are reset. The
properties say what remains true beside these two.

`RunFeed` is one client of `/ws/runs`: the two tasks of the endpoint, the
subscription with the messages under way, and the end of all of them. `RunEvents`
joins the two as `FileStores` joins its three (`Pub`, `Feed`): the feed tells the
publishers nothing, so it is given every sequence of messages. `Over` is Python's
`{**old, **new}` on counts by node. `ws.py` holds an older endpoint
that `main.py` does not mount.

What is stated of them:

- `NothingIsRetained` is what `reset_all()` is for, by its comment: while no run is
  at work the registries are empty, but for stray ids.
- `PollIsCurrent`: a message of a run that has the process to itself is no older than
  its poll and no higher than a bar of the run.
- `EventsInOrder`: statuses are published in the order in which the run had them. A
  request whose send failed is the exception: its CREATED can be told late, after a
  later request has queued the run again or a worker that had the message after all
  has claimed it, and then also the QUEUED of that later request.
- `OwnProgress`, which says whose nodes a message can name, is proved and listed by
  no run: it follows from `IInv` (`PollsOwnNodes`), and exempts the runs beside and
  the stray ids altogether.

Left out: the completion messages, whose truth is a property of `RunLifecycle`;
human runs, whose status messages can also come from finalizations.

## 4. The runs

| Run | Question | Bounds |
|---|---|---|
| `lifecycle_safety` | Are runs claimed, settled, finalized and deleted safely? | a human and an automated run, 2 workers, 2 handlers, 1 fault |
| `lifecycle_live` | Does every queued or running run come to rest, and does the inductive invariant hold with a retry's clone beside its source? | 2 human runs, 1 worker, 1 handler, fair processes, 1 fault |
| `finalize_rerun` (violation) | Is the testbench of a closed study never run again? | 1 fault |
| `study` | Are saves neither lost, doubled nor late, and do concurrent batches, edits and closings keep consent and limit? | 3 sessions for 2 places, 2 researchers; or 1 session, 2 savers, 2 requests, 1 researcher |
| `player` | Does a tab keep its ratings through lost calls and reloads, and do two tabs respect each other's answers? | 1 tab with 1 row, 2 scores and 3 requests, or 2 requests, 1 fault, 1 reload; or 2 tabs with 1 score, 2 requests, 1 reload |
| `player_lock` (violation) | Does a tab lock itself only for a reason? | no fault needed |
| `player_submit` (violation) | Does a submission contain the last ratings? | 1 fault |
| `file_stores` | Do active runs keep their tracks, is nothing overwritten without permission, does a save undo only what its client has seen, and do material, study and results belong together? | 2 names, 2 uploads of up to 2 files, 1 deletion, 1 run; 2 editors, 1 upload, 3 sources and a broken one, 1 manual change; 2 workers, 2 x 2 bundles, 2 saves, 2 rebuilds, 1 upgrade, 2 losses; 1 other fault |
| `run_configuration` | Is what validation accepts built as configured and attributed to the right algorithm? | the 1609 configurations of `MCRunConfiguration`, with nesting from above to below the depth limit, and with settings, channels and modules that are null or missing |
| `audio_page` | Is one page's audio held and heard at a time, within the budget, and does every load end? | 2 trials of 4 buffers for 3 loaders, 4 loads, 3 sizes around the budget, 2 rates, 2 faults; fair loaders and saves |
| `run_events` | Do the registries forget a run, are progress and statuses current and in order, and does a client that leaves end its subscription? | 2 runs of 1 node, both with one id, 2 requests, for one run or for both, 1 fault; 1 client, 2 messages under way, fair tasks |
| `final_progress` (violation) | Is the last node of a run reported as finished? | 1 run of 1 node, no fault |

**Three constraints.** `study` and `player` each put two instances into one run, and
`run_events` leaves out one combination; their MC modules say what is explored.
`InviteOrSave` (`MCListeningStudy`): everything two researchers do with invitations
nobody has used, revoked or excluded, at two versions of the consent, closing as long
as there was but one of them; and everything that happens to one session while one
researcher acts, until the session is deleted and the consent changed. Session ids are
drawn in order there, since a symmetry set of all names costs more than it saves.
`OneTabOrSmall` (`MCListeningPlayer`): one tab with three requests, or with two
requests, a fault and a reload; and, from the moment a second tab takes part, two tabs
that give one score in two requests and a reload, with no fault and no end of the
study. `TwiceOrBoth` (`MCRunEvents`): two requests for one run, or one for each of two
runs; the behaviours of the feed, which its liveness property is about, make no request
and are all explored. A state outside the constraint is checked itself and not
continued, so what the runs show holds of the behaviours the constraint describes, and
nothing else. The proofs know no constraint.

**Why the bounds are enough to be interesting.** Two workers are needed for two
claims of one run and two handlers for a deletion against an execution or a close
against a retry; a fault is a lost worker, a lost handler, an ambiguous send or a
redelivered message. Runs do not interact except through a retry, so one of each
kind, or a run and its clone, are enough; the proofs cover every number.
`MaxSaves` and `MaxRevision` bound how far revisions grow: a stale
request is stale by one revision or more, and two requests on one revision are
the smallest race. Three session ids for `MaxSessions = 2` let two batches
compete for the last place and let a deleted session be replaced. Four buffers are
one more than there are loaders, so one loader takes a second file; four loads
are a page, its retry, the next page and its retry; the sizes are one that fits
easily, one that just fits and one that the server refuses for a trial. Two
runs in one process follow each other or overlap in every way, and their nodes have one
id, as those of a run and its retry: the worst case, since runs with other ids disturb
each other less. One node each is enough to open, finish, raise and be left behind, and
two nodes of a run never have bars at the same time; that equal nodes of one run
agree too is left to the proof. Two requests for one run are one whose send fails and
one that queues the run again. In the page,
two requests give an old and a new one and a ghost of the first. Two rebuilds let
the shared tree change and change back. The configurations combine every channel
layout and mode at one level, and nest algorithms one level above, at and below
the depth limit, so each rule has a configuration on both sides of its boundary.
Two names and batches of two files let an upload fail in its middle; three
sources are the one opened and the two that two editors write. Symmetry is used
for interchangeable workers, handlers, savers, requests, tabs, uploads and editors;
no definition distinguishes them. Of the runs with a liveness property only `run_events`
uses it, for the two requests of a run: they belong to the publishers, and
`DisconnectReleases` is about behaviours of the feed, in which no request takes a step.

Deadlock is not checked: with every request answered and every bound reached the
system may rest.

**Fairness.** `lifecycle_live`: a request the API has begun and an actor a
worker has entered run to their end (weak fairness of `HandlerStep`,
`WorkerStep`): these are threads and coroutines that block on nothing of this
system. Redis lists are first in, first out, and workers keep becoming idle, so a
message is eventually taken: strong fairness of `Receive` per message. No request
is ever promised, and a fault never is. What the run does not promise is
recovery: a run whose worker or handler was lost (`abandoned`) may stay RUNNING
or QUEUED for ever, which is how the code behaves.

`audio_page`: a loader's call is answered, fails, or is aborted by its timer, and
the browser's decoder ends (weak fairness of `LoadStep`); a save is answered or
fails, by its own timeout of 30 seconds (`player.js:159`; weak fairness of `SaveSucceeds \/
SaveFails`). The participant promises nothing: `LoadingEnds` says that a page
that waits comes to be ready, retryable, read-only or gone by itself.

`run_events`: the event loop runs a task that can go on, each for itself (weak
fairness of the six steps of the endpoint and its tasks). Neither Redis nor the
client promises a message, which is the point of `DisconnectReleases`.

**Disagreements found** are the four violation runs, described in `PROJECT.json`
under `findings`: a launch message that runs the testbench of a closed study
again; a page that locks itself over its own save; a retried submission that
drops the edits made since it failed; and registries of finished progress bars
that are emptied before they are read for the last time. Sections 3 and 6 name others that no run
demonstrates.

## 5. The proofs

Each proof is of the specification its run checks, for every value of the
constants, and goes the same way: an invariant `IInv` that is inductive, one lemma for
each of its conjuncts with a step for every action that touches it, a theorem
`Invariant`, and the properties from that. The runs `lifecycle_live`, `player`,
`file_stores`, `audio_page` and `run_events` check their `IInv` on small instances;
those of `ListeningStudy` and `RunConfiguration` are proved and listed by no run. Seven
modules prove 48 theorems in all.
Every safety property of the passing runs is proved.

### Runs

`RunLifecycle_proofs` proves, for any sets of runs, workers and handlers and any
number of faults, every safety property of `lifecycle_safety`, the invariant
`IInv` of `lifecycle_live`, and three more: no finalization is queued while the
collection is open (`FinalizeAfterClose`, a conjunct of `IInv`), COMPLETED is
left only by deletion (`CompletedIsFinal`), a study is never reset
(`StudyForward`). The only assumption is `RunsAssumption`
(`HumanRuns \subseteq Runs`, `NoRun \notin Runs`, `MaxFaults \in Nat`).

The safety invariants are not inductive as they stand. `IInv` adds two facts:
`QueuedAfterClose` - a handler that queued a finalization saw a frozen study,
which is why a roll-back may restore AWAITING_INPUT or FAILED - and
`ProgressIsStored` - the point a worker has reached is matched by what is stored,
which is why its last compare-and-set may claim a result. `ExclusiveExecution`
carries the rest: since only QUEUED runs are claimed and only their own worker or
a deletion moves RUNNING on, the ignored result of `_launch_run`'s last update
does no harm, and success is announced only for a COMPLETED run. Each conjunct
has a lemma with one step per action that touches its variables
(`TransitionEffect` says what the compare-and-set does); `Inductive` puts them
together, and each theorem follows from `Invariant`. `CompletedFinal` and
`StudyForward` are action properties, proved from the types alone.

### The collection

`ListeningStudy_proofs` proves, for any finite sets of sessions and requests, any
savers and researchers and any limits, all that `study` checks. `StudyAssumption`
asks beyond that only for names that are not used twice. `IInv` says what a request
may still rely on between its steps. `CheckpointsExtendHeads`: a stored checkpoint that
was made on the revision its head still has is the head's current one with its own
request added. `SaversAreCurrent`: a saver that expects the revision the head has
read that head's checkpoint; so the comparison of one number in `PublishSave` is
enough, and a stale saver can only be refused. `ClosingCountsAreCurrent` says the
same of the counts of a closing and the study's revision. `InvitationsAreStaged`
and `SessionsAreDrawnOnce` keep two batches of invitations apart, and
`HeadsAreStored` says that what a head names exists, and that its requests were
stored on earlier revisions than its present one, which is why no request is merged
twice.

`Refinement` is `Spec => ImplementsRegister`: initial states map to initial
states, and each action, in a step of its own, to a step of the register or to a
stutter. Publishing a save applies it, and its answer comes later; installing and
removing the head of an unused session adds and removes a register; a closing
freezes all of them at once. Whatever is staged or swept up is a stutter.

### The participant's page

`ListeningPlayer_proofs` proves all that `player` checks, for any tabs, rows, scores,
requests, faults and reloads, and so also what the constraint of `MCListeningPlayer`
leaves out: several tabs with several rows and faults. `PlayerAssumption` asks that 0
is not a score and the name of no record not a tab, `NothingAssumption` that the
names for nothing are not requests, records or answers. One lemma says what each
action does to a page, its record and what is on its way (`AcknowledgeEffect`,
`FlushEffect` and so on); the conjuncts are proved from these.

`Known(t)` are the requests of a tab that may still be served: pending in the page,
in the record, or given up and on their way. `RequestsAreUnique` says that an id is
one request of one tab, and that a checkpoint with that id is that request, published
on the revision it expected. From it follows that the server recognises a repetition
by its id alone, and that an acknowledgement speaks of the tab's own request.
`RequestsAreHonest` says that beside its edits a request repeats the checkpoint it was
made on; as it is only accepted on that checkpoint, `NoBlindOverwrite` follows.
`EditIsSafe` is stronger than `EditsAreKept`: a score that is not published is
in the record, and if a page is open also in the page, since the page is what the
record will be replaced with. An acknowledgement may take a score out of both
because the row then equals the checkpoint, which is the tab's own.

`AloneIsNeverRefused` needs the most. `InStep` says that a tab which saves alone is at
the server's revision, or has one request outstanding (`Unacknowledged`) that either
made that revision or is going to make the next one; and that whatever it gave up
earlier expects a revision of the past, so that it is refused without effect when
it arrives. What keeps this is that page and record name the same request
(`PageMatchesRecord`): with one failed write of the record the tab is not in step
any more, which is why the property has `mishaps = {}`.

### The file stores

`FileStores_proofs` has one section for each store and then puts them together: a
step of one leaves the variables of the others alone. `StoresAssumption` gives the
constants their types.

- Tracks: no deletion that passed its check wants a track of an active run, unless the
  run became active after the check and is marked `raced` (`DeletionsSpareRuns`).
  What is renamed over a destination was validated (`PublishedFilesAreValid`), and an
  upload without permission has seen every file with its name or is marked
  `surprised` (`UploadsKnowTheirNames`).
- Sources: the lock has one holder at a time (`LockIsExclusive`), and unless a
  developer wrote into the directory, what the holder has rechecked is still there
  when it renames (`RecheckHolds`). `NoLostSave` is that fact at the rename.
- Artifacts: `LaunchesHaveMaterial` and `FinalizationsAreFrozen` say what a worker
  carries between its steps - material that is published, a study that is frozen -
  so that two workers write the same results unless the analysis changed in between.
  `FinalMatchesStudy` and `ConflictMeansUpgrade` follow from it.

### The page's audio

`AudioPage_proofs` assumes `AudioAssumption`: a header is within its allowance and
the rest are numbers. The invariant keeps an account of each load (`Accounted`):
its files are waiting, under way, or decoded, never more under way than there are
loaders, and what is reserved covers what is under way. `LoadsTakeTurns` says that
only the last load may hold anything, because the next one begins when all loaders
have settled; that is what `loadPage()` waits for after an abort. `MemoryBounded`
adds these accounts up over all loads: the running sum is what the last load holds,
since a first load at which the two differ would be one that holds something.
`OnlyTheShownPageSounds` and `PreparedStudyLoads` need
`EngineHasTheLastLoad` and `PageWaitsForItsLoad`: a page that waits is the page
of the load under way. Products of sizes are beyond the provers, so that a few
lemmas say how they grow.

### Progress and statuses

`RunEvents_proofs` proves `IInv`, `OwnProgress`, `NothingIsRetained`, `PollIsCurrent` and
`EventsInOrder` for any runs, requests, nodes and ids, any number of steps and faults;
`EventsAssumption` asks only that a node belongs to one run, which says nothing of its
id. The argument about progress is about a run that is alone: `OverlapIsNoticed` says
that two runs at work know of each other (`beside`), so that for a run with nobody beside
it only its own launch and thread change the registries, except that the bar of an
earlier run may be collected in between, which makes no id stray that was not.
`ThreadOwnsItsNodes` says that nobody has a bar of a node its thread has not come to,
and that at most one bar of a run is registered. `RegistriesAreTidy` says that whatever is
registered, or about to be closed by a reset, belongs to a thread that has not cleared
the registries yet, or has a stray id: so an earlier run with the same ids leaves nothing
under an id that is not stray, and `NothingIsRetained` follows. `NodeIsCurrent` then
follows one node through the poll: its bar is in the registry it belongs to, and whatever
the poll has listed or copied counts at least what the bar did when the poll began
(`head`). A bar that moves from one registry to the other between the two reads is found
in the second one, which is why `progress_state` reads the open ones first. Equal nodes
of one run share an entry, whose count is that of one of their bars.

`StatusFollows` gives each status to one process at a time. Until a send of the run has
failed, one request at a time is on its way and publishes before its message is sent
(`RequestsTakeTurns`), so that the worker's messages come later. Afterwards requests can
tell CREATED and QUEUED late, which is why what was published may be ahead of the run
only as QUEUED; RUNNING and the outcome still come from the one launch there can be.

### Run configuration

`RunConfiguration_proofs` proves `SizesFit`, `ValidConfigsAreBuilt` and
`ConditionsAreAlgorithms` for any set of configurations whose algorithms are trees of
any shape and depth, any table of supported packet sizes and any depth of validation.
`ConfigurationAssumption` asks for that shape and no more: it allows unknown names,
missing mappings, null channels, wrong lengths, no tracks or modules at all, and every
other mistake the validation looks for.
`IInv` ties the stages together: past the validation there are no errors, and a saved
run is what the construction makes of its configuration.

- What was validated is known of a node with a path within the depth
  (`ValidSettings`), and a node that is built has the path it was configured with and
  its settings but for dropped channels (`HydratedFrom`, `HydratedAdvanced`), so that
  sizes and lengths carry over. Channels and frequencies stay together because both
  are filtered by `Kept` of the settings as they were configured.
- An algorithm that is `Whole` and raises does so for an unknown name or for frequencies
  that are no mapping, which the validation refuses where it looks; out of its reach the
  algorithm has an ancestor at the last depth in reach that has algorithms inside it: the
  prefix of its path (`RaisesOutOfSight`). No induction over the tree is needed.
- In a human run there is one simulator, so the levels of a track are known
  (`HumanLevels`), and the position of a node in its level, written with two digits to
  the base of the number of analysers (`Digits`), gives the algorithm and the
  analyser. The settings in a node's name carry the index of the instance, so two
  nodes with one name come from one instance (`NameTellsInstance`), and the owner
  that `index % n` picked for any of them is that instance (`OnlyOwner`). Without the
  index, as in automated runs, equal algorithms would own each other's nodes. So the
  look-up of a node always succeeds, and `PrepareStudy` fails only when there is no node
  at all, for want of tracks or algorithms (`ConditionsFollow`).

`HydratedAreAlgorithmsAlways` adds that the trees of a saved run are trees again,
below the depth of the validation too: each algorithm has inside it exactly those
that its settings still have a place for.

### What stays with TLC

- Liveness: `ActiveRunSettles`, `LoadingEnds`, `DisconnectReleases`
  rest on fairness and ENABLED, which are out of the prover's reach.
- What the definitions of `RunConfiguration` compute from a JSON value, as opposed to
  a tree: that the recursion of the code visits exactly those paths would be an
  induction over data. `MCRunConfiguration` compares `NextLevel` with lists put
  one after the other (`LevelOrder`).
- The four violations, of course: their properties are false.

## 6. Not modelled

Statistics (floating point), HTML sanitising, archives, exports, documentation,
configuration and logging: no state that could go wrong by order or failure. The
check of the ratings of one request (`validate_ratings`) and the quality flags of a
session are functions of their input that no state waits for.

The messages that announce a change of status are left out of `RunLifecycle`, since a failure
to publish one is logged and ignored (`runs_service.py:359-390`); their order is
in `RunProgress`, and the outcome of a run is `announced`.

The page's ratings (`ListeningPlayer`) and its audio (`AudioPage`) are not
composed: they meet in `flush()`, which each sees as the other's single step.
`RunProgress` has neither crashes nor repeated messages, which `RunLifecycle`
has; a worker that dies takes its registries with it.

Two things in `interceptable_tqdm.py` have no property. The lock of the registries
is not reentrant, and `close()` can be called by the garbage collector
(`tqdm.__del__`) in a thread that holds it; when a collection happens is up to the
interpreter. And `progress_state` keeps the nodes of an overlapping run for
the rest of the launch.

One race is in the model without a property that forbids it: `delete_run` reads
the status and deletes in two steps (`CheckDelete`, `DeleteRun`), so a run queued
or claimed in between is deleted underneath its worker. The properties of
`RunLifecycle` allow for that. `PROJECT.json` lists every component with its
status.
