------------------------------ MODULE FileStores ------------------------------
(***************************************************************************)
(* What the service keeps in directories beside its database: the tracks   *)
(* (module TrackLibrary), the plugins (module PluginEditor) and the        *)
(* material and results of the studies (module StudyArtifacts).  They are  *)
(* directories of their own and share no state, so a behaviour uses one of *)
(* them: the interleavings of the three would add states and no news.      *)
(***************************************************************************)
CONSTANTS Names, Runs, TrackUploads, Deletions, Batches,
          Plugins, Contents, Broken, Missing, Irregular, Nobody,
          Editors, PluginUploads, MaxManual,
          Workers, Definitions, Samples, None, MaxSaves, MaxRebuilds, MaxUpgrades, MaxLosses,
          MaxFaults

VARIABLES
    used,                                              \* the store in use
    file, upload, deletion, status, tracks, raced,     \* of TrackLibrary
    source, lock, editor, addition, tampered, manual,  \* of PluginEditor
    shared, analysis, material, final, study, worker, rebuilds,
    losses,                                            \* of StudyArtifacts
    faults                                             \* of one of the libraries

TrackVars == <<file, upload, deletion, status, tracks, raced>>
PluginVars == <<source, lock, editor, addition, tampered, manual>>
ArtifactVars == <<shared, analysis, material, final, study, worker, rebuilds, losses>>

Tracks == INSTANCE TrackLibrary WITH Uploads <- TrackUploads
Editor == INSTANCE PluginEditor WITH
    Uploads <- PluginUploads, file <- source, upload <- addition
Artifacts == INSTANCE StudyArtifacts WITH
    MaxFaults <- MaxLosses, faults <- losses

ASSUME StoresAssumption ==
    Tracks!LibraryConstants /\ Editor!EditorConstants /\ Artifacts!ArtifactConstants

TypeOK == Tracks!TypeOK /\ Editor!TypeOK /\ Artifacts!TypeOK

\* The types, and what makes each store correct from one step to the next.
IInv == Tracks!IInv /\ Editor!IInv /\ Artifacts!IInv

\* A store that is not used stays at one of its initial states.
Init ==
    /\ Tracks!Init /\ Editor!Init /\ Artifacts!Init
    /\ used \in {"tracks", "plugins", "artifacts"}
    /\ used # "tracks" => \A n \in Names : file[n] = "none"
    /\ used # "plugins" => source = [p \in Plugins |-> Missing]

Next ==
    \/ used = "tracks" /\ Tracks!Next /\ UNCHANGED <<used, PluginVars, ArtifactVars>>
    \/ used = "plugins" /\ Editor!Next /\ UNCHANGED <<used, TrackVars, ArtifactVars>>
    \/ used = "artifacts" /\ Artifacts!Next /\ UNCHANGED <<used, TrackVars, PluginVars, faults>>

Spec == Init /\ [][Next]_<<used, TrackVars, PluginVars, ArtifactVars, faults>>

\* A deletion leaves a run that became active its tracks, but for the races
\* its check cannot see (track_storage and delete_tracks).
TracksKept == Tracks!TracksKept

\* An upload without permission replaces no track it could have seen.
OverwriteNeedsPermission == Tracks!OverwriteNeedsPermission

\* A save of the editor replaces only the source its client had opened.
NoLostSave == Editor!NoLostSave

\* A study is collected for the material that was published (prepare_studies).
StudyHasItsMaterial == Artifacts!StudyHasItsMaterial

\* The results are those of the frozen study and its material
\* (publish_final_artifacts).
FinalMatchesStudy == Artifacts!FinalMatchesStudy

\* A conflict of a repeated finalization means that the analysis changed.
ConflictMeansUpgrade == Artifacts!ConflictMeansUpgrade

\* A repeated launch never resets a collection (save_prepared).
CollectionIsKept == Artifacts!CollectionIsKept
=============================================================================
