\* Two uploads, a deletion and a run; two editors, an upload and a developer; two
\* workers that launch and finalize, a changed tree, an upgrade and two losses;
\* one fault of the others.
SPECIFICATION Spec
CONSTANTS
  n1 = n1
  n2 = n2
  u1 = u1
  u2 = u2
  d1 = d1
  r1 = r1
  p1 = p1
  e1 = e1
  e2 = e2
  v1 = v1
  c1 = c1
  c2 = c2
  c3 = c3
  bad = bad
  w1 = w1
  w2 = w2
  x1 = x1
  x2 = x2
  y1 = y1
  y2 = y2
  Missing = Missing
  Irregular = Irregular
  Nobody = Nobody
  None = None
  Names <- TwoNames
  Runs <- OneRun
  TrackUploads <- TwoUploads
  Deletions <- OneDeletion
  Batches <- SomeBatches
  Plugins <- OnePlugin
  Contents <- FourContents
  Broken <- OneBroken
  Editors <- TwoEditors
  PluginUploads <- OneUpload
  MaxManual = 1
  Workers <- TwoWorkers
  Definitions <- TwoDefinitions
  Samples <- TwoSamples
  MaxSaves = 2
  MaxRebuilds = 2
  MaxUpgrades = 1
  MaxLosses = 2
  MaxFaults = 1
INVARIANTS
  IInv
  TracksKept
  StudyHasItsMaterial
  FinalMatchesStudy
  ConflictMeansUpgrade
PROPERTIES
  OverwriteNeedsPermission
  NoLostSave
  CollectionIsKept
SYMMETRY Symmetry
CHECK_DEADLOCK FALSE
