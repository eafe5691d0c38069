\* Three session ids for two places, two researchers inviting, deleting, editing
\* and closing, or one of them beside two savers of one session.
SPECIFICATION Spec
CONSTANTS
  s1 = s1
  s2 = s2
  s3 = s3
  q1 = q1
  q2 = q2
  p1 = p1
  p2 = p2
  a1 = a1
  a2 = a2
  Initial = Initial
  NoSession = NoSession
  Sessions <- ThreeSessions
  Requests <- TwoRequests
  Savers <- TwoSavers
  Admins <- TwoAdmins
  MaxSessions = 2
  MaxSaves = 2
  MaxRevision = 3
INVARIANTS
  CloseReportAccurate
  ConsentIsCurrent
  SessionLimit
PROPERTIES
  ClosedIsFrozen
  SealedSessionKeepsRatings
  RevisionIdentifiesDocument
  ImplementsRegister
CONSTRAINT InviteOrSave
SYMMETRY Symmetry
CHECK_DEADLOCK FALSE
