\* Three commands, two at a time, about a database and a file, and two daemons.
SPECIFICATION Spec
CONSTANTS
  None = None
  Names = {"pg", "csv"}
  Attachments <- MCAttachments
  Commands = {c1, c2}
  c1 = c1
  c2 = c2
  MaxCalls = 3
  MaxRuns = 2
SYMMETRY Symmetric
INVARIANTS
  ProfilesAgree
  FinishedIsDurable
\* the last command ends
CHECK_DEADLOCK FALSE
