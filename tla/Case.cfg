SYMMETRY ArtifactSymmetry
SPECIFICATION Spec
CONSTANTS
  boss = boss
  manager = manager
  Users <- Desk
  Role <- DeskRole
  Owners = {boss, manager}
  Nobody = Nobody
  Artifacts = {a1, a2}
  Met = {"new", "ready_for_export", "closed"}
  Targets = {"in_review", "ready_for_export", "escalated", "closed"}
INVARIANTS
  RowTellsOneStory
  TrailTellsStatus
  CleanExportIsEarned
PROPERTIES
  EndStatesHold
CHECK_DEADLOCK FALSE
