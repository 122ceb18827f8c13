\* One caller in a changing world, or two callers of any entry points on one database
\* with every preview policy; one upgrade of the agent.
SPECIFICATION Spec
CONSTANTS
  Call = {c1, c2}
  Ops = {"discover", "preview", "plan", "run", "approved", "tui"}
  Manifests <- AllManifests
  MaxChanges = 4
  MaxUpgrades = 1
SYMMETRY CallSymmetry
CONSTRAINT WorldOrRivals
INVARIANTS OneRunPerApproval RunHasTrail ProbePlanningIsApproved
PROPERTY RunsInApprovedContext
CHECK_DEADLOCK FALSE
