CONSTANTS
  Jobs = {j1, j2}
  Requests = {r1, r2}
  Kinds = {"update"}
  Addons = {}
  Shells = {sh}
  None = None
  Repair = Repair
SPECIFICATION Spec
INVARIANTS TypeOK OneRunner
PROPERTIES OutcomeIsFinal ImplementsOneJob
