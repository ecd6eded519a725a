CONSTANTS
  Jobs = {j1}
  Requests = {r1}
  Kinds = {"enable", "disable", "update"}
  Addons = {a}
  Shells = {sh}
  None = None
  Repair = Repair
SPECIFICATION FairSpec
PROPERTIES EveryJobEnds
