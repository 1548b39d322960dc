CONSTANTS
  p1 = p1
  p2 = p2
  s1 = s1
  s2 = s2
  Paths = {p1, p2}
  Skills = {s1, s2}
  MaxEdits = 2
  BuiltIns <- MCBuiltIns
  Servers <- MCServers
  Offers <- MCOffers
  Providers = {"ollama", "openai", "other"}
  ReusesFailed = TRUE
SPECIFICATION Spec
INVARIANTS
  InitializedInBody
SYMMETRY Symmetry
CHECK_DEADLOCK FALSE
