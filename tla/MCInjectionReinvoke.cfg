SPECIFICATION Spec
CONSTANTS
  Absent = Absent
  Names = {"app", "log", "proxy"}
  Sidecars = {"proxy"}
  PodSpecs <- MCPodSpecs
  Namespaces <- MCNamespacesOn
  DynaKubes <- MCDynaKubesOn
  TokenValues = {1, Absent}
  MaxEdits = 0
  MaxFaults = 0
CHECK_DEADLOCK FALSE
INVARIANT ReinvokedIsConfigured
