SPECIFICATION FairSpec
CONSTANTS
  Absent = Absent
  Names = {"app", "log", "proxy"}
  Sidecars = {"proxy"}
  PodSpecs <- MCPodSpecs
  Namespaces <- MCNamespaces
  DynaKubes <- MCDynaKubes
  TokenValues = {1, Absent}
  MaxEdits = 1
  MaxFaults = 2
INVARIANTS InstrumentedIsConfigured InjectedOnce IInv
PROPERTIES SecretFollows PodsStart
CHECK_DEADLOCK FALSE
