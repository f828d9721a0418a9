SPECIFICATION FairSpec
CONSTANTS
  Absent = Absent
  a = a
  b = b
  ip = ip
  Hosts = {a, b, ip}
  IPs = {ip}
  HostLists <- MCHostLists
  MaxEdits = 2
  MaxFaults = 1
INVARIANTS RoutedIsKnown IInv
PROPERTIES NeededIsKept Converges
CHECK_DEADLOCK FALSE
