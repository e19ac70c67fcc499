CONSTANTS
  MaxRacks = 4
  MaxHosts = 1
  HostsPerRack = 1
SPECIFICATION Spec
INVARIANTS BandwidthDoubles
CHECK_DEADLOCK FALSE
