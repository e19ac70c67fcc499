CONSTANTS
  MaxRacks = 5
  MaxHosts = 3
  HostsPerRack = 2
SPECIFICATION Spec
INVARIANTS TypeOK TreeIsBalanced ClosCutsOddRack ClosSurvivesSwitch HostIdsDistinct
CHECK_DEADLOCK FALSE
