CONSTANTS
  Workloads <- AllWorkloads
  MaxPage = 4
  MaxFaults = 1
SPECIFICATION SqlSpec
PROPERTIES ActsAsReference CallsReturn
CHECK_DEADLOCK FALSE
