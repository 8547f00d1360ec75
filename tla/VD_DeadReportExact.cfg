CONSTANTS
  NL = "NL"
  Hdr = "HDR"
  Idx = "IDX"
  SectionNames <- MCSectionNames
  Sigs <- MCSigs
  Dumps <- MCDumps
  None = None
SPECIFICATION Spec
CHECK_DEADLOCK FALSE
INVARIANT DeadReportExact
