SPECIFICATION MachineSpec
CONSTANTS
  SECTSIZE = 4
  MemTop = 140
  ELFHDR = 0
  HdrSectors = 1
  PhOff = 0
  MapWords = 32
  Machines <- MCMachines
INVARIANTS MapAsReported MappedTwice LoadedAsLinked SectionsIntact
PROPERTIES A20Enabled SectionsFound
