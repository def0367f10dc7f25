SPECIFICATION MachineSpec
CONSTANTS
  SECTSIZE = 4
  MemTop = 140
  ELFHDR = 0
  HdrSectors = 1
  PhOff = 0
  MapWords = 32
  Machines <- CpuMachines
INVARIANT NoCpuidStopped
