-------------------------------- MODULE Disk --------------------------------
(***************************************************************************)
(* Reading a sector of the first IDE disk by programmed I/O: waitdisk and  *)
(* readsect, which boot/main.c and kern/elf_rw.c each have a copy of.      *)
(*                                                                         *)
(* A byte of memory is abstracted to where it came from: n >= 0 for byte n *)
(* of the kernel image (the file that starts at sector 1 of the disk).     *)
(*                                                                         *)
(* Outside src/: the drive.  It is busy from the command until the sector  *)
(* is in its buffer; its data port delivers whatever the buffer holds.     *)
(***************************************************************************)
EXTENDS Integers

CONSTANTS SECTSIZE,
          MemTop      \* bound: memory is 0..MemTop-1

ASSUME SectSizeAssumption == SECTSIZE \in Nat \ {0}
ASSUME MemTopAssumption == MemTop \in Nat

Addr == 0..MemTop-1
Other == -1           \* whatever was in memory before
Zeroed == -2

VARIABLES mem,
          drive,      \* ready or busy: the top bits of port 0x1F7
          lba,        \* the sector number in ports 0x1F3 to 0x1F6
          buffer,     \* the sector in the drive's buffer
          reading,    \* idle, select or transfer: where readsect is
          dst, sect   \* its arguments

diskVars == <<mem, drive, lba, buffer, reading, dst, sect>>

DiskInit ==
  /\ mem = [a \in Addr |-> Other]
  /\ drive \in {"ready", "busy"}
  /\ lba = 0 /\ buffer = 0
  /\ reading = "idle" /\ dst = 0 /\ sect = 0

\* The call readsect(d, s).
readsect(d, s) ==
  /\ reading = "idle"
  /\ reading' = "select"
  /\ dst' = d /\ sect' = s
  /\ UNCHANGED <<mem, drive, lba, buffer>>

\* The first waitdisk is over: the sector number and the command go out.
Command ==
  /\ reading = "select" /\ drive = "ready"
  /\ lba' = sect
  /\ drive' = "busy"
  /\ reading' = "transfer"
  /\ UNCHANGED <<mem, buffer, dst, sect>>

\* Memory after insl: a whole sector goes to dst.
Inserted(m, d, s) ==
  [a \in Addr |-> IF a \in d..d+SECTSIZE-1
                    THEN (s - 1) * SECTSIZE + (a - d) ELSE m[a]]

\* The second waitdisk is over: insl reads the drive's buffer.
Transfer ==
  /\ reading = "transfer" /\ drive = "ready"
  /\ mem' = Inserted(mem, dst, buffer)
  /\ reading' = "idle"
  /\ UNCHANGED <<drive, lba, buffer, dst, sect>>

\* The drive gets the sector into its buffer (or just becomes ready).
DriveReady ==
  /\ drive = "busy"
  /\ drive' = "ready"
  /\ buffer' = lba
  /\ UNCHANGED <<mem, lba, reading, dst, sect>>
=============================================================================
