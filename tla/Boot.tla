-------------------------------- MODULE Boot --------------------------------
(***************************************************************************)
(* The machine from the BIOS to the kernel's C code, with its disk and its *)
(* keyboard controller: boot/boot.S (BootStart), boot/main.c (BootLoad),   *)
(* kern/bootstrap.S and kern/entry.S (Bootstrap), and the first statements *)
(* of i386_init, which clears .bss and reads the debug sections            *)
(* (SectionLoad).                                                          *)
(***************************************************************************)
EXTENDS BootStart, SectionLoad, Bootstrap

CONSTANTS Machines      \* records of a BIOS, an image and a processor

ASSUME MachinesAssumption ==
  /\ MapWords \in Nat /\ \A m \in Machines : Reports(m.bios)
  /\ \A m \in Machines : WellLinked(m.image) /\ WellSectioned(m.image)
  /\ \A m \in Machines : m.cpu.eflags \in Nat

machineVars == <<startVars, loadVars, headVars>>

MachineInit ==
  \E m \in Machines : StartInit(m.bios) /\ SectInit(m.image) /\ HeadInit(m.cpu)

\* The stages follow each other.  bootmain enters the kernel at _head64, which
\* comes back to BootLoad's "entered" as i386_init.
Start == StartNext /\ UNCHANGED <<loadVars, headVars>>
Head64 == at = "entered" /\ HeadNext /\ UNCHANGED <<startVars, loadVars>>
Load ==
  /\ st_at = "bootmain" /\ (at = "entered" => hd_at = "i386_init")
  /\ Processor
  /\ UNCHANGED <<startVars, headVars>>

Run == Start \/ Head64 \/ Load

DriveStep == Drive /\ UNCHANGED <<startVars, headVars>>
ControllerStep == Controller /\ UNCHANGED <<loadVars, headVars>>

\* The last state of a machine that gave up or that has all it reads.
GaveUp == at = "bad" \/ (at = "entered" /\ HeadStuck)
Stopped == (GaveUp \/ step = "done") /\ UNCHANGED machineVars

MachineNext == Run \/ DriveStep \/ ControllerStep \/ Stopped

\* The processor runs; the drive does not stay busy and the controller does not
\* keep a byte for ever: neither waitdisk nor the loops at seta20 have a timeout.
MachineSpec ==
  /\ MachineInit /\ [][MachineNext]_machineVars
  /\ WF_machineVars(Run) /\ WF_machineVars(DriveStep) /\ WF_machineVars(ControllerStep)
-----------------------------------------------------------------------------
\* A machine whose devices answer gets to the kernel, which then has all debug
\* sections of the image, or stops where the code says that it must: at an image
\* that is no ELF file, or a processor without long mode.
SectionsFound ==
  <>(\/ at = "bad" /\ ~image.magic
     \/ at = "entered" /\ HeadStuck /\ ~(cpu.cpuid /\ cpu.leaf1 /\ cpu.lm)
     \/ step = "done" /\ AllKnown /\ cpu.cpuid /\ cpu.leaf1 /\ cpu.lm)
=============================================================================
