----------------------------- MODULE Bootstrap -----------------------------
(***************************************************************************)
(* kern/bootstrap.S and kern/entry.S: the kernel's entry in 32-bit mode,   *)
(* the test of the processor, the boot page tables, the switch to long     *)
(* mode, and the two far returns that take the processor from the load     *)
(* addresses to the link addresses.                                        *)
(*                                                                         *)
(* Addresses count pages of 2 MB, the only ones that are mapped: a table   *)
(* is a function from the indexes of its present entries, to a table or to *)
(* a page.  KERNBASE, 0x8004000000, is page 32 of the second 512 GB.       *)
(* Outside src/: the processor, of which is known whether it has cpuid,    *)
(* the cpuid function 1, and long mode, and its flags at entry.            *)
(***************************************************************************)
EXTENDS Integers, FiniteSets

KERNPAGE == 512 * 512 + 32      \* KERNBASE

VARIABLES hd_at, cpu,
          eflags,               \* the flags register
          info,                 \* multiboot_info, the kernel's variable
          pml4, pdpt1, pdpt2, pde1, pde2,
          paging, rip, rsp, rbp \* cr0, and where code and stack are: "low", "high"

tables == <<pml4, pdpt1, pdpt2, pde1, pde2>>
headVars == <<hd_at, cpu, eflags, info, tables, paging, rip, rsp, rbp>>

None == [x \in {} |-> 0]        \* a table without entries

\* bootmain enters at _head64 with the address in ebx.
MultibootInfo == 28672          \* 0x7000

HeadInit(c) ==
  /\ hd_at = "_head64" /\ cpu = c
  /\ eflags = c.eflags /\ info = 0
  /\ pml4 = None /\ pdpt1 = None /\ pdpt2 = None /\ pde1 = None /\ pde2 = None
  /\ paging = FALSE /\ rip = "low" /\ rsp = "low" /\ rbp = "old"

\* Bit 21 of the flags, which only a processor with cpuid lets change.
ID == 2097152
Toggled == IF ~cpu.cpuid THEN eflags
           ELSE IF (eflags \div ID) % 2 = 1 THEN eflags - ID ELSE eflags + ID

SaveInfo ==
  /\ hd_at = "_head64"
  /\ info' = MultibootInfo
  /\ hd_at' = "verify_cpu"
  /\ UNCHANGED <<cpu, eflags, tables, paging, rip, rsp, rbp>>

\* The test for cpuid: the flags, read back, are compared with ebx, which holds
\* the address that bootmain passed.
VerifyCpuid ==
  /\ hd_at = "verify_cpu"
  /\ eflags' = Toggled
  /\ hd_at' = IF Toggled = MultibootInfo THEN "no_longmode" ELSE "cpuid"
  /\ UNCHANGED <<cpu, info, tables, paging, rip, rsp, rbp>>

\* The rest of verify_cpu.  Where there is no cpuid instruction, using it is a
\* fault, for which there is no handler yet.
VerifyLongMode ==
  /\ hd_at = "cpuid"
  /\ hd_at' = CASE ~cpu.cpuid -> "fault"
                [] cpu.cpuid /\ cpu.leaf1 /\ cpu.lm -> "tables"
                [] OTHER -> "no_longmode"
  /\ UNCHANGED <<cpu, eflags, info, tables, paging, rip, rsp, rbp>>

\* The tables are cleared, and the entries of the upper levels written.
UpperLevels ==
  /\ hd_at = "tables"
  /\ pml4' = [i \in {0, 1} |-> IF i = 0 THEN "pdpt1" ELSE "pdpt2"]
  /\ pdpt1' = [i \in {0} |-> "pde1"]
  /\ pdpt2' = [i \in {0} |-> "pde2"]
  /\ pde1' = None /\ pde2' = None
  /\ hd_at' = "loop"
  /\ UNCHANGED <<cpu, eflags, info, paging, rip, rsp, rbp>>

\* Seeded fault: the offset into pde2 is that of the 64th entry.
MapPagesFar ==
  /\ hd_at = "loop"
  /\ pde1' = [n \in 0..127 |-> n]
  /\ pde2' = [n \in 64..64+127 |-> n - 64]
  /\ hd_at' = "paging"
  /\ UNCHANGED <<cpu, eflags, info, pml4, pdpt1, pdpt2, paging, rip, rsp, rbp>>

\* The loop, 128 times: page n goes to entry n of pde1, and to the entry of pde2
\* that is 256 bytes further on.
MapPages ==
  /\ hd_at = "loop"
  /\ pde1' = [n \in 0..127 |-> n]
  /\ pde2' = [n \in 256 \div 8..(256 \div 8)+127 |-> n - (256 \div 8)]
  /\ hd_at' = "paging"
  /\ UNCHANGED <<cpu, eflags, info, pml4, pdpt1, pdpt2, paging, rip, rsp, rbp>>

\* cr3, the long mode bit, and cr0.
EnablePaging ==
  /\ hd_at = "paging"
  /\ paging' = TRUE
  /\ hd_at' = "longmode"
  /\ UNCHANGED <<cpu, eflags, info, tables, rip, rsp, rbp>>

\* lret to _start, the load address of entry.
JumpToLongmode ==
  /\ hd_at = "longmode"
  /\ rip' = "low"
  /\ hd_at' = "entry"
  /\ UNCHANGED <<cpu, eflags, info, tables, paging, rsp, rbp>>

\* lretq to relocated, a link address.
Relocate ==
  /\ hd_at = "entry"
  /\ rip' = "high"
  /\ hd_at' = "relocated"
  /\ UNCHANGED <<cpu, eflags, info, tables, paging, rsp, rbp>>

\* The frame pointer, the stack, and the call of i386_init.
CallInit ==
  /\ hd_at = "relocated"
  /\ rbp' = "zero" /\ rsp' = "high"
  /\ hd_at' = "i386_init"
  /\ UNCHANGED <<cpu, eflags, info, tables, paging, rip>>

HeadNext ==
  \/ SaveInfo \/ VerifyCpuid \/ VerifyLongMode
  \/ UpperLevels \/ MapPages \/ EnablePaging
  \/ JumpToLongmode \/ Relocate \/ CallInit

\* The processor spins in verify_cpu_no_longmode, or has faulted.
HeadStuck == hd_at \in {"no_longmode", "fault"}
-----------------------------------------------------------------------------
(* The translation of a page by the processor.                               *)

Table(name) ==
  [pdpt1 |-> pdpt1, pdpt2 |-> pdpt2, pde1 |-> pde1, pde2 |-> pde2][name]

Fault == -1
Walk(v) ==
  LET i == v \div (512 * 512)
      j == (v \div 512) % 512
      k == v % 512
  IN IF i \notin DOMAIN pml4 THEN Fault
     ELSE IF j \notin DOMAIN Table(pml4[i]) THEN Fault
     ELSE LET pd == Table(Table(pml4[i])[j])
          IN IF k \in DOMAIN pd THEN pd[k] ELSE Fault

\* The first pages of the first three entries of the top table.
Pages == {512 * 512 * i + 512 * j + k : i \in 0..2, j \in 0..1, k \in 0..511}

\* From the moment paging is on, what is mapped of memory is seen twice, where it
\* is and at KERNBASE, and nowhere else.  So every instruction between the one
\* that enables paging and the kernel's C code is fetched from where the boot
\* loader put it, at the load address first and at the link address after.
MappedTwice ==
  paging /\ hd_at # "i386_init" =>
    /\ \A v \in Pages : Walk(v) \in {v, v - KERNPAGE, Fault}
    /\ \A m \in 0..511 : Walk(m) = m <=> Walk(KERNPAGE + m) = m
    /\ \A m \in 0..2 : Walk((IF rip = "high" THEN KERNPAGE ELSE 0) + m) = m

\* The comment in verify_cpu: "no cpuid -- no long mode".  A processor without
\* the instruction is stopped by the test and does not execute it.
NoCpuidStopped == ~cpu.cpuid => hd_at \in {"_head64", "verify_cpu", "no_longmode"}
=============================================================================
