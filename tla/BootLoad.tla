------------------------------ MODULE BootLoad ------------------------------
(***************************************************************************)
(* The boot loader, boot/main.c: bootmain reads the start of the kernel    *)
(* image to a scratch place, checks the ELF magic number, and reads every  *)
(* segment with readseg, which works in whole sectors; i386_init then      *)
(* clears the uninitialised data.  SectionLoad goes on from there.         *)
(*                                                                         *)
(* An image is a record: magic, whether the magic number is right; segs,   *)
(* its program headers; and what SectionLoad reads of it.  Program header  *)
(* k is byte PhOff + k of the image.                                       *)
(***************************************************************************)
EXTENDS Disk, Sequences

CONSTANTS ELFHDR,       \* the scratch address, a multiple of SECTSIZE
          HdrSectors,   \* sectors read there (8)
          PhOff

ASSUME ElfHdrAssumption == ELFHDR \in Nat /\ ELFHDR % SECTSIZE = 0
ASSUME HdrAssumption == PhOff \in Nat /\ HdrSectors \in Nat

VARIABLES image, at, ph,           \* ph: the index of the program header
          pa, end_pa, offset       \* readseg's variables, offset in sectors

bootVars == <<diskVars, image, at, ph, pa, end_pa, offset>>

BootInit(im) ==
  /\ DiskInit
  /\ image = im
  /\ at = "start" /\ ph = 1
  /\ pa = 0 /\ end_pa = 0 /\ offset = 0

\* `pa &= ~(SECTSIZE - 1)`
RoundDown(a) == a - (a % SECTSIZE)

\* The call readseg(p, count, off), up to its loop.
readseg(p, count, off) ==
  /\ end_pa' = p + count
  /\ pa' = RoundDown(p)
  /\ offset' = (off \div SECTSIZE) + 1

ReadHeader ==
  /\ at = "start"
  /\ readseg(ELFHDR, SECTSIZE * HdrSectors, 0)
  /\ at' = "header"
  /\ UNCHANGED <<diskVars, image, ph>>

\* One turn of readseg's loop.
ReadSector ==
  /\ at \in {"header", "segment"} /\ reading = "idle" /\ pa < end_pa
  /\ readsect(pa, offset)
  /\ pa' = pa + SECTSIZE
  /\ offset' = offset + 1
  /\ UNCHANGED <<image, at, ph, end_pa>>

SegmentRead == reading = "idle" /\ pa >= end_pa

\* `goto bad`: the loader stops for good.
BadMagic ==
  /\ at = "header" /\ SegmentRead /\ ~image.magic
  /\ at' = "bad"
  /\ UNCHANGED <<diskVars, image, ph, pa, end_pa, offset>>

\* The program header, as it is in memory now.
HeaderAt(k) == image.segs[mem[ELFHDR + PhOff + k] - PhOff]

\* The next turn of bootmain's loop.
LoadSegment ==
  /\ \/ at = "header" /\ image.magic
     \/ at = "segment"
  /\ SegmentRead /\ ph <= Len(image.segs)
  /\ LET h == HeaderAt(ph) IN readseg(h.pa, h.memsz, h.offset)
  /\ ph' = ph + 1
  /\ at' = "segment"
  /\ UNCHANGED <<diskVars, image>>

\* The jump to the entry point.
Enter ==
  /\ at = "segment" /\ SegmentRead /\ ph > Len(image.segs)
  /\ at' = "entered"
  /\ UNCHANGED <<diskVars, image, ph, pa, end_pa, offset>>

\* The last segment of the image, with .bss at its end.
LastSeg == image.segs[Len(image.segs)]

\* Seeded fault: no memset.
ClearBssMissing ==
  /\ at = "entered"
  /\ at' = "running"
  /\ UNCHANGED <<diskVars, image, ph, pa, end_pa, offset>>

\* i386_init: memset(edata, 0, end - edata).  The linker script puts edata
\* and end around the .bss at the end of the last segment.
ClearBss ==
  /\ at = "entered"
  /\ mem' = [a \in Addr |->
               IF a \in LastSeg.pa + LastSeg.filesz..LastSeg.pa + LastSeg.memsz - 1
                 THEN Zeroed ELSE mem[a]]
  /\ at' = "running"
  /\ UNCHANGED <<drive, lba, buffer, reading, dst, sect, image, ph, pa,
                 end_pa, offset>>

BootNext == ReadHeader \/ ReadSector \/ BadMagic \/ LoadSegment \/ Enter \/ ClearBss
-----------------------------------------------------------------------------
Sector(a) == a \div SECTSIZE

\* What the linker and kern/kernel.ld guarantee of an image: a segment's address
\* and its offset agree modulo the sector size; segments are in the order of
\* their addresses, and two that share a sector of memory are as far apart in
\* the file; only the last has uninitialised data; and none is near the scratch
\* place, where the sectors read first hold all program headers.
Segment == [pa : Nat, memsz : Nat, filesz : Nat, offset : Nat]

Linked(s) ==
  /\ s.pa % SECTSIZE = s.offset % SECTSIZE
  /\ s.filesz <= s.memsz
  /\ Sector(s.pa) >= Sector(ELFHDR) + HdrSectors
  /\ s.pa + s.memsz + SECTSIZE <= MemTop

Apart(s, t) ==
  /\ s.pa + s.memsz <= t.pa
  /\ \/ s.pa - s.offset = t.pa - t.offset
     \/ Sector(s.pa + s.memsz - 1) < Sector(t.pa)

WellLinked(im) ==
  /\ im.segs \in Seq(Segment) /\ PhOff + Len(im.segs) < SECTSIZE * HdrSectors
  /\ \A k \in 1..Len(im.segs) :
       /\ Linked(im.segs[k])
       /\ \A m \in 1..k-1 :
            im.segs[m].filesz = im.segs[m].memsz /\ Apart(im.segs[m], im.segs[k])
-----------------------------------------------------------------------------
\* When the kernel's C code starts, and while it reads its debug sections, every
\* segment is in memory as it was linked, and the uninitialised data is zero,
\* although readseg copies whole sectors, before the start and past the end of
\* a segment, and fills the uninitialised data with what follows in the file.
LoadedAsLinked ==
  at = "running" =>
    \A k \in 1..Len(image.segs) :
      LET s == image.segs[k]
      IN \A n \in 0..s.memsz-1 :
           mem[s.pa + n] = IF n < s.filesz THEN s.offset + n ELSE Zeroed
=============================================================================
