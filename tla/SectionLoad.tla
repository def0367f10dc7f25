---------------------------- MODULE SectionLoad ----------------------------
(***************************************************************************)
(* read_section_headers of kern/elf_rw.c, which i386_init calls when the   *)
(* .bss is clear (BootLoad's state "running"): the kernel reads its debug  *)
(* sections from the disk to the memory after its end.  It reads the       *)
(* section headers, the names, and then each section whose name it knows,  *)
(* one after the other with its own readseg, and notes in section_info     *)
(* where they are.                                                         *)
(*                                                                         *)
(* Of an image: shoff, the place of the section headers (header k is the   *)
(* byte shoff + k of the file); shstrndx, the index of the section with    *)
(* the names; sects, the sections, each with its name, offset and size.    *)
(***************************************************************************)
EXTENDS BootLoad

\* Seeded fault: no branch for .debug_str.
DebugNamesShort == {".debug_info", ".debug_abbrev", ".debug_line"}

\* The sections that are read, and those that are noted in section_info.
DebugNames == {".debug_info", ".debug_abbrev", ".debug_line", ".debug_str"}
Names == DebugNames \cup {".eh_frame"}

VARIABLES step,                 \* where read_section_headers is
          kvoffset,             \* how much memory after kvbase is in use
          i,                    \* the loop variable
          orgoff, count,        \* readseg's original arguments
          nametab,              \* where the names are
          section_info,         \* name -> [data, size], as far as known
          end_debug             \* what i386_init gets back

\* The two functions named readseg have pa, end_pa and offset each; the boot
\* loader's are gone when the kernel runs.
segVars == <<pa, end_pa, offset, orgoff, count>>
sectVars == <<step, kvoffset, i, orgoff, count, nametab, section_info, end_debug>>
loadVars == <<bootVars, sectVars>>

\* `end`: the linker script puts it after .bss.
to_va == LastSeg.pa + LastSeg.memsz

kvbase == ((to_va + SECTSIZE - 1) \div SECTSIZE) * SECTSIZE

\* OFFSET_CORRECT
OffsetCorrect(x) == x % SECTSIZE

\* What holds of the sections of an image: the index of the names is that of a
\* section, no two debug sections have one name, and memory has room after the
\* kernel for as many sections of the largest size as there are.
SectHeader == [name : STRING, offset : Nat, size : Nat, addr : Nat]

Roomy(im, room) ==
  LET last == im.segs[Len(im.segs)]
      n == Len(im.sects)
  IN /\ n + 2 * SECTSIZE <= room
     /\ \A k \in 1..n : im.sects[k].size + 2 * SECTSIZE <= room
     /\ last.pa + last.memsz + SECTSIZE + (n + 2) * room <= MemTop

WellSectioned(im) ==
  /\ im.segs # << >> /\ im.sects \in Seq(SectHeader) /\ im.shoff \in Nat
  /\ im.shstrndx \in 0..Len(im.sects)-1
  /\ \A j, k \in 1..Len(im.sects) :
       im.sects[j].name = im.sects[k].name /\ im.sects[j].name \in DebugNames => j = k
  /\ \E room \in 0..MemTop : Roomy(im, room)

SectInit(im) ==
  /\ BootInit(im)
  /\ step = "start" /\ kvoffset = 0 /\ i = 0 /\ orgoff = 0 /\ count = 0
  /\ nametab = 0 /\ section_info = [name \in {} |-> 0] /\ end_debug = 0
-----------------------------------------------------------------------------
(* readseg *)

\* The call, up to the loop: its assertion that p is a multiple of SECTSIZE
\* is part of SectionsIntact.
readseg_kv(p, n, off) ==
  /\ pa' = p
  /\ end_pa' = p + n
  /\ offset' = (off \div SECTSIZE) + 1
  /\ orgoff' = off
  /\ count' = n

InSeg == step \in {"headers", "names", "section"} /\ reading = "idle"

NextSector ==
  /\ readsect(pa, offset)
  /\ pa' = pa + SECTSIZE
  /\ kvoffset' = kvoffset + SECTSIZE
  /\ offset' = offset + 1
  /\ UNCHANGED <<image, at, ph, step, i, end_pa, orgoff, count, nametab,
                 section_info, end_debug>>

\* One turn of the loop.
SegLoop == InSeg /\ pa < end_pa /\ NextSector

\* Seeded fault: the test for one more sector left out.
NeedsExtraNever == FALSE

\* A segment that does not start at a sector boundary may end in one sector
\* more than its length says.
NeedsExtra == OffsetCorrect(orgoff) + count > SECTSIZE

\* The sector after the loop; orgoff and count are then marked as used up.
SegExtra ==
  /\ InSeg /\ pa >= end_pa /\ NeedsExtra
  /\ readsect(pa, offset)
  /\ kvoffset' = kvoffset + SECTSIZE
  /\ orgoff' = 0 /\ count' = 0
  /\ UNCHANGED <<image, at, ph, step, i, pa, end_pa, offset, nametab, section_info, end_debug>>

SegDone == InSeg /\ pa >= end_pa /\ ~NeedsExtra
-----------------------------------------------------------------------------
(* read_section_headers *)

NumSections == Len(image.sects)

ReadHeaders ==
  /\ at = "running" /\ step = "start"
  /\ readseg_kv(kvbase, NumSections, image.shoff)
  /\ step' = "headers"
  /\ UNCHANGED <<diskVars, image, at, ph, kvoffset, i, nametab, section_info, end_debug>>

secthdr == kvbase + OffsetCorrect(image.shoff)

\* Section k of 0.., by its header as it is in memory now.
SectHeaderAt(k) == image.sects[mem[secthdr + k] - image.shoff + 1]

ReadNames ==
  LET s == SectHeaderAt(image.shstrndx)
  IN /\ step = "headers" /\ SegDone
     /\ readseg_kv(kvbase + kvoffset, s.size, s.offset)
     /\ nametab' = kvbase + kvoffset + OffsetCorrect(s.offset)
     /\ step' = "names"
     /\ UNCHANGED <<diskVars, image, at, ph, kvoffset, i, section_info, end_debug>>

Known(name, data, size) ==
  [n \in DOMAIN section_info \cup {name} |->
     IF n = name THEN [data |-> data, size |-> size] ELSE section_info[n]]

AtLoop == step \in {"names", "section"} /\ SegDone /\ i < NumSections

\* The loop's four alike branches for a debug section: it is read to the
\* place after what has been read so far.
LoadSection ==
  LET s == SectHeaderAt(i)
  IN /\ AtLoop /\ s.name \in DebugNames
     /\ readseg_kv(kvbase + kvoffset, s.size, s.offset)
     /\ section_info' =
          Known(s.name, kvbase + kvoffset + OffsetCorrect(s.offset), s.size)
     /\ i' = i + 1
     /\ step' = "section"
     /\ UNCHANGED <<diskVars, image, at, ph, kvoffset, nametab, end_debug>>

\* .eh_frame is not read but used where the boot loader put it.
NoteEhFrame ==
  LET s == SectHeaderAt(i)
  IN /\ AtLoop /\ s.name = ".eh_frame"
     /\ section_info' = Known(s.name, s.addr, s.size)
     /\ i' = i + 1
     /\ UNCHANGED <<diskVars, segVars, image, at, ph, step, kvoffset, nametab, end_debug>>

SkipSection ==
  /\ AtLoop /\ SectHeaderAt(i).name \notin Names
  /\ i' = i + 1
  /\ UNCHANGED <<diskVars, segVars, image, at, ph, step, kvoffset, nametab, section_info,
                 end_debug>>

Return ==
  /\ step \in {"names", "section"} /\ SegDone /\ i = NumSections
  /\ step' = "done"
  /\ end_debug' = kvbase + kvoffset
  /\ UNCHANGED <<diskVars, segVars, image, at, ph, kvoffset, i, nametab, section_info>>

ReadSections ==
  \/ ReadHeaders \/ ReadNames \/ LoadSection \/ NoteEhFrame \/ SkipSection
  \/ Return \/ SegLoop \/ SegExtra

\* Everything but the disk.
rest == <<image, at, ph, segVars, step, kvoffset, i, nametab, section_info, end_debug>>

Processor ==
  \/ BootNext /\ UNCHANGED sectVars
  \/ ReadSections
  \/ (Command \/ Transfer) /\ UNCHANGED rest

Drive == DriveReady /\ UNCHANGED rest
-----------------------------------------------------------------------------
\* Where the code thinks that bytes of the file are in memory: the section
\* headers once they are read, and every section that was loaded.
Claimed(a, off, size) == \A n \in 0..size-1 : mem[a + n] = off + n

Section(name) ==
  image.sects[CHOOSE k \in 1..NumSections : image.sects[k].name = name]

SegIdle == step \in {"names", "section", "done"} /\ SegDone

TablesIntact ==
  /\ step \in {"names", "section", "done"} => Claimed(secthdr, image.shoff, NumSections)
  /\ step \in {"section", "done"} =>
       LET s == image.sects[image.shstrndx + 1] IN Claimed(nametab, s.offset, s.size)

\* When a section has been read, all of it is where section_info says, and it
\* stays there while the following sections are read, with their leading and
\* trailing bytes: no readseg overwrites what an earlier one has loaded.  The
\* headers and the names, from which every turn of the loop reads, stay intact
\* as well; readseg's assertion on its argument holds, and end_debug, from which
\* memory is handed out later, is past everything that was written.
SectionsIntact ==
  /\ TablesIntact
  /\ InSeg => pa % SECTSIZE = 0
  /\ step = "done" => \A a \in Addr : a >= end_debug => mem[a] = Other
  /\ SegIdle \/ step = "done" =>
       \A name \in DOMAIN section_info \cap DebugNames :
         Claimed(section_info[name].data, Section(name).offset, section_info[name].size)

Wanted == {".debug_info", ".debug_abbrev", ".debug_line", ".debug_str", ".eh_frame"}

\* All of them are known that the image has.
AllKnown ==
  \A k \in 1..NumSections :
    image.sects[k].name \in Wanted => image.sects[k].name \in DOMAIN section_info
=============================================================================
