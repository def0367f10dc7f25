------------------------------- MODULE MCBoot -------------------------------
(* Small kernel images, short memory maps, and every kind of processor. *)
EXTENDS Boot

Segments == {s \in [pa : 4..9, memsz : 1..4, filesz : 1..4, offset : 3..7] : Linked(s)}
Pairs == {<<s, t>> : s \in {x \in Segments : x.memsz < 4}, t \in Segments}

Sect(name, off, size) == [name |-> name, offset |-> off, size |-> size, addr |-> 2]

\* Two debug sections, a section that is not loaded, .eh_frame and the names.
Image(magic, segs, sh, o, n, m) ==
  [magic |-> magic, segs |-> segs, shoff |-> sh, shstrndx |-> 4,
   sects |-> << Sect(".text", 0, 4), Sect(".debug_info", o, n), Sect(".eh_frame", 3, 2),
                Sect(".debug_str", o + n, m), Sect(".shstrtab", 1, 3) >>]

OneSegment == <<[pa |-> 4, memsz |-> 3, filesz |-> 2, offset |-> 4]>>

\* All pairs of short segments as a linker can lay them out, with and without
\* uninitialised data, also when both are in one sector; all small offsets and
\* sizes of the debug sections (empty, within a sector, across one or two
\* boundaries, ending at a boundary); and a file that is no ELF image.
SmallImages ==
  {im \in {Image(TRUE, p, 7, 5, 5, 2) : p \in Pairs} : WellLinked(im)} \cup
  {Image(TRUE, OneSegment, sh, o, n, m) :
     sh \in {4, 7}, o \in 4..7, n \in {0, 1, 4, 5, 9}, m \in {1, 4, 6}} \cup
  {Image(FALSE, OneSegment, 4, 4, 1, 1)}

AllBioses == [entries : {<<3>>, <<3, 5>>, <<5, 4, 3>>}, size : {20, 24},
              last : {"zero", "carry"}, first : {"ok", "carry", "unsigned"}]
\* The flags at entry: bit 1 is always set; with and without the ID flag.
AllCpus == [cpuid : BOOLEAN, leaf1 : BOOLEAN, lm : BOOLEAN, eflags : {2, 70, ID + 2}]

PlainImage == Image(TRUE, OneSegment, 4, 4, 1, 1)
PlainBios == [entries |-> <<3, 5>>, size |-> 20, last |-> "zero", first |-> "ok"]
GoodCpu == [cpuid |-> TRUE, leaf1 |-> TRUE, lm |-> TRUE, eflags |-> 2]

Machine(x, im, c) == [bios |-> x, image |-> im, cpu |-> c]
MCMachines ==
  {Machine(PlainBios, im, GoodCpu) : im \in SmallImages} \cup
  {Machine(x, PlainImage, GoodCpu) : x \in AllBioses} \cup
  {Machine(PlainBios, PlainImage, c) : c \in AllCpus}

\* Processors only, for the test in verify_cpu.
CpuMachines == {Machine(PlainBios, PlainImage, c) : c \in AllCpus}
=============================================================================
