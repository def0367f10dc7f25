----------------------------- MODULE BootStart -----------------------------
(***************************************************************************)
(* The first stage of the boot loader, boot/boot.S: the A20 line is        *)
(* enabled through the keyboard controller, the memory map is asked from   *)
(* the BIOS entry by entry, and the processor switches to protected mode   *)
(* and calls bootmain.                                                     *)
(*                                                                         *)
(* Outside src/: the keyboard controller, which takes a byte out of its    *)
(* input buffer in its own time and loses one that is written while the    *)
(* buffer is full; and the BIOS, a record of the entries it reports, how   *)
(* many bytes each has, how it tells the last one (a continuation value of *)
(* zero, or a carry on the next call), and how it answers the first call.  *)
(*                                                                         *)
(* The memory of the map is one of 4-byte words: the number of a word of   *)
(* an entry is 100 times the entry's number, plus its place.               *)
(***************************************************************************)
EXTENDS Integers, Sequences

CONSTANT MapWords       \* bound: words of memory from e820_map on

\* A BIOS whose map has room after e820_map: its entries are of 20 to 24 bytes,
\* as many as do_e820 asks for.
Reports(x) ==
  /\ x.entries \in Seq(Nat) /\ 6 * Len(x.entries) < MapWords
  /\ x.size \in 20..24

VARIABLES st_at,        \* the label of boot.S
          ibf, pending, a20,            \* the keyboard controller
          bios,
          ebx, ecx, edi, ebp, carry,    \* registers; edi in words from e820_map
          e820_map, mb                  \* the map; MB_flag, MB_mmap_addr and _len

kbcVars == <<ibf, pending, a20>>
mapVars == <<ebx, ecx, edi, ebp, carry, e820_map, mb>>
startVars == <<st_at, kbcVars, bios, mapVars>>

NoMb == [flag |-> 0, addr |-> -1, len |-> 0]     \* not written yet

StartInit(x) ==
  /\ st_at = "seta20.1"
  /\ ibf \in {"empty", "old"} /\ pending = FALSE /\ a20 = FALSE
  /\ bios = x
  /\ ebx = 0 /\ ecx = 0 /\ edi = 1 /\ ebp = 0 /\ carry = FALSE
  /\ e820_map = [w \in 0..MapWords-1 |-> 0] /\ mb = NoMb
-----------------------------------------------------------------------------
(* The keyboard controller (external).                                       *)

\* A byte is written to a port; it is lost if the buffer is still full.
Write(x) == ibf' = IF ibf = "empty" THEN x ELSE ibf

Controller ==
  /\ ibf # "empty"
  /\ ibf' = "empty"
  /\ pending' = (ibf = "d1")
  /\ a20' = (a20 \/ (pending /\ ibf = "df"))
  /\ UNCHANGED <<st_at, bios, mapVars>>

\* Seeded fault: the command is written without waiting.
SetA20Early ==
  /\ st_at = "seta20.1"
  /\ Write("d1")
  /\ st_at' = "seta20.2"
  /\ UNCHANGED <<pending, a20, bios, mapVars>>

\* seta20.1: the wait ends, and the command goes to port 0x64.
SetA20Command ==
  /\ st_at = "seta20.1" /\ ibf = "empty"
  /\ Write("d1")
  /\ st_at' = "seta20.2"
  /\ UNCHANGED <<pending, a20, bios, mapVars>>

\* seta20.2: the same, and the value goes to port 0x60.
SetA20Value ==
  /\ st_at = "seta20.2" /\ ibf = "empty"
  /\ Write("df")
  /\ st_at' = "do_e820"
  /\ UNCHANGED <<pending, a20, bios, mapVars>>
-----------------------------------------------------------------------------
(* The memory map.                                                           *)

\* int $0x15 with 0xe820 (external): the entry of the continuation k, to edi.
Int15(k, to) ==
  IF k = Len(bios.entries) \/ (k = 0 /\ bios.first = "carry")
  THEN carry' = TRUE /\ ecx' = 24 /\ UNCHANGED <<ebx, e820_map>>
  ELSE LET e == bios.entries[k + 1]
           words == bios.size \div 4
       IN /\ carry' = FALSE /\ ecx' = bios.size
          /\ ebx' = IF k + 1 = Len(bios.entries) /\ bios.last = "zero" THEN 0 ELSE k + 1
          /\ e820_map' = [w \in DOMAIN e820_map |->
               IF w \in to..to+words-1 THEN 100 * e + (w - to + 1) ELSE e820_map[w]]

\* do_e820, with the call that asks for the first entry.
FirstEntry ==
  /\ st_at = "do_e820"
  /\ edi' = 1
  /\ Int15(0, 1)
  /\ st_at' = "first"
  /\ UNCHANGED <<kbcVars, bios, ebp, mb>>

\* jc, jne and je: also a map of a single entry is given up.
MapFailed ==
  /\ st_at = "first" /\ (carry \/ bios.first = "unsigned" \/ ebx = 0)
  /\ st_at' = "failed"
  /\ UNCHANGED <<kbcVars, bios, mapVars>>

FirstDone ==
  /\ st_at = "first" /\ ~carry /\ bios.first # "unsigned" /\ ebx # 0
  /\ ebp' = 24
  /\ st_at' = "next_entry"
  /\ UNCHANGED <<kbcVars, bios, ebx, ecx, edi, carry, e820_map, mb>>

\* The size of the entry that was read goes before it: -4(%edi).
NoteSize == e820_map' = [e820_map EXCEPT ![edi - 1] = ecx]

\* next_entry, up to the call.
NextEntry ==
  /\ st_at = "next_entry"
  /\ NoteSize
  /\ edi' = edi + 6
  /\ st_at' = "int15"
  /\ UNCHANGED <<kbcVars, bios, ebx, ecx, ebp, carry, mb>>

AskEntry ==
  /\ st_at = "int15"
  /\ Int15(ebx, edi)
  /\ st_at' = "got"
  /\ UNCHANGED <<kbcVars, bios, edi, ebp, mb>>

\* Seeded fault: the end is tested before the entry is counted.
GotEntryUncounted ==
  /\ st_at = "got"
  /\ ebp' = IF carry \/ ebx = 0 THEN ebp ELSE ebp + 24
  /\ st_at' = IF carry \/ ebx = 0 THEN "done" ELSE "next_entry"
  /\ UNCHANGED <<kbcVars, bios, ebx, ecx, edi, carry, e820_map, mb>>

\* jc, addl, je.
GotEntry ==
  /\ st_at = "got"
  /\ ebp' = IF carry THEN ebp ELSE ebp + 24
  /\ st_at' = IF carry \/ ebx = 0 THEN "done" ELSE "next_entry"
  /\ UNCHANGED <<kbcVars, bios, ebx, ecx, edi, carry, e820_map, mb>>

MapDone ==
  /\ st_at = "done"
  /\ NoteSize
  /\ mb' = [flag |-> 64, addr |-> 0, len |-> ebp]
  /\ st_at' = "failed"
  /\ UNCHANGED <<kbcVars, bios, ebx, ecx, edi, ebp, carry>>

\* From failed on: protected mode, the segments, the stack, and the call.
Protcseg ==
  /\ st_at = "failed"
  /\ st_at' = "bootmain"
  /\ UNCHANGED <<kbcVars, bios, mapVars>>

StartNext ==
  \/ SetA20Command \/ SetA20Value
  \/ FirstEntry \/ MapFailed \/ FirstDone \/ NextEntry \/ AskEntry \/ GotEntry \/ MapDone
  \/ Protcseg
-----------------------------------------------------------------------------
\* The memory map that the kernel is handed is the one that the BIOS reported:
\* as many entries, 24 bytes apart, and with a BIOS that reports entries of 20
\* bytes each size is right, so that the map can be walked.  The sixth word of a
\* longer entry is where the size of the next one goes, and is lost.  A map of
\* two entries or more is never dropped.
MapAsReported ==
  st_at = "bootmain" =>
    /\ mb # NoMb =>
         /\ mb.len = 24 * Len(bios.entries)
         /\ \A k \in 1..Len(bios.entries) :
              /\ \A j \in 1..5 : e820_map[6 * (k - 1) + j] = 100 * bios.entries[k] + j
              /\ bios.size = 20 => e820_map[6 * (k - 1)] = 20
    /\ bios.first = "ok" /\ Len(bios.entries) > 1 => mb # NoMb

\* The A20 line is enabled in the end, whatever the BIOS left in the buffer: no
\* byte is written while it is full.
A20Enabled == <>a20
=============================================================================
