# JOS64, lab 1: a TLA+ verification project

JOS64 is a teaching kernel for x86-64. This tree is its first lab: a boot
loader, the switch to long mode, a console, a kernel monitor, and a reader of
the kernel's own DWARF debug information for stack backtraces. There is one
processor and no thread; interrupts are off from `cli` in `boot/boot.S` on and
are never turned on again. What makes the code hard is therefore not locking
but the following.

* Devices act on their own while the kernel polls: the keyboard, the UART (its
  FIFO is off), the ports that may never become ready, the ATA drive.
* State is static and outlives the call that set it: the keyboard's `shift`, the
  input ring, `color_flag` and `color_parsing`, readline's buffer, `panicstr`,
  the rule tables of the frame reader, the offset of its section.
* Memory is shared between things that do not know of each other: sectors that
  two segments have in common, a line that is split in place, a screen that
  scrolls under the line being edited, one shadow table for two uses.
* Limits: 512 characters of input, 1024 of a line, 16 arguments, 25 lines, and
  the caller's buffer for formatted text.
* Machine detail: the width of an argument's slot, of an `int` and of a LEB128
  group, the direction of a copy, the entries of a page table.

All paths below are relative to `src/`.

## 1. Inventory

| Component | Source | State | Operations | What makes it correct |
|---|---|---|---|---|
| Input ring | kern/console.c 385-429 | `buf`, `rpos`, `wpos` | store (`cons_intr`), fetch (`cons_getc`) | a FIFO queue; 0 only when empty |
| Keyboard decoder | kern/console.c 216-376 | `shift` | `kbd_proc_data` | characters as typed; no stuck modifier; reboot only for the chord |
| Input path | kern/console.c 51-64, 393-469 | all of the above, the UART | `getchar`, `serial_intr`, `kbd_intr` | everything returned, in order, none starved |
| Display | kern/console.c 129-213 | `crt_buf`, `crt_pos` | `cga_putc` | a terminal; never outside video memory |
| Output path | kern/console.c, kern/printf.c, lib/printfmt.c 91-156 | `color_flag`, `color_parsing` | `cprintf`, `cons_putc` | escapes invisible, colours right, ports complete, never stuck |
| Number and string formatting | lib/printfmt.c 40-85, 158-367 | the caller's buffer | `snprintf`: every directive, `printnum` | the text asked for, cut to the buffer |
| readline | lib/readline.c | `buf`, `i` | one branch per kind of character | screen and buffer agree; a C string within the buffer |
| Boot loader, first stage | boot/boot.S | registers, the 8042, the memory map | A20, E820, mode switch | A20 on; the map as reported |
| Boot loader, second stage | boot/main.c, kern/init.c 28-38 | memory, drive | `bootmain`, `readseg`, `readsect` | the kernel in memory as linked |
| Long mode bootstrap | kern/bootstrap.S, kern/entry.S | page tables, stack | `verify_cpu`, tables, paging, the jump up | both mappings of the kernel |
| Section loader | kern/elf_rw.c | `section_info`, memory, drive | `read_section_headers`, `readseg` | sections and tables whole, `end_debug` past them |
| Monitor | kern/monitor.c, kern/init.c 59-91 | the line, `argv`, `panicstr` | `monitor`, `runcmd`, `_panic` | arguments are the words; back to the prompt; first panic wins |
| Backtrace | kern/monitor.c 61-95, kern/init.c 16-26, kern/entry.S 65-79 | the stack | calls, returns, the walk | each active call once, then the end |
| Functions | kern/kdebug.c, kern/libdwarf_rw.c | offset in `.debug_info` | `debuginfo_rip`, `list_func_die` | the function around an address, its parameters |
| Lines | kern/libdwarf_lineno.c | line registers | `dwarf_srclines` | the line of the last row not beyond the pc |
| Frame rules | kern/libdwarf_frame.c 93-620, 943-974 | static rule tables | `_dwarf_frame_run_inst` | the rules in force at the pc |
| Frame lookup | kern/libdwarf_frame.c 63-91, 622-940, 977-1082 | `dbg_eh_offset`, the CIE | `dwarf_get_fde_at_pc` | the first FDE around the pc, its own CIE |
| LEB128 and readers | kern/libdwarf_rw.c 47-291 | the offset | read, decode | the value encoded, the offset behind it |
| Strings | lib/string.c | memory | `memmove`, `strlcpy`, `strstr`, `strtol`, ... | the C library's |
| User test | user/sendpage.c | | | belongs to a later lab, cannot be built here |

How they interact: `boot.S` enables A20, asks the BIOS for the memory map and
calls `bootmain`, which puts the kernel in memory and enters it at `_head64`;
`bootstrap.S` and `entry.S` map the kernel twice, move it up and start the stack
on which the backtrace walks; `i386_init` clears the bss, starts
the console, has the debug sections loaded, tests the backtrace and enters the
monitor; the monitor reads lines with `readline`, which reads the input path and
echoes to the display; `backtrace` walks the stack and asks `debuginfo_rip` about
every frame, which walks the DIEs and asks the line reader. The frame reader has
no caller in this lab (`kernel.ld` even discards `.eh_frame`); it is modelled from
its own interface, together with the `dbg` that it shares with `debuginfo_rip`.

`PROJECT.json` lists the hazards line by line, each with the properties that
guard it or the reason why none does.

## 2. Modules

| Module | Models | State |
|---|---|---|
| `CharQueue` | abstract: what the ring promises | `queue`, `ret` |
| `ConsRing` | the ring | `buf rpos wpos ret` |
| `Kbd` | decoder, keyboard and controller | `shift`, keys held, bytes on the way |
| `ConsInput` | extends `ConsRing`, `Kbd`: `getchar` polling both devices | plus UART and program counter |
| `Terminal` | abstract: rows, columns, cursor | `grid row col` |
| `Cga` | the display | `crt_buf crt_pos` |
| `ConsOut` | extends `Cga`: `cprintf`, escapes, both ports | plus colours, ports, their polls |
| `Readline` | extends `Cga`: the line editor | plus `buf i` |
| `Monitor` | extends `Readline`: `monitor`, `runcmd`, `_panic` | plus `argv`, panics |
| `BootStart` | boot.S against the 8042 and the BIOS | the 8042's buffer, registers, the map |
| `Disk` | `waitdisk`, `readsect`, the drive | memory, drive, its buffer |
| `BootLoad` | extends `Disk`: `bootmain`, `readseg`, the clearing of the bss | plus `ph pa end_pa offset` |
| `SectionLoad` | extends `BootLoad`, from where it ends: `read_section_headers`, its `readseg` | plus `section_info kvoffset` |
| `Bootstrap` | bootstrap.S and entry.S | flags, page tables, where code and stack are |
| `Boot` | composes `BootStart`, `SectionLoad`, `Bootstrap`: the machine from the BIOS on | |
| `DieWalk` | `debuginfo_rip`, `list_func_die`, the DIE reader | offsets, DIEs, the answer |
| `LineProgram` | `dwarf_srclines` | line registers, row |
| `DebugInfo` | extends `DieWalk`, `LineProgram`: all of `debuginfo_rip`, the line read once the function is found | |
| `Backtrace` | extends `DebugInfo`: the stack and `mon_backtrace`, which asks it about each frame | `stack rsp rbp`, the walk |
| `FrameInst` | the rule machine | `rt shadow saved`, row, answer |
| `FdeScan` | the lookup of an FDE | offset, CIE and FDE buffers |
| `CallFrames` | extends both: lookups and queries in any order | |
| `Printfmt` | `snprintf` | place in the format, flags, the buffer |
| `StringLib` | lib/string.c | memory, the string instructions' registers |
| `DwarfRead` | the readers of libdwarf_rw.c | section, offset, a LEB128 reader's locals |
| `Library` | extends the three: one call after another | |
| `ConsInputProofs` | theorems of `ConsRing`, `Kbd` and `ConsInput` | |
| `ConsOutProofs` | theorems of `Cga` and `ConsOut` | |
| `MonitorProofs` | theorems of `Readline` and `Monitor` | |
| `BootProofs` | theorems of `Boot` and the modules it composes | |
| `BacktraceProofs` | theorems of `Backtrace` and the modules below it | |
| `CallFramesProofs` | theorems of `CallFrames` and the two modules it extends | |
| `LibraryProofs` | theorems of `StringLib`, `Printfmt` and `DwarfRead` as parts of `Library` | |
| `NatInduct` | two lemmas on sets of natural numbers, for inductions in the others | |
| `MC*` | small instances | |

An action stands for a whole branch or loop turn of the code and has the code's
conditions as its guard. Where the code can be interrupted by a device, the
action ends: between two polls of a port, between the command to the drive and
the transfer, between two bytes of a key. A variable commented "history" records
what happened, for the properties; no action reads it. Definitions marked
"Seeded fault" are wrong variants of the definition after them; no specification
uses them, they document what each property detects.

Outside `src/`, and modelled from the way the code uses them: the keyboard and
its controller, the UART's receiver, the drive, the BIOS and the processor (its
flags, the page walk), the compiler's calling convention, and the encodings in
which compiler and assembler wrote an FDE and a field.

What is abstracted, module by module:

* `Kbd`: keys are indexes of the tables; only keys in the instances have entries
  in `normalmap`, `shiftmap` and `ctlmap`. `shift` is the set of its flags.
* `ConsOut`: a format is a sequence of characters and closed escapes; an escape
  has its numbers. The digits of a number are put as one item.
* `Monitor`: a command is a letter; what the monitor prints is reduced to the
  newline that ends it.
* `BootStart`: the map's memory is one of words, and a word tells which entry it
  came from. Loading the segment registers and the GDT is left out.
* `BootLoad`, `SectionLoad`: a byte on disk is its own offset, so that a byte in
  memory tells where it came from. A header takes one byte.
* `Bootstrap`: addresses count pages of 2 MB; a table is a function on the
  indexes of its present entries, an access outside it faults.
* `DieWalk`: a DIE takes one place of the section, with its abbreviation and the
  values of its attributes; a CU header takes one place. A DIE with a form that
  the reader does not know is marked unreadable and leaves the reader's offset
  and the half-filled DIE as the code does.
* `LineProgram`, `FrameInst`: an instruction takes one place. Opcodes that
  differ only in how an operand is written are one instruction (the four
  `advance_loc`s, `offset` and `offset_extended`, signed and unsigned forms).
* `FdeScan`: an entry takes one place, and the CIE buffer has the places of the entries
  that its fields were read from. What an FDE decodes to with the wrong
  encoding is any pair of addresses.
* `Printfmt`: a character is a letter of the format; the terminating NUL of the
  format is its end. An argument is a slot of `LongWidth` bits, of which an int
  fills the low `IntWidth`, as `-O0` code passes it (GNUmakefile:84).
* `StringLib`: memory is a function; `rep movs` moves a unit per step. `First` is a
  loop, given by the set of the places at which it stops.
* `DwarfRead`: a word is the set of its one bits.

## 3. Runs

Every run takes a minute or two at most.

| Run | Properties | Instance and why it is enough | States |
|---|---|---|---|
| `kbd` | `NothingSwallowed NoStuckModifier RebootNeedsChord DecodesAsTyped` | one key of each kind: both Ctrl keys (one with a prefix), Shift, Alt with a prefix, Caps Lock, a letter, both Del keys; 3 bytes on the way, so that a code can be split and followed by another. | 3.2 M |
| `input` | `ImplementsQueue ReturnsInOrder AllReturned` | 3 slots (empty, full, both wraps), a letter and both Ctrl keys (one at a time), NUL and a letter on the line; the senders are paced by the ring. Both safety properties are proved for all sizes and keyboards. | 1.0 M |
| `output` | `EscapesInvisible PortsGetEverything ColorsAsAsked ImplementsTerminal CprintfReturns` | formats with tab, backspace, newline and the example of challenge1.txt, on 3 rows of 2 columns from every position of the cursor: wraps, scrolls, backspace at the top left; a port's wait is 2 polls instead of 12800: ready at once, late, never. The colours are all sets of foreground and background bits. The four safety properties are proved for all sizes and formats. | 6 100 |
| `output_background` | violated: `ColorsAsAsked` | one format with background 42. | |
| `monitor` | `LineTypeOK EchoMirrorsLine ReturnsCString NothingAfterCursor ArgsAreWords FirstPanicOnly MonitorReturns` | a buffer of 6 on a screen of 4 x 2, so that a full line wraps and scrolls; every line of letters and spaces that can be typed and edited there, 3 slots of `argv` (too many words happen), a known and an unknown command, 2 nested panics. | 167 000 |
| `boot` | `MapAsReported MappedTwice LoadedAsLinked SectionsIntact A20Enabled SectionsFound` | sectors of 4 bytes; all pairs of short segments that the linker can produce, sharing sectors or not; all small offsets and sizes of two debug sections (empty, inside a sector, across one and two boundaries); a file that is no ELF image; maps of 1 to 3 entries of 20 and 24 bytes, both ways to end one, failing BIOSes; processors with and without cpuid, its function 1 and long mode; an input buffer that is full at the start. Each of the three varies while the others are plain. | 84 000 |
| `no_cpuid` | violated: `NoCpuidStopped` | the processors of `boot`. | |
| `backtrace` | `FindsFunction ArgsAsDeclared ListsCallers BacktraceEnds` | one to three CUs, up to 2 functions in one, with and without children, siblings, functions nested in blocks and in functions, unreadable DIEs, parameters among them; every line program of up to 2 instructions after 4 preludes; a line header that is absent or too short; each with the stack of the monitor's `backtrace`, and one kernel with test_backtrace(2) and locals of 0 and 1 words. The places asked about are inside functions, between them, and beyond all. The three safety properties are proved for all stacks, programs and compiled sections. | 89 000 |
| `frame` | `FindsFirst RulesAsWritten RowCoversPc UnwindEnds` | every section of up to 3 entries, and of 4 with two CIEs, orderly and damaged; after a query that fills the tables, every program of up to 2 instructions and of up to 3 of those that interact; damaged entries include a CIE given up on after its encoding was read, and encodings that cannot be read; two lookups and two queries, pcs before, at and between the locations; the CFA has column 2 of the table, so that it is handed out. | 522 000 |
| `frame_shadow` | violated: `InitialStateSaved` | programs of 2 instructions. | |
| `library` | `FormatsAsAsked SnprintfBounded CopiesExact SearchesFind StrtolReadsBack FieldsReadBack CallsReturn` | every directive with every flag, widths and precisions below, at and above the text's length, given or by star, buffers of 1, 3, 8 and 12, pairs of directives; blocks of up to 9 bytes at every distance, on words and off them; all strings of two letters up to length 4 (so that partial matches overlap); bytes searched for given also as an int beyond a byte; numbers in bases 8, 10 and 16 with signs, blanks and prefixes; LEB128 numbers at the edges of a group and of an int, padded and not, words of 1 to 8 bytes in both orders. Ints have 5 bits and longs 8 in `Printfmt`; a group has 3 bits, an int 8 and a word 32 in `DwarfRead`; `LONG_MAX` of `strtol` is 4000, the largest number written. | 71 000 |
| `signed_decimal` | violated: `SignedDecimal` | every int of 5 bits and every long of 8. | |

Bounds that are not the code's, all named as constants: `MaxWire` (bytes a
keyboard has queued), `MaxPanics`, `MaxQueries`, `MaxCalls`, `MemTop`, `StackTop`,
`MapWords`, `BufSize`.
`CONSBUFSIZE - 1` also bounds the characters typed or received and not yet
returned (`MaySend`): that is an assumption on the users, see below.

Deadlock is checked except where the model really may stop: a keyboard after a
reboot (`MCKbd`), the readers of debug and frame information once they have
answered the last question, and the library after its last call.

### Fairness

* `ConsInput` (`ConsSpec`): the kernel's step and the transfer of a byte from the
  keyboard's queue to the controller are weakly fair. The processor never blocks; a
  keyboard sends what it has queued. The users are under no fairness. `AllReturned`
  asks for something only once they have fallen silent: a device that always has a
  byte would keep `cons_intr` in its loop (console.c:400) for ever.
* `ConsOut` (`OutSpec`): the kernel's step. Nothing is assumed of the ports.
* `Boot` (`MachineSpec`): the processor; the drive, which gets ready some time after
  a command; and the 8042, which takes a byte out of its buffer some time after it
  was written. Neither `waitdisk` nor the loops at `seta20` have a timeout, so without
  this the code does not promise anything.
* `Monitor` (`MonSpec`): the processor, except while `readline` waits for the user.
* `Backtrace` (`BtSpec`): the walk, once started, and what it calls. Which
  command comes next is the user's.
* `CallFrames` (`UnwindSpec`), `Library` (`LibSpec`): plain loops of the one thread.

### What the violated runs show

All four are findings in `PROJECT.json`, with the line they contradict.

1. `output_background`: the macro `color_fun` is not parenthesised, so of
   `color_fun(x) << 4` only the last term is shifted: backgrounds 42 to 47 come
   out wrong (40 and 41 are right, and so is the example of challenge1.txt).
2. `frame_shadow`: `remember_state` overwrites the initial rules that `restore`
   goes back to. `RulesAsWritten` therefore leaves out programs that restore a
   register after a `remember_state`.
3. `no_cpuid`: `verify_cpu` compares the flags it reads back with `ebx`, the
   multiboot address, and not with `ecx`, where it kept the first ones. A
   processor without `cpuid` goes on to execute it.
4. `signed_decimal`: `%d` reads 64 bits of a slot of which an int fills 32, so a
   negative int comes out as a large positive number. `FormatsAsAsked` therefore
   asks for negative numbers only as `%ld` of a long.

### What the properties do not promise

Restrictions that a model or a property states, because the code promises no
more.

* Console. `ConsInput` assumes users that leave room in the ring: `cons_intr` does
  not test for a full one, and when one poll takes in as many characters as it has
  slots, `wpos` equals `rpos` again and `cons_getc` reports that nothing waits.
  `DecodesAsTyped` holds until somebody holds both keys of one modifier (releasing
  one of them forgets both); in `ConsInput` nobody does (`KeyEvent`).
* Monitor. `ArgsAreWords` is about `MAXARGS - 1` arguments, the last slot being the
  null pointer's, so that a line of 16 words is refused with the message "max 16".
* Boot. `MapAsReported` leaves out a map of a single entry, which boot.S drops, and
  the sixth word of a 24-byte entry, where the size of the next one goes.
  `MappedTwice` does not say how much is mapped: the comments say 1 GB
  (bootstrap.S:67) and a 4 GB table (line 38), the loop of line 77 makes 128 pages of
  2 MB, which is 256 MB and enough for what the kernel does with it.
* Debug information. `FindsFunction` is about addresses strictly inside a
  function: its first instruction belongs to none (a return address never is one).
  Behind a DIE that cannot be read a function may be missed, or one that is nested in
  another be taken; a function whose own DIE cannot be read is listed with another's
  parameters, and `BacktraceEnds` leaves
  out a walk that has met one: it may go round for ever. The line of `ListsCallers`
  is for rows that ascend. `ArgsAsDeclared` gives sizes for parameters of a plain
  type, a typedef being followed for the first parameter only.
* Frames. `FindsFirst` and `RulesAsWritten` are about sections in which each FDE
  follows its own CIE and CIEs with and without augmentation are not mixed
  (`Orderly`), those that are given up on included: a CIE with an unknown letter in
  its augmentation leaves its encoding behind, and after `dwarf_init_eh_section` the
  first CIE, if it has none of its own, is used with that. An entry of the caller's
  table has no type (dwarf.h:218), so a register's value at an offset from the CFA
  cannot be told from its address there, and `RulesAsWritten` does not ask it to; an
  expression in force is not handed out at all, and neither is the CFA, unless the caller has
  given it a column below 66 with `dwarf_set_frame_cfa_value` (by default it is 1436).
  `UnwindEnds` leaves out a length that cannot be, where the loop
  stays; `RowCoversPc` does not count `same_value`, which leaves the row where it is. A
  query that fails also stores 0 at address 0 (lines 565, 574, 583), memory that no
  variable models.
* Formats. `FormatsAsAsked` is about plain text and directives written as C says
  (`WellWritten`), with arguments of their types: a precision of 0 takes a `*`, since
  `0` is a flag wherever it stands, and `%d` and `%o` take what a signed long holds.
  It does not ask that `-` fills a number's field (it does
  so with `-` characters), nor that a sign is counted in a field's width (it is
  not), nor a width for `%s`, `%c`, `%e` or `%%`: printfmt.c:17 promises fields for numbers
  only, although the code fills those of strings too. `%o` is signed, unlike its
  comment. `%e` of `E_NO_SYS` is left out: inc/error.h:7 wants its list "in sync with list in
  lib/printfmt.c", which has no text for it, so that "error 7" comes out; so is
  `%e` of the least int, which has no opposite.
* Readers. `FieldsReadBack` is about LEB128 numbers that an int holds: the groups
  are put together in an int also where a 64-bit value is returned.

## 4. Proofs

The theorems hold for every value of the constants under the modules' named
assumptions (`ASSUME` in the module that declares the constant, evaluated by TLC on
the instances) and the hypotheses that a theorem states before its `=>`. Each
safety theorem rests on an inductive invariant, named below.

### Console input: `ConsInputProofs`

The ring, for any `CONSBUFSIZE` > 0 and any set of non-zero characters.
`RingTypeCorrect` and `WaitingAreCharsCorrect` have no assumption on the input,
overflow included; `RingInv` adds to the type that the slots from `rpos` to `wpos`
hold characters, without which a fetch could return anything. `RingImplementsQueue`
is the refinement for paced input: `Contents`, the slots from `rpos` on, is the
queue. `Room` is what makes it true: with one slot left, a store would turn a full
ring into an empty one.

The keyboard, for any set of keys and any number of bytes under way
(`KeyAssumption`: a key's number is an index of the tables, and its byte is not the
prefix). `NoStuckModifierCorrect`, `RebootNeedsChordCorrect`,
`NothingSwallowedCorrect`, `DecodesAsTypedCorrect`. Nothing can be said of `shift`
alone, since bytes are still on their way when a key is down already. The invariant
(`Ahead` in `KbdTypes`, `KbdInv`) therefore speaks of what is going to be decoded: from
`shift` as it is now the pending bytes decode to a sequence of characters, to a
state of the modifiers, and without a reboot unless the chord was pressed; those
characters are the ones still due, and those modifiers are the ones held down. A
key event adds two bytes at the end (`AddByte`, `MakeYields`, `BreakYields`), a poll
takes one from the front (`EatByte`).

Both devices and the polling kernel, for any ring, keys and serial bytes.
`ReturnsInOrderCorrect` and `InputImplementsQueue`. The invariant `ConsInv` splits the
ring: `Merged(Contents, S, K)` says that it is an interleaving of the serial
characters `S` and the keyboard's `K`, and `Sources` that what is owed is `S` and the
byte in the UART, and what is due is `K` and what is ahead in the keyboard. With
`Outstanding` bounded by the users' pace this leaves a slot free for each character
that is on its way (`RoomForOne`), so every step of the path is one of the paced
ring's, and the first refinement can be used as it stands.
`SourcesAssumption`: the two devices send different characters; otherwise the
histories could not tell where a returned one came from. `KeyEvent` assumes of the
user, and not of the keyboard, that two keys of one modifier are never down at
once (`~doubled'`), the case in which the code is right (see section 3); without it
what is typed is not what is decoded. Both Shift, Ctrl and Alt keys of a PC are
there, and can be used one after the other.

### Console output: `ConsOutProofs`

`CgaTypeCorrect`: `crt_pos` is on the screen after every character.
`CgaImplementsTerminal`: video memory read by rows, with `crt_pos \div CRT_COLS` and
`crt_pos % CRT_COLS`, is the terminal's grid and cursor. The heart is `SettleMoves`,
about the code after the switch: leaving the last line at column 0 scrolls,
anything else does not.

`OutImplementsTerminal`: the same under `cprintf`, whatever the escapes, for
attributes that `Interpret` stays within (`AttrClosed`). `EscapesInvisibleCorrect` (of
formats whose text has none of the five bytes of an escape, so that one on the
screen could only come from an escape) and `ColorsAsAskedCorrect` (of all values but
42 to 47, which the run `output_background` shows wrong) rest on `TextOnly`, which
ties `color_parsing` to what is being put, with `Hidden` and `Colored`.
`PortsGetEverythingCorrect`, of every format and any `WaitLimit`: `Sent` says that what
a port got, what is still to be put, and the rest of the format are together the
whole format's bytes; it is what makes a wait that times out harmless.

### readline and the monitor: `MonitorProofs`

For any buffer and screen such that a full line fits on the screen
(`LineFitsAssumption`, as 1023 characters do on 25 x 80; false without it).
`LineTypeCorrect`: nothing is written past the buffer. `LineMirrored`: the places
before the cursor show the buffer. `LineIsCString`: the line returned ends at its
first 0. `LineNothingAfter`: nothing is left behind the cursor by deleting. The
invariant is `LineInv`: a scroll moves line and cursor by the same amount, and the
first `i` places hold input.

`MonitorKeepsLine`: all four also hold in `Monitor`, which writes NULs into the buffer
between two calls. `ArgsAreWordsCorrect`, for any `MAXARGS`: `RunInv` says that all NULs
written so far lie outside words, so that the buffer from `pos` on is still the line
(`Splitting`), that `argv` has the words found so far in order (`Found`), and where the
pointer can be between two of them (`Placed`). `FirstPanicOnlyCorrect`: `depth` and
`panicstr` go together.

### Boot: `BootProofs`

About the composed machine, of any number and kind of processors, BIOSes and
images (`MachinesAssumption`), any size of a sector and of memory.

* `MapAsReportedCorrect`, of any number of entries that fit in the buffer
  (`Reports`): `MapInv` has a case for each label of boot.S that says how many entries
  are complete (`EntriesIn`) and have their size (`SizesIn`), which is written only
  when the entry after it arrives.
* `MappedTwiceCorrect`: `TablesInv`, what the tables hold when `cr3` is loaded.
* `LoadedAsLinkedCorrect`, of any number of segments laid out as `kernel.ld` does
  (`WellLinked`: in ascending order, congruent to their offsets in the file up to a
  sector; two of them share a sector in memory only where they share it in the file;
  only the last has uninitialised data).
  `LoadInv` says that what `readseg` has read so far is right up to `Got`, sector by
  sector, and that the headers and the segments before stay as they were although
  whole sectors are written before and behind a segment.
* `SectionsIntactCorrect`, of any image with segments and a section table, in which
  no debug section occurs twice and for whose sections memory has room
  (`WellSectioned`). `SectInv` keeps
  the headers, the names and all sections read so far whole below `kvoffset`, and the
  room that the remaining ones may need, with the sector each may take more.

### Call frame information: `CallFramesProofs`

For every section of CIEs, FDEs and damaged entries (`SectionsAssumption`: an entry
has the fields of its kind, and a delta of the location is unsigned), every size of
the tables, every pc, and any order of lookups and queries, also over a section that
a debuginfo_rip unloaded in between. The invariant is `UnwindInv`, of three parts.

* `ScanInv`, for `FindsFirstCorrect`: the offset is at an entry; the CIE buffer has what
  the last CIE before it gives (`CieRead`), unless the offset stands at an entry that
  was given up on and may have filled the buffer in part, which only a restart gets away
  from; an encoding in the buffer is some CIE's (`EncodeRead`); and no FDE between the start of the lookup and the offset covers the pc. In an orderly
  section the last CIE is the FDE's own, so that its pcs were decoded as written.
* `QueryInv`, for `RowCoversPcCorrect` and the rules: what the instructions executed so
  far make of the location and the row (`RowMeans`), of the registers in the table and
  in the copy that `remember_state` and the initial rules share (`TableMeans`, as long as no
  `restore` follows a `remember_state`), and of the CFA (`CfaMeans`). The tables are
  static, and nothing is asked of what an earlier query left in them.
* During a query the two buffers stay as the lookup left them, so that the query is
  of the FDE found and its own CIE (`WrittenFor`). With this,
  `RulesAsWrittenCorrect` puts the two together.

### Stack and debug information: `BacktraceProofs`

For every stack and every size of the functions' locals, every depth of
`test_backtrace` and number of commands (`KernelsAssumption`: code lies above the
stack, the words of the sections have the types that a reader gives them), every line
program, and every table of abbreviations. `FindsFunctionCorrect`, `ArgsAsDeclaredCorrect`
and `ListsCallersCorrect` have the hypothesis `Compiled` of `DieWalk`: the `.debug_info`
section is one that a compiler could have written. Without it nothing holds: the code
tests neither that a CU's length ends at a header, nor that a `sibling` is one, nor
that a list is ended. The section may have DIEs that the reader cannot read, as long as
the first DIE of a list is not one. TLC evaluated `Compiled` on the sections of the
run: it is true of all but those with the CU that says that it has children and has
none, which are only model-checked.

The invariant is `BtInv`, of these parts.

* `LineInv`: the registers of the line machine are what `AddressAt` and `LineAt` say of
  the instructions executed, and no row so far lies beyond the pc. The sums over an open
  range are recursive functions; `SumExists` shows that they have a solution.
* `DieInv`, for the walk: where it is (`Walked`, `InList`: at a DIE of depth 1 of a CU, with
  the offset of the next CU right), that no function before that place is around the
  address (`NoneBefore`), and of the function found how many parameters are counted and
  with which sizes (`InFunction`, `Counted`, `Sized`). The lemmas below it say what the search
  for a sibling returns: the next place at the same depth, because each DIE with
  children takes one null entry.
* `DebugInv`: both are asked about the same address, and the line is read only once
  the function is found.
* `StackInv`: each frame's saved rbp is the place of its caller's and lies above it, the
  word above is the return address, and the frames are those of the active calls; so
  the chain ends at the 0 that entry.S put into rbp, and nowhere else.
* `Walking`: the walk is at the frame behind the last one printed, and each one printed is
  right (`Listed`). That a line is of its own address and not of the one asked before is
  `ToldIs`, when `debuginfo_rip` returns.

### The string library, snprintf and the readers: `LibraryProofs`

For every memory, block and string, and every call that C allows (`StrCallsAssumption`
and `PlainAssumption`, both `Legal`: strings that end, room for what is written, and no
overlap but for `memmove`; of `strncpy`, `strlcpy` and `strncmp` a little more is asked
than C does, that the strings end at all).

* `CopiesExactCorrect`. The invariant `StrInv` says of a string instruction under way
  (`Moved`) which places are written, that they hold what the old memory had at the
  source, that all others are untouched, and where the registers are. What makes
  `memmove` right is that the direction keeps the places still to be read out of those
  written (step 7 of `UnitMoves`), for words as well as for bytes (`WordsIs`, `UnitsIs`:
  the count is a multiple of the unit).
* `SearchesFindCorrect`. A loop of the code is the recursive function `First`.
  `FirstFunction` shows that the recursion has a solution, and `FirstIs` by induction
  that it is the first place at which the loop can stop. From there each function
  is compared with its reference: `LetterIs`, `ByteIs`; `StringsDiffer` and
  `StrncmpDiffers` with `CompareIs` for the order; `MatchesIs` and `HitIs` for `strstr`,
  whose test by letter and `strncmp` is that the pattern is a prefix of the rest.

* `SnprintfBoundedCorrect`. That nothing is stored beyond the buffer is an invariant of
  sprintputch alone (`PutKeeps`: `Room` is never negative) if each step prints a sequence
  of characters. That it does rests on the arguments, which C leaves to the caller:
  `CallsAssumption` says that they are of the kinds that the format takes, and `Takes`
  reads those off the format, from its end. The invariant `ArgsInv` is that the
  arguments left fit what is left of the format, in a text or in a directive; and, for
  the directive that is not known, whose text is read again from after its `%`, that
  the text takes from there what it takes from where the directive stopped: nothing
  that was passed over is taken twice. `PrintnumIs` is that `printnum` returns with a
  sequence: its recursion, on the quotient, has a solution (`PrintExists`), and the
  least number for which it were none would not be the least.
* `FieldsReadBackCorrect`. `StreamsAssumption` says what an assembler can write: the
  groups hold all of a number but its sign, a word fits its bytes, and no byte of a
  string is the terminator. `ReadInv` follows one field: `InLeb` is that after i groups
  the reader is at the field's i-th byte and `ret` is `Part`, the bits of the first i
  groups, with the sign spread above an int if the sign bit is among them already,
  which is what a shift in an int and its widening make of a group (`PartGrows`).
  The last group is the one without a continuation bit, and extending its sign leaves
  the value (`PartEnds`). This is where a negative number must not be padded past an
  int, as `Covered` says: the shift is then by more than an int's width, and the
  processor takes it modulo that. `SectionIs` is an induction over the fields: where
  field k begins in the section, and that later fields do not change it.

* `StrtolReadsBackCorrect`. `WritesNumber` is what precedes and ends a number in C, with
  its digits got by division (`Numeral`); it asks that a long holds the number, since
  strtol does not "properly detect overflow". `ReadsNumeral` is the induction: after k
  digits the loop has what is left of the number when the other digits are taken off.
* `FormatsAsAskedCorrect`. A call's items are rendered one by one by the reference;
  `vprintfmt` takes the format apart by the character. The invariant `FmtAsked` joins
  the two: the text put so far, the rest of a plain text and the rendering of the items
  left are together the text asked for (`GoesOn`). `Parted` cuts the format, the
  arguments and the rendering at each item. Within a directive, `InDirective` says which
  of its parts have been read; `NextPartIs` and `Chosen` which case of the switch can
  come next, and `FlagReads`, `NumberReads` and `StarReads` that the case reads its
  part and no more, of which the reading of digits is an induction (`NumberRead`).
  `KnownConverts` is that each conversion that asks for what it promises (`Promised`,
  see section 3) puts what the reference renders; for a number that is `PrintnumText`, an induction over the quotients (`DigitsStep`) in which
  `printnum`'s filler and digits come out as a field. A directive that is not known is
  put as a `%`, and its text is read again as plain text (`DefaultGoes`). `PutAdds` and
  `EndStores` say what of all this is in the buffer.

### What is not proved

The provers cannot instantiate the library's induction theorems, which take an
operator. Where an induction over a sequence or a range was needed, the proofs use
`NatInduct`: a set of naturals that has 0 and each successor has them all
(`AllNat`), and a set of naturals that is not empty has a least (`LeastNat`); both
are proved from the library's well-foundedness of `<`. So "every word starts
somewhere", or "what was sent is the whole format", are proved for all lengths.
What stays with TLC:

* Liveness, which the prover does not do: `AllReturned`, `CprintfReturns`,
  `SectionsFound`, `A20Enabled`, `MonitorReturns`, `BacktraceEnds`, `UnwindEnds`,
  `CallsReturn`.
* The four violated properties, which are false.

## 5. Not modelled

* `cga_init`'s choice between a colour and a monochrome card: a base address.
* The loading of the segment registers and descriptor tables in boot.S and
  bootstrap.S: straight lines without a decision.
* `find_debug_sections` of kern/elf_rw.c and `dwarf_set_frame_cfa_value`: not called
  in this lab.
* The header and the file table of a line program, beyond good, too short and
  absent: tables that are read once and printed.
* The variants of `memset` and `memmove` for `ASM` 0: not compiled.
* What overruns an array that the code does not test (`secthdr_ptr`,
  `size_fn_arg`, an abbreviation's attributes) writes to: it depends on the layout
  that the build gives the variables behind it. Nor a format that ends inside an
  escape, past whose end `vprintfmt` reads on.
* `user/sendpage.c`; the grading scripts, which only start the kernel and
  compare its output; the headers, which are tables of constants.

## 6. Plan

Done: every part of this lab that changes state, from the first instruction of
the boot sector to the monitor's commands, the readers of debug information and
the library below them, in eight runs that compose the parts that interact. All
safety properties of these runs are theorems; their liveness properties are
model-checked.
