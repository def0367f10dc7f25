------------------------------ MODULE ConsOut ------------------------------
(***************************************************************************)
(* Console output end to end: cprintf and vprintfmt's handling of plain    *)
(* characters and of colour escapes (lib/printfmt.c), and cons_putc, which *)
(* sends every character to the serial port, the parallel port and the     *)
(* screen (kern/console.c).                                                *)
(*                                                                         *)
(* A format is a sequence of items: a character, or an escape sequence     *)
(* given by its values, ESC [ v ; v ... m.  The digits of a value are one  *)
(* byte of output here.  An attribute byte is the set of its 1 bits.       *)
(*                                                                         *)
(* Outside src/: the ports, which may or may not be ready at each poll.    *)
(***************************************************************************)
EXTENDS Cga, Sequences

CONSTANTS Formats,     \* the formats that are printed
          WaitLimit    \* the polls before a port is written anyway (12800)

ASSUME WaitLimitAssumption == WaitLimit \in Nat

Esc == 27
Bracket == 91
Digits == 48
Semicolon == 59
Em == 109

\* The two kinds of items.
Chr(ch) == <<"chr", ch>>
Sgr(vs) == <<"sgr", vs>>
IsEscape(item) == item[1] = "sgr"

\* The characters that have a case of their own in cga_putc's switch.
Controls == {8, 9, 10, 13}

\* An escape has a value at least; other items are characters that the screen
\* acts on or shows.
Item == ({"chr"} \X (Glyph \cup Controls)) \cup ({"sgr"} \X (Seq(Nat) \ {<< >>}))

ASSUME FormatsAssumption == Formats \subseteq Seq(Item)

VARIABLES fmt,            \* the rest of the format
          job,            \* the whole format of the current cprintf
          phase,          \* text, number or close: where vprintfmt is
          values,         \* values of the current escape not yet interpreted
          color_flag, color_parsing,
          todo,           \* characters being put, innermost call first
          dev,            \* idle, serial, lpt or cga: where cons_putc is
          polls,          \* the i of the two waiting loops
          com1, lpt1,     \* what was written to the ports in this cprintf
          fg, bg          \* history: the colours asked for, ANSI numbers

outVars == <<cgaVars, fmt, job, phase, values, color_flag, color_parsing,
             todo, dev, polls, com1, lpt1, fg, bg>>

OutInit ==
  /\ CgaInit
  /\ fmt = << >> /\ job = << >> /\ phase = "text" /\ values = << >>
  /\ color_flag = Grey /\ color_parsing = FALSE
  /\ todo = << >> /\ dev = "idle" /\ polls = 0
  /\ com1 = << >> /\ lpt1 = << >>
  /\ fg = 7 /\ bg = 0
-----------------------------------------------------------------------------
(* Colours. *)

Bits(n) == {b \in 0..2 : (n \div 2^b) % 2 = 1}

\* The three terms of the macro color_fun, for a colour 0..7 given as bits:
\* (c & 4) >> 2, c & 2, (c & 1) << 2.
Term4(c) == IF 2 \in c THEN {0} ELSE {}
Term2(c) == c \cap {1}
Term1(c) == IF 0 \in c THEN {2} ELSE {}

\* Seeded fault: the old colour is not cleared first.
ForegroundOr(flag, c) == flag \cup Term4(c) \cup Term2(c) \cup Term1(c)

\* `color_flag |= color_fun(esc_color)`
Foreground(flag, c) == (flag \ 0..2) \cup Term4(c) \cup Term2(c) \cup Term1(c)

\* `color_flag |= (color_fun(esc_color) << 4)`: the macro's expansion is not
\* parenthesised, so the shift applies to its last term alone.
Background(flag, c) ==
  (flag \ 4..6) \cup Term4(c) \cup Term2(c) \cup {b + 4 : b \in Term1(c)}

\* What one value of an escape sequence does to color_flag.
Interpret(flag, v) ==
  CASE v = 0       -> Grey
    [] v \in 30..37 -> Foreground(flag, Bits(v - 30))
    [] v \in 40..47 -> Background(flag, Bits(v - 40))
    [] OTHER        -> flag
-----------------------------------------------------------------------------
(* vprintfmt, which goes on when the characters it put are out. *)

Putting(chars) ==
  /\ dev' = "serial"
  /\ todo' = chars

\* A kernel call of cprintf.
Cprintf(f) ==
  /\ dev = "idle" /\ phase = "text" /\ fmt = << >>
  /\ fmt' = f /\ job' = f
  /\ com1' = << >> /\ lpt1' = << >>
  /\ UNCHANGED <<cgaVars, phase, values, color_flag, color_parsing, todo, dev,
                 polls, fg, bg>>

PlainChar ==
  /\ dev = "idle" /\ phase = "text" /\ fmt # << >> /\ ~IsEscape(Head(fmt))
  /\ Putting(<<Head(fmt)[2]>>)
  /\ fmt' = Tail(fmt)
  /\ UNCHANGED <<cgaVars, job, phase, values, color_flag, color_parsing,
                 polls, com1, lpt1, fg, bg>>

\* Seeded fault: color_parsing is not set.
EscapeBeginShown ==
  /\ dev = "idle" /\ phase = "text" /\ fmt # << >> /\ IsEscape(Head(fmt))
  /\ values' = Head(fmt)[2]
  /\ Putting(<<Esc, Bracket, Digits>>)
  /\ phase' = "number"
  /\ fmt' = Tail(fmt)
  /\ UNCHANGED <<cgaVars, job, color_flag, color_parsing, polls, com1, lpt1, fg, bg>>

\* ESC: stop showing characters, put ESC, '[' and the first number.
EscapeBegin ==
  /\ dev = "idle" /\ phase = "text" /\ fmt # << >> /\ IsEscape(Head(fmt))
  /\ color_parsing' = TRUE
  /\ values' = Head(fmt)[2]
  /\ Putting(<<Esc, Bracket, Digits>>)
  /\ phase' = "number"
  /\ fmt' = Tail(fmt)
  /\ UNCHANGED <<cgaVars, job, color_flag, polls, com1, lpt1, fg, bg>>

\* `;` or `m` was read: interpret the number, put the separator and, after a
\* `;`, the next number.
EscapeNumber ==
  LET v == Head(values)
  IN /\ dev = "idle" /\ phase = "number"
     /\ color_flag' = Interpret(color_flag, v)
     /\ values' = Tail(values)
     /\ IF values' = << >>
          THEN Putting(<<Em>>) /\ phase' = "close"
          ELSE Putting(<<Semicolon, Digits>>) /\ phase' = "number"
     /\ fg' = (IF v = 0 THEN 7 ELSE IF v \in 30..37 THEN v - 30 ELSE fg)
     /\ bg' = (IF v = 0 THEN 0 ELSE IF v \in 40..47 THEN v - 40 ELSE bg)
     /\ UNCHANGED <<cgaVars, fmt, job, color_parsing, polls, com1, lpt1>>

EscapeEnd ==
  /\ dev = "idle" /\ phase = "close"
  /\ color_parsing' = FALSE
  /\ phase' = "text"
  /\ UNCHANGED <<cgaVars, fmt, job, values, color_flag, todo, dev, polls,
                 com1, lpt1, fg, bg>>
-----------------------------------------------------------------------------
(* cons_putc: serial_putc, lpt_putc and cga_putc in turn. *)

Unprinted == <<fmt, job, phase, values, color_flag, color_parsing, fg, bg>>

\* Seeded fault: the counter starts again before it reaches its limit.
PortWaitResets ==
  /\ dev \in {"serial", "lpt"}
  /\ polls' = (polls + 1) % WaitLimit
  /\ UNCHANGED <<cgaVars, Unprinted, todo, dev, com1, lpt1>>

\* One turn of the loop of serial_putc or lpt_putc: the port is not ready.
PortWait ==
  /\ dev \in {"serial", "lpt"} /\ polls < WaitLimit
  /\ polls' = polls + 1
  /\ UNCHANGED <<cgaVars, Unprinted, todo, dev, com1, lpt1>>

\* Seeded fault: the test of color_parsing made in cons_putc.
SerialPutcHidden ==
  /\ dev = "serial"
  /\ com1' = IF color_parsing THEN com1 ELSE Append(com1, Head(todo))
  /\ dev' = "lpt" /\ polls' = 0
  /\ UNCHANGED <<cgaVars, Unprinted, todo, lpt1>>

\* The port is ready, or was not for WaitLimit polls: it is written.
SerialPutc ==
  /\ dev = "serial"
  /\ com1' = Append(com1, Head(todo))
  /\ dev' = "lpt" /\ polls' = 0
  /\ UNCHANGED <<cgaVars, Unprinted, todo, lpt1>>

LptPutc ==
  /\ dev = "lpt"
  /\ lpt1' = Append(lpt1, Head(todo))
  /\ dev' = "cga" /\ polls' = 0
  /\ UNCHANGED <<cgaVars, Unprinted, todo, com1>>

\* cga_putc returns; the caller of cons_putc goes on with the rest of todo.
PutcDone(rest) ==
  /\ todo' = rest
  /\ dev' = IF rest = << >> THEN "idle" ELSE "serial"
  /\ UNCHANGED <<Unprinted, polls, com1, lpt1>>

\* `if (color_parsing) return`
CgaSkip ==
  /\ dev = "cga" /\ color_parsing
  /\ PutcDone(Tail(todo))
  /\ UNCHANGED cgaVars

\* The attribute: color_flag, or 0x07 if that is 0.
CurrentAttr == IF color_flag = {} THEN Grey ELSE color_flag

CgaPutc ==
  /\ dev = "cga" /\ ~color_parsing /\ Head(todo) # 9
  /\ \/ Head(todo) = 8 /\ PutBackspace(CurrentAttr)
     \/ Head(todo) = 10 /\ PutNewline
     \/ Head(todo) = 13 /\ PutReturn
     \/ Head(todo) \notin Controls /\ PutGlyph(CurrentAttr, Head(todo))
  /\ PutcDone(Tail(todo))

\* '\t': five nested calls cons_putc(' '), each with its own scroll test.
CgaTab ==
  /\ dev = "cga" /\ ~color_parsing /\ Head(todo) = 9
  /\ PutcDone([n \in 1..5 |-> Space] \o Tail(todo))
  /\ UNCHANGED cgaVars

Kernel ==
  \/ PlainChar \/ EscapeBegin \/ EscapeNumber \/ EscapeEnd
  \/ PortWait \/ SerialPutc \/ LptPutc
  \/ CgaSkip \/ CgaPutc \/ CgaTab

OutNext == Kernel \/ \E f \in Formats : Cprintf(f)

\* The processor keeps executing; nothing is assumed of the ports.
OutSpec == OutInit /\ [][OutNext]_outVars /\ WF_outVars(Kernel)
-----------------------------------------------------------------------------
Printing == fmt # << >> \/ phase # "text" \/ dev # "idle"

\* cprintf returns even if a port never becomes ready: the waiting loops of
\* serial_putc and lpt_putc are bounded.
CprintfReturns == Printing ~> ~Printing

\* The bytes of an escape sequence are never shown on the screen.
EscapesInvisible ==
  \A i \in 0..CRT_SIZE-1 : crt_buf[i].glyph \notin {Esc, Bracket, Digits, Semicolon, Em}

\* What an item of a format sends to the ports.
Stream(item) ==
  IF IsEscape(item)
    THEN <<Esc, Bracket>> \o [n \in 1..(2 * Len(item[2])) |->
             IF n % 2 = 1 THEN Digits
             ELSE IF n = 2 * Len(item[2]) THEN Em ELSE Semicolon]
    ELSE IF item[2] = 9 THEN <<9>> \o [n \in 1..5 |-> Space] ELSE <<item[2]>>

\* What the first n items send.
StreamUpTo(items) ==
  LET sent[n \in Nat] == IF n = 0 THEN << >> ELSE sent[n - 1] \o Stream(items[n])
  IN sent

\* vprintfmt's comment on color_parsing: hiding characters from the screen
\* "will not affect serial and lpt".  Both ports get all of the format.
PortsGetEverything ==
  ~Printing => /\ com1 = StreamUpTo(job)[Len(job)]
               /\ lpt1 = com1

\* The attribute byte for ANSI colours: red and blue change places, the
\* background is in bits 4 to 6.
AnsiBits(n) == {2 - b : b \in Bits(n)}
AnsiAttr == AnsiBits(fg) \cup {b + 4 : b \in AnsiBits(bg)}

\* challenge1.txt: "The supported value are 0 (all attributes off), foreground
\* colors 30-37 and background colors 40-47."  Text is shown in the colours
\* that the escapes so far asked for.
ColorsAsAsked == phase = "text" => color_flag = AnsiAttr
=============================================================================
