-------------------------------- MODULE Cga --------------------------------
(***************************************************************************)
(* The text-mode display of kern/console.c: the video memory crt_buf, the  *)
(* position crt_pos and cga_putc, one action per case of its switch.  Each *)
(* action includes what follows the switch: the scroll test, and moving    *)
(* the hardware cursor.  The '\t' case calls cons_putc five times and is   *)
(* in ConsOut; here and there a cell is a record of the attribute byte and *)
(* the glyph byte.                                                         *)
(***************************************************************************)
EXTENDS Integers

CONSTANTS CRT_ROWS, CRT_COLS,
          Glyph,             \* glyphs the code's `default` case can write
          Attr               \* attribute bytes in use, each the set of its 1 bits

ASSUME CrtAssumption == CRT_ROWS \in Nat \ {0} /\ CRT_COLS \in Nat \ {0}
ASSUME GlyphAssumption == 32 \in Glyph
ASSUME AttrAssumption == {0, 1, 2} \in Attr

CRT_SIZE == CRT_ROWS * CRT_COLS

Space == 32
Grey == {0, 1, 2}                 \* the attribute 0x07
CellOf(attr, glyph) == [attr |-> attr, glyph |-> glyph]
Cell == [attr : Attr, glyph : Glyph]
Blank == CellOf(Grey, Space)         \* 0x0700 | ' '

VARIABLES crt_buf, crt_pos,
          cursor             \* the 6845's cursor registers

cgaVars == <<crt_buf, crt_pos, cursor>>

\* The memmove of all lines but the first, and the loop that blanks the last.
ScrollUp(b) ==
  [i \in 0..CRT_SIZE-1 |->
     IF i >= CRT_SIZE - CRT_COLS THEN Blank ELSE b[i + CRT_COLS]]

\* The code after the switch, for video memory b and position p.
SettledBuf(b, p) == IF p >= CRT_SIZE THEN ScrollUp(b) ELSE b
SettledPos(p) == IF p >= CRT_SIZE THEN p - CRT_COLS ELSE p

Settle(b, p) ==
  /\ crt_buf' = SettledBuf(b, p)
  /\ crt_pos' = SettledPos(p)
  /\ cursor' = SettledPos(p)

\* Seeded fault: the cursor steps back without erasing.
PutBackspaceNoErase(attr) ==
  Settle(crt_buf, IF crt_pos > 0 THEN crt_pos - 1 ELSE crt_pos)

PutBackspace(attr) ==
  IF crt_pos > 0
    THEN Settle([crt_buf EXCEPT ![crt_pos - 1] = CellOf(attr, Space)], crt_pos - 1)
    ELSE Settle(crt_buf, crt_pos)

PutReturn == Settle(crt_buf, crt_pos - (crt_pos % CRT_COLS))

\* Seeded fault: a break before the '\r' case.
PutNewlineNoReturn == Settle(crt_buf, crt_pos + CRT_COLS)

\* '\n' falls through to '\r'.
PutNewline ==
  LET p == crt_pos + CRT_COLS
  IN Settle(crt_buf, p - (p % CRT_COLS))

PutGlyph(attr, glyph) ==
  Settle([crt_buf EXCEPT ![crt_pos] = CellOf(attr, glyph)], crt_pos + 1)

\* cga_init takes over the cursor and the text that the firmware left.
CgaInit ==
  /\ crt_buf = [i \in 0..CRT_SIZE-1 |-> Blank]
  /\ crt_pos \in 0..CRT_SIZE-1
  /\ cursor = crt_pos

CgaNext ==
  \/ \E attr \in Attr : PutBackspace(attr)
  \/ \E attr \in Attr, glyph \in Glyph : PutGlyph(attr, glyph)
  \/ PutReturn
  \/ PutNewline

CgaSpec == CgaInit /\ [][CgaNext]_cgaVars
-----------------------------------------------------------------------------
\* crt_pos is always a position of the screen when cga_putc is entered, so it
\* never writes outside the video memory, and the blinking cursor is where the
\* next character goes.  One scroll per character is always enough.
CgaTypeOK ==
  /\ crt_buf \in [0..CRT_SIZE-1 -> Cell]
  /\ crt_pos \in 0..CRT_SIZE-1
  /\ cursor = crt_pos

\* The linear video memory seen as rows and columns.
T == INSTANCE Terminal
       WITH grid <- [r \in 0..CRT_ROWS-1 |->
                       [k \in 0..CRT_COLS-1 |-> crt_buf[r * CRT_COLS + k]]],
            row <- crt_pos \div CRT_COLS,
            col <- crt_pos % CRT_COLS

\* cga_putc implements a text screen: glyphs appear at the cursor, lines wrap,
\* the screen scrolls by exactly one line when the cursor leaves its last row,
\* backspace steps back over a line end and nothing else moves.
ImplementsTerminal == T!TerminalSpec
=============================================================================
