--------------------------- MODULE ConsOutProofs ---------------------------
(***************************************************************************)
(* Theorems about the text screen, for every number of rows and columns,   *)
(* and about console output, for every screen size, every set of formats   *)
(* and every limit on the waiting for a port.                              *)
(***************************************************************************)
EXTENDS ConsOut, NatInduct, SequenceTheorems

(***************************************************************************)
(* The text screen.                                                        *)
(***************************************************************************)


(* Positions, rows and columns. *)

\* A position is its row times the line length plus its column.
LEMMA DivMod ==
  ASSUME NEW n \in Nat \ {0}, NEW p \in Nat
  PROVE  /\ p \div n \in Nat
         /\ p % n \in 0..n-1
         /\ p = (p \div n) * n + (p % n)
OBVIOUS

\* Lines do not overlap.
LEMMA RowColUnique ==
  ASSUME NEW n \in Nat \ {0}, NEW a \in Nat, NEW b \in Nat,
         NEW j \in 0..n-1, NEW k \in 0..n-1, a * n + j = b * n + k
  PROVE  a = b /\ j = k
<1>1. ASSUME NEW u \in Nat, NEW v \in Nat, u < v PROVE u * n + n <= v * n
  <2>1. (u + 1) * n <= v * n
    BY <1>1
  <2> QED
    BY <2>1
<1>2. ~(a < b)
  BY <1>1
<1>3. ~(b < a)
  BY <1>1
<1> QED
  BY <1>2, <1>3

\* A position is on the screen exactly when its row is.
LEMMA OnScreen ==
  ASSUME NEW n \in Nat \ {0}, NEW m \in Nat, NEW r \in Nat, NEW k \in 0..n-1
  PROVE  r * n + k < m * n <=> r < m
<1>1. CASE r < m
  <2>1. (r + 1) * n <= m * n
    BY <1>1
  <2> QED
    BY <1>1, <2>1
<1>2. CASE r >= m
  <2>1. m * n <= r * n
    BY <1>2
  <2> QED
    BY <1>2, <2>1
<1> QED
  BY <1>1, <1>2

\* Row and column of a position given as row and column.
LEMMA RowColOf ==
  ASSUME NEW n \in Nat \ {0}, NEW r \in Nat, NEW k \in 0..n-1
  PROVE  /\ (r * n + k) \div n = r
         /\ (r * n + k) % n = k
<1>1. r * n + k \in Nat
  OBVIOUS
<1> QED
  BY <1>1, DivMod, RowColUnique

\* The constants, once, in the form the steps use.
LEMMA Sizes ==
  /\ CRT_ROWS \in Nat \ {0} /\ CRT_COLS \in Nat \ {0}
  /\ CRT_SIZE \in Nat /\ CRT_SIZE = CRT_ROWS * CRT_COLS
  /\ CRT_SIZE - CRT_COLS = (CRT_ROWS - 1) * CRT_COLS /\ CRT_SIZE >= CRT_COLS
  /\ Blank \in Cell
BY CrtAssumption, GlyphAssumption, AttrAssumption
   DEF CRT_SIZE, Blank, Grey, CellOf, Cell, Space
-----------------------------------------------------------------------------
(* The code after the switch. *)

\* Video memory b by rows and columns.
Grid(b) == [r \in 0..CRT_ROWS-1 |-> [k \in 0..CRT_COLS-1 |-> b[r * CRT_COLS + k]]]

Memory == [0..CRT_SIZE-1 -> Cell]

\* The new memory, row and column when the switch leaves row r and column k,
\* which may be one line below the screen, in column 0 only.
LEMMA SettleMoves ==
  ASSUME NEW b \in Memory, NEW r \in 0..CRT_ROWS, NEW k \in 0..CRT_COLS-1,
         r = CRT_ROWS => k = 0,
         NEW p, p = r * CRT_COLS + k
  PROVE  /\ SettledBuf(b, p) \in Memory
         /\ SettledPos(p) \in 0..CRT_SIZE-1
         /\ SettledPos(p) \div CRT_COLS = IF r = CRT_ROWS THEN r - 1 ELSE r
         /\ SettledPos(p) % CRT_COLS = k
         /\ Grid(SettledBuf(b, p))
              = IF r = CRT_ROWS THEN T!Scrolled(Grid(b)) ELSE Grid(b)
<1>1. CASE r = CRT_ROWS
  <2> DEFINE up == ScrollUp(b)
  <2>1. p = CRT_SIZE
    BY <1>1, Sizes
  <2>2. SettledBuf(b, p) = up /\ SettledPos(p) = (CRT_ROWS - 1) * CRT_COLS + 0
    BY <2>1, Sizes DEF SettledBuf, SettledPos
  <2>3. /\ SettledPos(p) \div CRT_COLS = CRT_ROWS - 1
        /\ SettledPos(p) % CRT_COLS = 0
        /\ SettledPos(p) \in 0..CRT_SIZE-1
    <3>1. 0 \in 0..CRT_COLS-1 /\ CRT_ROWS - 1 \in Nat
      BY Sizes
    <3> QED
      BY <2>2, <3>1, Sizes, RowColOf
  <2>4. ASSUME NEW i \in 0..CRT_SIZE-1
        PROVE  up[i] \in Cell
    BY <2>4, Sizes DEF ScrollUp, Memory
  <2>5. up \in Memory
    BY <2>4 DEF ScrollUp, Memory
  <2>6. ASSUME NEW i \in 0..CRT_ROWS-1, NEW j \in 0..CRT_COLS-1
        PROVE  up[i * CRT_COLS + j]
                 = IF i = CRT_ROWS - 1 THEN Blank ELSE b[(i + 1) * CRT_COLS + j]
    <3>1. i * CRT_COLS + j \in 0..CRT_SIZE-1
      BY <2>6, Sizes, OnScreen
    <3>2. i * CRT_COLS + j < (CRT_ROWS - 1) * CRT_COLS <=> i < CRT_ROWS - 1
      BY <2>6, Sizes, OnScreen
    <3>3. (i + 1) * CRT_COLS + j = i * CRT_COLS + j + CRT_COLS
      BY <2>6, Sizes
    <3> QED
      BY <2>6, <3>1, <3>2, <3>3, Sizes DEF ScrollUp
  <2> HIDE DEF up
  <2>7. Grid(up) = T!Scrolled(Grid(b))
    <3>1. ASSUME NEW i \in 0..CRT_ROWS-1
          PROVE  Grid(up)[i]
                   = IF i = CRT_ROWS - 1 THEN [j \in 0..CRT_COLS-1 |-> Blank]
                     ELSE Grid(b)[i + 1]
      <4>1. Grid(up)[i] = [j \in 0..CRT_COLS-1 |-> up[i * CRT_COLS + j]]
        BY DEF Grid
      <4>2. CASE i = CRT_ROWS - 1
        BY <2>6, <4>1, <4>2
      <4>3. CASE i # CRT_ROWS - 1
        <5>1. i + 1 \in 0..CRT_ROWS-1
          BY <4>3, Sizes
        <5>2. Grid(b)[i + 1] = [j \in 0..CRT_COLS-1 |-> b[(i + 1) * CRT_COLS + j]]
          BY <5>1 DEF Grid
        <5> QED
          BY <2>6, <4>1, <4>3, <5>2
      <4> QED
        BY <4>2, <4>3
    <3>2. Grid(up) = [i \in 0..CRT_ROWS-1 |-> Grid(up)[i]]
      BY DEF Grid
    <3> QED
      BY <3>1, <3>2 DEF T!Scrolled, T!Rows, T!Cols
  <2> QED
    BY <1>1, <2>2, <2>3, <2>5, <2>7
<1>2. CASE r # CRT_ROWS
  <2>1. r \in Nat /\ r < CRT_ROWS
    BY <1>2, Sizes
  <2>2. p \in 0..CRT_SIZE-1
    BY <2>1, Sizes, OnScreen
  <2>3. SettledBuf(b, p) = b /\ SettledPos(p) = p
    BY <2>2, Sizes DEF SettledBuf, SettledPos
  <2>4. p \div CRT_COLS = r /\ p % CRT_COLS = k
    BY <2>1, Sizes, RowColOf
  <2> QED
    BY <1>2, <2>2, <2>3, <2>4
<1> QED
  BY <1>1, <1>2

\* Writing one position of the memory writes one cell of the grid.
LEMMA GridWrite ==
  ASSUME NEW b \in Memory, NEW r \in 0..CRT_ROWS-1, NEW k \in 0..CRT_COLS-1,
         NEW cell \in Cell, NEW p, p = r * CRT_COLS + k,
         NEW w, w = [b EXCEPT ![p] = cell]
  PROVE  /\ w \in Memory
         /\ Grid(w) = [Grid(b) EXCEPT ![r][k] = cell]
<1>1. r * CRT_COLS + k \in 0..CRT_SIZE-1
  BY Sizes, OnScreen
<1>2. w \in Memory
  BY <1>1 DEF Memory
<1>3. ASSUME NEW i \in 0..CRT_ROWS-1, NEW j \in 0..CRT_COLS-1
      PROVE  w[i * CRT_COLS + j] = [Grid(b) EXCEPT ![r][k] = cell][i][j]
  <2>1. i * CRT_COLS + j \in 0..CRT_SIZE-1
    BY <1>3, Sizes, OnScreen
  <2>2. i * CRT_COLS + j = r * CRT_COLS + k <=> i = r /\ j = k
    BY <1>3, Sizes, RowColUnique
  <2>3. Grid(b)[i][j] = b[i * CRT_COLS + j]
    BY <1>3 DEF Grid
  <2>4. w[i * CRT_COLS + j] = IF i = r /\ j = k THEN cell ELSE b[i * CRT_COLS + j]
    BY <2>1, <2>2 DEF Memory
  <2>5. [Grid(b) EXCEPT ![r][k] = cell][i][j]
          = IF i = r /\ j = k THEN cell ELSE Grid(b)[i][j]
    BY <1>3 DEF Grid
  <2> QED
    BY <2>3, <2>4, <2>5
<1>4. Grid(w) = [Grid(b) EXCEPT ![r][k] = cell]
  <2>1. ASSUME NEW i \in 0..CRT_ROWS-1
        PROVE  Grid(w)[i] = [Grid(b) EXCEPT ![r][k] = cell][i]
    <3>1. Grid(w)[i] = [j \in 0..CRT_COLS-1 |-> w[i * CRT_COLS + j]]
      BY DEF Grid
    <3>2. [Grid(b) EXCEPT ![r][k] = cell][i]
            = [j \in 0..CRT_COLS-1 |-> [Grid(b) EXCEPT ![r][k] = cell][i][j]]
      BY DEF Grid
    <3> QED
      BY <1>3, <3>1, <3>2
  <2> QED
    BY <2>1 DEF Grid
<1> QED
  BY <1>2, <1>4
-----------------------------------------------------------------------------
(* One step per case of the switch. *)

\* Where the position is, as a row and a column of the screen.
LEMMA PosRowCol ==
  ASSUME CgaTypeOK
  PROVE  /\ crt_pos \div CRT_COLS \in 0..CRT_ROWS-1
         /\ crt_pos % CRT_COLS \in 0..CRT_COLS-1
         /\ crt_pos = (crt_pos \div CRT_COLS) * CRT_COLS + (crt_pos % CRT_COLS)
<1>1. crt_pos \in Nat /\ crt_pos < CRT_ROWS * CRT_COLS
  BY Sizes DEF CgaTypeOK
<1>2. /\ crt_pos \div CRT_COLS \in Nat
      /\ crt_pos % CRT_COLS \in 0..CRT_COLS-1
      /\ crt_pos = (crt_pos \div CRT_COLS) * CRT_COLS + (crt_pos % CRT_COLS)
  BY <1>1, Sizes, DivMod
<1>3. crt_pos \div CRT_COLS < CRT_ROWS
  BY <1>1, <1>2, Sizes, OnScreen
<1> QED
  BY <1>2, <1>3, Sizes

\* A step that settles on memory b in row r and column k moves the terminal
\* there.
MovesTo(b, r, k) ==
  /\ crt_buf' \in Memory
  /\ crt_pos' \in 0..CRT_SIZE-1
  /\ cursor' = crt_pos'
  /\ crt_pos' \div CRT_COLS = IF r = CRT_ROWS THEN r - 1 ELSE r
  /\ crt_pos' % CRT_COLS = k
  /\ Grid(crt_buf') = IF r = CRT_ROWS THEN T!Scrolled(Grid(b)) ELSE Grid(b)

LEMMA StepCorrect ==
  ASSUME CgaTypeOK, [CgaNext]_cgaVars
  PROVE  CgaTypeOK' /\ [T!TerminalNext]_T!terminalVars
<1> DEFINE row == crt_pos \div CRT_COLS
<1> DEFINE col == crt_pos % CRT_COLS
<1>0. /\ row \in 0..CRT_ROWS-1 /\ col \in 0..CRT_COLS-1
      /\ crt_pos = row * CRT_COLS + col
      /\ crt_buf \in Memory
  BY PosRowCol DEF CgaTypeOK, Memory
<1> HIDE DEF row, col
<1>1. ASSUME NEW attr \in Attr, PutBackspace(attr)
      PROVE  CgaTypeOK' /\ [T!TerminalNext]_T!terminalVars
  <2> DEFINE cell == CellOf(attr, Space)
  <2> DEFINE w == [crt_buf EXCEPT ![crt_pos - 1] = cell]
  <2>1. cell \in Cell
    BY GlyphAssumption DEF CellOf, Cell, Space
  <2>2. crt_pos > 0 => /\ crt_buf' = SettledBuf(w, crt_pos - 1)
                       /\ crt_pos' = SettledPos(crt_pos - 1)
                       /\ cursor' = SettledPos(crt_pos - 1)
    BY <1>1 DEF PutBackspace, Settle
  <2> HIDE DEF cell
  <2>3. CASE col > 0
    <3>1. col - 1 \in 0..CRT_COLS-1 /\ crt_pos > 0
            /\ crt_pos - 1 = row * CRT_COLS + (col - 1)
      BY <1>0, <2>3, Sizes
    <3>2. w \in Memory /\ Grid(w) = [Grid(crt_buf) EXCEPT ![row][col - 1] = cell]
      BY <1>0, <2>1, <3>1, GridWrite
    <3> HIDE DEF w
    <3>3. MovesTo(w, row, col - 1)
      BY <1>0, <2>2, <3>1, <3>2, Sizes, SettleMoves DEF MovesTo
    <3>4. /\ crt_pos' % CRT_COLS = col - 1 /\ crt_pos' \div CRT_COLS = row
          /\ Grid(crt_buf') = [Grid(crt_buf) EXCEPT ![row][col - 1] = cell]
      BY <1>0, <3>2, <3>3, Sizes DEF MovesTo
    <3>5. T!Erase(cell)
      BY <2>3, <3>4 DEF T!Erase, Grid, row, col
    <3> QED
      BY <2>1, <3>3, <3>5 DEF MovesTo, CgaTypeOK, Memory, T!TerminalNext
  <2>4. CASE col = 0 /\ row > 0
    <3> DEFINE r == row - 1
    <3> DEFINE k == CRT_COLS - 1
    <3>1. /\ r \in 0..CRT_ROWS-1 /\ k \in 0..CRT_COLS-1
          /\ row * CRT_COLS = r * CRT_COLS + CRT_COLS
      BY <1>0, <2>4, Sizes
    <3>2. crt_pos > 0 /\ crt_pos - 1 = r * CRT_COLS + k
      BY <1>0, <2>4, <3>1, Sizes
    <3> HIDE DEF r, k
    <3>3. w \in Memory /\ Grid(w) = [Grid(crt_buf) EXCEPT ![r][k] = cell]
      <4>1. crt_buf \in Memory /\ r \in 0..CRT_ROWS-1 /\ k \in 0..CRT_COLS-1
        BY <1>0, <3>1
      <4> QED
        BY <2>1, <3>2, <4>1, GridWrite
    <3> HIDE DEF w
    <3>4. r \in 0..CRT_ROWS /\ r # CRT_ROWS
      BY <3>1, Sizes
    <3>5. MovesTo(w, r, k)
      BY <2>2, <3>1, <3>2, <3>3, <3>4, SettleMoves DEF MovesTo
    <3>6. /\ crt_pos' % CRT_COLS = k /\ crt_pos' \div CRT_COLS = r
          /\ Grid(crt_buf') = [Grid(crt_buf) EXCEPT ![r][k] = cell]
      BY <3>3, <3>4, <3>5 DEF MovesTo
    <3>7. T!Erase(cell)
      BY <2>4, <3>6 DEF T!Erase, Grid, row, col, r, k
    <3> QED
      BY <2>1, <3>5, <3>7 DEF MovesTo, CgaTypeOK, Memory, T!TerminalNext
  <2>5. CASE col = 0 /\ row = 0
    <3>1. crt_pos = 0
      BY <1>0, <2>5, Sizes
    <3>2. UNCHANGED cgaVars
      BY <1>1, <3>1, Sizes
         DEF PutBackspace, Settle, SettledBuf, SettledPos, CgaTypeOK, cgaVars
    <3> QED
      BY <3>2 DEF cgaVars, CgaTypeOK, T!terminalVars
  <2> QED
    BY <1>0, <2>3, <2>4, <2>5, Sizes
<1>2. ASSUME NEW attr \in Attr, NEW glyph \in Glyph, PutGlyph(attr, glyph)
      PROVE  CgaTypeOK' /\ [T!TerminalNext]_T!terminalVars
  <2> DEFINE cell == CellOf(attr, glyph)
  <2> DEFINE w == [crt_buf EXCEPT ![crt_pos] = cell]
  <2>1. cell \in Cell
    BY DEF CellOf, Cell
  <2>2. /\ crt_buf' = SettledBuf(w, crt_pos + 1)
        /\ crt_pos' = SettledPos(crt_pos + 1)
        /\ cursor' = SettledPos(crt_pos + 1)
    BY <1>2 DEF PutGlyph, Settle
  <2> HIDE DEF cell
  <2>3. w \in Memory /\ Grid(w) = [Grid(crt_buf) EXCEPT ![row][col] = cell]
    BY <1>0, <2>1, GridWrite
  <2> HIDE DEF w
  <2>4. CASE col = CRT_COLS - 1
    <3> DEFINE r == row + 1
    <3> DEFINE p == crt_pos + 1
    <3>1. r \in 0..CRT_ROWS /\ 0 \in 0..CRT_COLS-1 /\ p = r * CRT_COLS + 0
      BY <1>0, <2>4, Sizes
    <3> HIDE DEF r
    <3>2. MovesTo(w, r, 0)
      <4> HIDE DEF p
      <4>1. crt_buf' = SettledBuf(w, p) /\ crt_pos' = SettledPos(p) /\ cursor' = crt_pos'
        BY <2>2 DEF p
      <4>2. w \in Memory
        BY <2>3
      <4> QED
        BY <3>1, <4>1, <4>2, SettleMoves DEF MovesTo
    <3>3. T!Show(cell)
      BY <2>3, <2>4, <3>2 DEF MovesTo, T!Show, T!MoveTo, Grid, row, col, r
    <3> QED
      BY <2>1, <3>2, <3>3 DEF MovesTo, CgaTypeOK, Memory, T!TerminalNext
  <2>5. CASE col # CRT_COLS - 1
    <3> DEFINE k == col + 1
    <3> DEFINE p == crt_pos + 1
    <3>1. row \in 0..CRT_ROWS /\ row # CRT_ROWS /\ k \in 0..CRT_COLS-1
            /\ p = row * CRT_COLS + k
      BY <1>0, <2>5, Sizes
    <3> HIDE DEF k
    <3>2. MovesTo(w, row, k)
      <4> HIDE DEF p
      <4>1. crt_buf' = SettledBuf(w, p) /\ crt_pos' = SettledPos(p) /\ cursor' = crt_pos'
        BY <2>2 DEF p
      <4>2. w \in Memory
        BY <2>3
      <4> QED
        BY <3>1, <4>1, <4>2, SettleMoves DEF MovesTo
    <3>3. T!Show(cell)
      BY <2>3, <2>5, <3>1, <3>2 DEF MovesTo, T!Show, T!MoveTo, Grid, row, col, k
    <3> QED
      BY <2>1, <3>2, <3>3 DEF MovesTo, CgaTypeOK, Memory, T!TerminalNext
  <2> QED
    BY <2>4, <2>5
<1>3. CASE PutReturn
  <2>1. row \in 0..CRT_ROWS /\ row # CRT_ROWS /\ 0 \in 0..CRT_COLS-1
          /\ crt_pos - col = row * CRT_COLS + 0
    BY <1>0, Sizes
  <2>2. /\ crt_buf' = SettledBuf(crt_buf, crt_pos - col)
        /\ crt_pos' = SettledPos(crt_pos - col)
        /\ cursor' = SettledPos(crt_pos - col)
    BY <1>3 DEF PutReturn, Settle, col
  <2>3. MovesTo(crt_buf, row, 0)
    BY <1>0, <2>1, <2>2, SettleMoves DEF MovesTo
  <2>4. T!CarriageReturn
    BY <2>1, <2>3 DEF MovesTo, T!CarriageReturn, T!MoveTo, Grid, row
  <2> QED
    BY <2>3, <2>4 DEF MovesTo, CgaTypeOK, Memory, T!TerminalNext
<1>4. CASE PutNewline
  <2>1. row + 1 \in Nat /\ row + 1 \in 0..CRT_ROWS /\ 0 \in 0..CRT_COLS-1
          /\ crt_pos + CRT_COLS = (row + 1) * CRT_COLS + col
    BY <1>0, Sizes
  <2>2. (crt_pos + CRT_COLS) % CRT_COLS = col
    BY <1>0, <2>1, Sizes, RowColOf
  <2> DEFINE p == crt_pos + CRT_COLS - col
  <2>3. p = (row + 1) * CRT_COLS + 0
    BY <1>0, <2>1, Sizes
  <2>4. /\ crt_buf' = SettledBuf(crt_buf, p)
        /\ crt_pos' = SettledPos(p)
        /\ cursor' = SettledPos(p)
    BY <1>0, <1>4, <2>2, Sizes DEF PutNewline, Settle
  <2> HIDE DEF p
  <2>5. MovesTo(crt_buf, row + 1, 0)
    BY <1>0, <2>1, <2>3, <2>4, SettleMoves DEF MovesTo
  <2>6. T!LineFeed
    BY <2>1, <2>5 DEF MovesTo, T!LineFeed, T!MoveTo, Grid, row
  <2> QED
    BY <2>5, <2>6 DEF MovesTo, CgaTypeOK, Memory, T!TerminalNext
<1>5. CASE UNCHANGED cgaVars
  BY <1>5 DEF cgaVars, CgaTypeOK, T!terminalVars
<1> QED
  BY <1>1, <1>2, <1>3, <1>4, <1>5 DEF CgaNext

LEMMA CgaInitTypeOK == CgaInit => CgaTypeOK
BY Sizes DEF CgaInit, CgaTypeOK

\* cga_putc never writes outside the video memory, whatever is printed and
\* for every screen size: one scroll per character always suffices.
THEOREM CgaTypeCorrect == CgaSpec => []CgaTypeOK
<1>1. CgaTypeOK /\ [CgaNext]_cgaVars => CgaTypeOK'
  BY StepCorrect
<1> QED
  BY <1>1, CgaInitTypeOK, PTL DEF CgaSpec

\* On a linear memory cga_putc implements the screen of rows and columns.
THEOREM CgaImplementsTerminal == CgaSpec => ImplementsTerminal
<1>1. CgaInit => T!TerminalInit
  <2> SUFFICES ASSUME CgaInit PROVE T!TerminalInit
    OBVIOUS
  <2>1. CgaTypeOK
    BY CgaInitTypeOK
  <2>2. \A r \in 0..CRT_ROWS-1 : \A k \in 0..CRT_COLS-1 :
          crt_buf[r * CRT_COLS + k] \in Cell
    BY <2>1, Sizes, OnScreen DEF CgaTypeOK
  <2> QED
    BY <2>1, <2>2, PosRowCol DEF T!TerminalInit, T!Rows, T!Cols
<1>2. CgaTypeOK /\ [CgaNext]_cgaVars => [T!TerminalNext]_T!terminalVars
  BY StepCorrect
<1> QED
  BY <1>1, <1>2, CgaTypeCorrect, PTL DEF CgaSpec, ImplementsTerminal, T!TerminalSpec

(***************************************************************************)
(* cprintf, and the devices it goes to.                                    *)
(***************************************************************************)

EscapeBytes == {Esc, Bracket, Digits, Semicolon, Em}

\* The characters of an item of the format.
LEMMA ItemIs ==
  ASSUME NEW item \in Item
  PROVE  IF IsEscape(item) THEN item[2] \in Seq(Nat) /\ item[2] # << >>
                           ELSE item[2] \in Glyph \cup Controls
BY DEF Item, IsEscape

\* Where vprintfmt and cons_putc are.  The screen is told to hide characters
\* exactly while an escape is read, and what it is given at other times is text.
TextOnly ==
  /\ fmt \in Seq(Item)
  /\ phase \in {"text", "number", "close"}
  /\ values \in Seq(Nat) /\ (phase = "number" => values # << >>)
  /\ color_parsing <=> phase # "text"
  /\ dev \in {"idle", "serial", "lpt", "cga"}
  /\ dev = "idle" <=> todo = << >>
  /\ phase = "text" => todo \in Seq(Glyph \cup Controls)
  /\ phase # "text" => todo \in Seq(EscapeBytes)

\* The rest of a sequence.
LEMMA HeadTail ==
  ASSUME NEW S, NEW s \in Seq(S), s # << >>
  PROVE  /\ Head(s) \in S /\ Tail(s) \in Seq(S) /\ Len(s) \in Nat \ {0}
         /\ \A n \in 1..Len(s)-1 : Tail(s)[n] = s[n + 1]
OBVIOUS

LEMMA Joined ==
  ASSUME NEW S, NEW s \in Seq(S), NEW t \in Seq(S), s # << >>
  PROVE  s \o t \in Seq(S) /\ s \o t # << >>
<1>1. s \o t \in Seq(S) /\ Len(s \o t) = Len(s) + Len(t)
  BY ConcatProperties
<1>2. Len(s) \in Nat \ {0} /\ Len(t) \in Nat
  BY HeadTail
<1> QED
  BY <1>1, <1>2

LEMMA TextOnlyInit == OutInit => TextOnly
BY DEF OutInit, TextOnly

LEMMA TextOnlyStep == TextOnly /\ [OutNext]_outVars => TextOnly'
<1> SUFFICES ASSUME TextOnly, [OutNext]_outVars PROVE TextOnly'
  OBVIOUS
<1> USE DEF TextOnly, Putting
<1>1. ASSUME NEW f \in Formats, Cprintf(f) PROVE TextOnly'
  BY <1>1, FormatsAssumption DEF Cprintf
<1>2. CASE PlainChar
  <2>1. Head(fmt) \in Item /\ Tail(fmt) \in Seq(Item)
    BY <1>2, HeadTail DEF PlainChar
  <2>2. Head(fmt)[2] \in Glyph \cup Controls
    BY <1>2, <2>1, ItemIs DEF PlainChar
  <2>3. <<Head(fmt)[2]>> \in Seq(Glyph \cup Controls) /\ <<Head(fmt)[2]>> # << >>
    BY <2>2
  <2> QED
    BY <1>2, <2>1, <2>3 DEF PlainChar
<1>3. CASE EscapeBegin
  <2>1. Head(fmt) \in Item /\ Tail(fmt) \in Seq(Item)
    BY <1>3, HeadTail DEF EscapeBegin
  <2>2. Head(fmt)[2] \in Seq(Nat) /\ Head(fmt)[2] # << >>
    BY <1>3, <2>1, ItemIs DEF EscapeBegin
  <2>3. <<Esc, Bracket, Digits>> \in Seq(EscapeBytes) /\ <<Esc, Bracket, Digits>> # << >>
    BY DEF EscapeBytes
  <2> QED
    BY <1>3, <2>1, <2>2, <2>3 DEF EscapeBegin
<1>4. CASE EscapeNumber
  <2>1. values' = Tail(values) /\ Tail(values) \in Seq(Nat)
    BY <1>4, HeadTail DEF EscapeNumber
  <2>2. /\ <<Em>> \in Seq(EscapeBytes) /\ <<Em>> # << >>
        /\ <<Semicolon, Digits>> \in Seq(EscapeBytes) /\ <<Semicolon, Digits>> # << >>
    BY DEF EscapeBytes
  <2> QED
    BY <1>4, <2>1, <2>2 DEF EscapeNumber
<1>5. CASE EscapeEnd
  BY <1>5 DEF EscapeEnd
<1>6. CASE PortWait \/ SerialPutc \/ LptPutc
  BY <1>6 DEF PortWait, SerialPutc, LptPutc, Unprinted
<1>7. CASE CgaSkip \/ CgaPutc
  <2>1. dev = "cga" /\ PutcDone(Tail(todo))
    BY <1>7 DEF CgaSkip, CgaPutc
  <2>2. \A S : todo \in Seq(S) => Tail(todo) \in Seq(S)
    BY <2>1, HeadTail
  <2> QED
    BY <2>1, <2>2 DEF PutcDone, Unprinted
<1>8. CASE CgaTab
  <2> DEFINE blanks == [n \in 1..5 |-> Space]
  <2>1. phase = "text" /\ PutcDone(blanks \o Tail(todo))
    BY <1>8 DEF CgaTab
  <2>2. Tail(todo) \in Seq(Glyph \cup Controls)
    BY <1>8, <2>1, HeadTail DEF CgaTab
  <2>3. blanks \in Seq(Glyph \cup Controls) /\ blanks # << >>
    BY GlyphAssumption DEF Space
  <2> HIDE DEF blanks
  <2>4. blanks \o Tail(todo) \in Seq(Glyph \cup Controls) /\ blanks \o Tail(todo) # << >>
    BY <2>2, <2>3, Joined
  <2> QED
    BY <2>1, <2>4 DEF PutcDone, Unprinted
<1>9. CASE UNCHANGED outVars
  BY <1>9 DEF outVars
<1> QED
  BY <1>1, <1>2, <1>3, <1>4, <1>5, <1>6, <1>7, <1>8, <1>9 DEF OutNext, Kernel
-----------------------------------------------------------------------------
(* The screen. *)

\* The attributes in use are closed under what an escape's value does.
AttrClosed == \A a \in Attr, v \in Nat : Interpret(a, v) \in Attr

\* Every step of cprintf is a step of the screen or leaves it alone.
LEMMA OutStepOnScreen ==
  ASSUME TextOnly, color_flag \in Attr, [OutNext]_outVars
  PROVE  [CgaNext]_cgaVars
<1>1. CASE CgaPutc
  <2>1. CurrentAttr \in Attr
    BY AttrAssumption DEF CurrentAttr, Grey
  <2>2. ~color_parsing /\ dev = "cga"
    BY <1>1 DEF CgaPutc
  <2>3. Head(todo) \in Glyph \cup Controls
    BY <2>2, HeadTail DEF TextOnly
  <2> QED
    BY <1>1, <2>1, <2>3 DEF CgaPutc, CgaNext
<1>2. CASE ~CgaPutc
  <2>1. UNCHANGED cgaVars
    BY <1>2 DEF OutNext, Kernel, Cprintf, PlainChar, EscapeBegin, EscapeNumber,
         EscapeEnd, PortWait, SerialPutc, LptPutc, CgaSkip, CgaTab, outVars
  <2> QED
    BY <2>1
<1> QED
  BY <1>1, <1>2

\* An escape's value changes color_flag, and nothing else does.
LEMMA FlagStep ==
  ASSUME TextOnly, [OutNext]_outVars
  PROVE  color_flag' = color_flag \/ \E v \in Nat : color_flag' = Interpret(color_flag, v)
<1>1. CASE EscapeNumber
  <2>1. Head(values) \in Nat /\ color_flag' = Interpret(color_flag, Head(values))
    BY <1>1, HeadTail DEF EscapeNumber, TextOnly
  <2> QED
    BY <2>1
<1>2. CASE ~EscapeNumber
  BY <1>2 DEF OutNext, Kernel, Cprintf, PlainChar, EscapeBegin, EscapeEnd, PortWait,
       SerialPutc, LptPutc, CgaSkip, CgaPutc, CgaTab, PutcDone, Unprinted, outVars
<1> QED
  BY <1>1, <1>2

\* Through cprintf, colour escapes, tabs and cons_putc, the screen behaves as a
\* terminal: whatever is printed, and in every colour.
THEOREM OutImplementsTerminal ==
  AttrClosed => (OutSpec => ImplementsTerminal)
<1> SUFFICES ASSUME AttrClosed PROVE OutSpec => ImplementsTerminal
  OBVIOUS
<1> DEFINE Inv == TextOnly /\ color_flag \in Attr
<1>1. OutInit => Inv /\ CgaInit
  BY TextOnlyInit, AttrAssumption DEF OutInit, Grey
<1>2. Inv /\ [OutNext]_outVars => Inv'
  BY TextOnlyStep, FlagStep DEF AttrClosed
<1>3. Inv /\ [OutNext]_outVars => [CgaNext]_cgaVars
  BY OutStepOnScreen
<1> HIDE DEF Inv
<1>4. OutSpec => CgaSpec
  BY <1>1, <1>2, <1>3, PTL DEF OutSpec, CgaSpec
<1> QED
  BY <1>4, CgaImplementsTerminal, PTL
-----------------------------------------------------------------------------
(* Escapes stay off the screen. *)

\* Items whose text has none of the bytes that also stand in an escape.
PlainItem == {item \in Item : IsEscape(item) \/ item[2] \in Int \ EscapeBytes}

PlainCell == [attr : SUBSET Nat, glyph : Int \ EscapeBytes]

\* The inductive invariant: only plain text is on its way to the screen.
Hidden ==
  /\ crt_buf \in [0..CRT_SIZE-1 -> PlainCell]
  /\ color_flag \in SUBSET Nat
  /\ fmt \in Seq(PlainItem)
  /\ phase = "text" => \A n \in 1..Len(todo) : todo[n] \in Int \ EscapeBytes

LEMMA BlankIsPlain == Blank \in PlainCell
BY DEF Blank, CellOf, PlainCell, Grey, Space, EscapeBytes, Esc, Bracket, Digits,
       Semicolon, Em

\* What scrolls in is blank.
LEMMA SettledPlain ==
  ASSUME NEW b \in [0..CRT_SIZE-1 -> PlainCell], NEW p
  PROVE  SettledBuf(b, p) \in [0..CRT_SIZE-1 -> PlainCell]
<1>1. ASSUME NEW q \in 0..CRT_SIZE-1
      PROVE  (IF q >= CRT_SIZE - CRT_COLS THEN Blank ELSE b[q + CRT_COLS]) \in PlainCell
  BY BlankIsPlain, Sizes
<1>2. ScrollUp(b) \in [0..CRT_SIZE-1 -> PlainCell]
  BY <1>1 DEF ScrollUp
<1> QED
  BY <1>2 DEF SettledBuf

LEMMA InterpretBits ==
  ASSUME NEW flag \in SUBSET Nat, NEW v \in Nat
  PROVE  Interpret(flag, v) \in SUBSET Nat
<1>1. ASSUME NEW c
      PROVE  /\ Foreground(flag, c) \in SUBSET Nat
             /\ Background(flag, c) \in SUBSET Nat
  <2>1. Term4(c) \subseteq Nat /\ Term2(c) \subseteq Nat /\ Term1(c) \subseteq Nat
    BY DEF Term4, Term2, Term1
  <2>2. {b + 4 : b \in Term1(c)} \subseteq Nat
    BY <2>1
  <2> QED
    BY <2>1, <2>2 DEF Foreground, Background
<1> QED
  BY <1>1 DEF Interpret, Grey

LEMMA HiddenInit == ASSUME Formats \subseteq Seq(PlainItem), OutInit PROVE Hidden
BY BlankIsPlain DEF OutInit, CgaInit, Hidden, Grey

\* cga_putc puts only plain cells on the screen, given a plain character.
LEMMA PutPlain ==
  ASSUME crt_buf \in [0..CRT_SIZE-1 -> PlainCell], color_flag \in SUBSET Nat,
         NEW ch \in Int \ EscapeBytes,
         \/ PutBackspace(CurrentAttr)
         \/ PutNewline
         \/ PutReturn
         \/ PutGlyph(CurrentAttr, ch)
  PROVE  crt_buf' \in [0..CRT_SIZE-1 -> PlainCell]
<1>1. CurrentAttr \in SUBSET Nat
  BY DEF CurrentAttr, Grey
<1>2. CellOf(CurrentAttr, ch) \in PlainCell /\ CellOf(CurrentAttr, Space) \in PlainCell
  BY <1>1 DEF CellOf, PlainCell, Space, EscapeBytes, Esc, Bracket, Digits, Semicolon, Em
<1>3. \A p : /\ [crt_buf EXCEPT ![p] = CellOf(CurrentAttr, ch)]
                 \in [0..CRT_SIZE-1 -> PlainCell]
             /\ [crt_buf EXCEPT ![p] = CellOf(CurrentAttr, Space)]
                 \in [0..CRT_SIZE-1 -> PlainCell]
  BY <1>2
<1>4. \E b \in [0..CRT_SIZE-1 -> PlainCell] : \E p : crt_buf' = SettledBuf(b, p)
  BY <1>3 DEF PutBackspace, PutNewline, PutReturn, PutGlyph, Settle
<1> QED
  BY <1>4, SettledPlain

LEMMA HiddenStep ==
  ASSUME Formats \subseteq Seq(PlainItem), TextOnly, Hidden, [OutNext]_outVars
  PROVE  Hidden'
<1> DEFINE Plain(s) == \A n \in 1..Len(s) : s[n] \in Int \ EscapeBytes
<1>0. color_flag' \in SUBSET Nat
  BY FlagStep, InterpretBits DEF Hidden
<1>1. CASE CgaSkip \/ CgaPutc \/ CgaTab
  <2>1. /\ todo # << >> /\ fmt' = fmt /\ phase' = phase
        /\ phase = "text" => /\ todo \in Seq(Glyph \cup Controls) /\ Plain(todo)
                             /\ todo' = Tail(todo)
                                  \/ todo' = [n \in 1..5 |-> Space] \o Tail(todo)
    BY <1>1 DEF TextOnly, Hidden, CgaSkip, CgaPutc, CgaTab, PutcDone, Unprinted
  <2>2. CASE phase = "text"
    <3>1. todo \in Seq(Int \ EscapeBytes)
      BY <2>1, <2>2
    <3>2. Head(todo) \in Int \ EscapeBytes /\ Tail(todo) \in Seq(Int \ EscapeBytes)
      BY <2>1, <3>1, HeadTail
    <3> DEFINE blanks == [n \in 1..5 |-> Space]
    <3>3. blanks \in Seq(Int \ EscapeBytes) /\ blanks # << >>
      BY DEF Space, EscapeBytes, Esc, Bracket, Digits, Semicolon, Em
    <3> HIDE DEF blanks
    <3>4. blanks \o Tail(todo) \in Seq(Int \ EscapeBytes)
      BY <3>2, <3>3, Joined
    <3>5. todo' \in Seq(Int \ EscapeBytes)
      BY <2>1, <2>2, <3>2, <3>4 DEF blanks
    <3>6. Plain(todo')
      BY <3>5
    <3>7. crt_buf' \in [0..CRT_SIZE-1 -> PlainCell]
      BY <1>1, <3>2, PutPlain DEF Hidden, CgaSkip, CgaPutc, CgaTab, cgaVars
    <3> QED
      BY <1>0, <2>1, <3>6, <3>7 DEF Hidden
  <2>3. CASE phase # "text"
    <3>1. crt_buf' = crt_buf
      BY <1>1, <2>3 DEF CgaSkip, CgaPutc, CgaTab, TextOnly, cgaVars
    <3> QED
      BY <1>0, <2>1, <2>3, <3>1 DEF Hidden
  <2> QED
    BY <2>2, <2>3
<1>2. CASE PlainChar
  <2>1. Head(fmt) \in PlainItem /\ Tail(fmt) \in Seq(PlainItem)
    BY <1>2, HeadTail DEF PlainChar, Hidden
  <2>2. crt_buf' = crt_buf /\ fmt' = Tail(fmt) /\ todo' = <<Head(fmt)[2]>>
    BY <1>2 DEF PlainChar, Putting, cgaVars
  <2>3. Head(fmt)[2] \in Int \ EscapeBytes
    BY <1>2, <2>1 DEF PlainItem, PlainChar
  <2>4. Plain(<<Head(fmt)[2]>>)
    BY <2>3
  <2> QED
    BY <1>0, <2>1, <2>2, <2>4 DEF Hidden
<1>3. CASE EscapeBegin \/ EscapeNumber
  <2>1. crt_buf' = crt_buf /\ phase' # "text"
    BY <1>3 DEF EscapeBegin, EscapeNumber, cgaVars
  <2>2. fmt' \in Seq(PlainItem)
    BY <1>3, HeadTail DEF EscapeBegin, EscapeNumber, Hidden
  <2> QED
    BY <1>0, <2>1, <2>2 DEF Hidden
<1>4. CASE EscapeEnd
  <2>1. crt_buf' = crt_buf /\ fmt' = fmt /\ todo' = << >>
    BY <1>4 DEF EscapeEnd, cgaVars, TextOnly
  <2> QED
    BY <1>0, <2>1 DEF Hidden
<1>5. ASSUME NEW f \in Formats, Cprintf(f) PROVE Hidden'
  BY <1>0, <1>5 DEF Cprintf, Hidden, cgaVars
<1>6. CASE PortWait \/ SerialPutc \/ LptPutc \/ UNCHANGED outVars
  <2>1. crt_buf' = crt_buf /\ fmt' = fmt /\ todo' = todo /\ phase' = phase
    BY <1>6 DEF PortWait, SerialPutc, LptPutc, Unprinted, outVars, cgaVars
  <2> QED
    BY <1>0, <2>1 DEF Hidden
<1> QED
  BY <1>1, <1>2, <1>3, <1>4, <1>5, <1>6 DEF OutNext, Kernel

\* No byte of an escape sequence reaches the screen, however escapes, tabs and
\* waiting ports interleave.  The formats are those whose text has none of these
\* bytes, so that each one on the screen could only come from an escape.
THEOREM EscapesInvisibleCorrect ==
  Formats \subseteq Seq(PlainItem) => (OutSpec => []EscapesInvisible)
<1> SUFFICES ASSUME Formats \subseteq Seq(PlainItem) PROVE OutSpec => []EscapesInvisible
  OBVIOUS
<1>1. OutInit => TextOnly /\ Hidden
  BY TextOnlyInit, HiddenInit
<1>2. TextOnly /\ Hidden /\ [OutNext]_outVars => TextOnly' /\ Hidden'
  BY TextOnlyStep, HiddenStep
<1>3. Hidden => EscapesInvisible
  BY DEF Hidden, EscapesInvisible, PlainCell, EscapeBytes
<1> QED
  BY <1>1, <1>2, <1>3, PTL DEF OutSpec
-----------------------------------------------------------------------------
(* Colours. *)

\* The values for which the macro color_fun is right: all but the backgrounds
\* with a green or blue part.
SoundValue == Nat \ 42..47
SoundItem == {item \in Item : IsEscape(item) => item[2] \in Seq(SoundValue)}

\* The inductive invariant: the colours agree after every value, not only at the
\* end of the escape.
Colored ==
  /\ fmt \in Seq(SoundItem) /\ values \in Seq(SoundValue)
  /\ fg \in 0..7 /\ bg \in {0, 1}
  /\ color_flag = AnsiAttr

LEMMA BitsAre ==
  /\ Bits(0) = {} /\ Bits(1) = {0} /\ Bits(7) = {0, 1, 2}
  /\ \A n \in Int : Bits(n) \subseteq 0..2
<1>1. 2^0 = 1 /\ 2^1 = 2 /\ 2^2 = 4
  OBVIOUS
<1>2. \A b \in 0..2 : b = 0 \/ b = 1 \/ b = 2
  OBVIOUS
<1>3. \A n : /\ 0 \in Bits(n) <=> (n \div 1) % 2 = 1
             /\ 1 \in Bits(n) <=> (n \div 2) % 2 = 1
             /\ 2 \in Bits(n) <=> (n \div 4) % 2 = 1
             /\ Bits(n) \subseteq 0..2
  BY <1>1 DEF Bits
<1>4. /\ (0 \div 1) % 2 = 0 /\ (0 \div 2) % 2 = 0 /\ (0 \div 4) % 2 = 0
      /\ (1 \div 1) % 2 = 1 /\ (1 \div 2) % 2 = 0 /\ (1 \div 4) % 2 = 0
      /\ (7 \div 1) % 2 = 1 /\ (7 \div 2) % 2 = 1 /\ (7 \div 4) % 2 = 1
  OBVIOUS
<1>5. /\ 0 \notin Bits(0) /\ 1 \notin Bits(0) /\ 2 \notin Bits(0)
      /\ 0 \in Bits(1) /\ 1 \notin Bits(1) /\ 2 \notin Bits(1)
      /\ 0 \in Bits(7) /\ 1 \in Bits(7) /\ 2 \in Bits(7)
  BY <1>3, <1>4
<1> QED
  BY <1>2, <1>3, <1>5

\* color_fun exchanges red and blue.
LEMMA TermsAre ==
  ASSUME NEW c \in SUBSET (0..2)
  PROVE  Term4(c) \cup Term2(c) \cup Term1(c) = {2 - b : b \in c}
<1>1. \A b \in c : b = 0 \/ b = 1 \/ b = 2
  OBVIOUS
<1>2. 0 \in c => 2 \in {2 - b : b \in c}
  OBVIOUS
<1>3. 1 \in c => 1 \in {2 - b : b \in c}
  OBVIOUS
<1>4. 2 \in c => 0 \in {2 - b : b \in c}
  OBVIOUS
<1>5. \A x \in {2 - b : b \in c} :
        (x = 2 /\ 0 \in c) \/ (x = 1 /\ 1 \in c) \/ (x = 0 /\ 2 \in c)
  BY <1>1
<1> QED
  BY <1>2, <1>3, <1>4, <1>5 DEF Term4, Term2, Term1

LEMMA InterpretIs ==
  ASSUME NEW flag, NEW v \in Nat
  PROVE  /\ v = 0 => Interpret(flag, v) = Grey
         /\ v \in 30..37 => Interpret(flag, v) = Foreground(flag, Bits(v - 30))
         /\ v \in 40..47 => Interpret(flag, v) = Background(flag, Bits(v - 40))
         /\ v \notin {0} \cup 30..37 \cup 40..47 => Interpret(flag, v) = flag
<1>1. v = 0 => v \notin 30..37 /\ v \notin 40..47
  OBVIOUS
<1>2. v \in 30..37 => v # 0 /\ v \notin 40..47
  OBVIOUS
<1>3. v \in 40..47 => v # 0 /\ v \notin 30..37
  OBVIOUS
<1> QED
  BY <1>1, <1>2, <1>3, Zenon DEF Interpret

\* One value of an escape.
LEMMA ValueColored ==
  ASSUME fg \in 0..7, bg \in {0, 1}, color_flag = AnsiAttr, NEW v \in SoundValue,
         color_flag' = Interpret(color_flag, v),
         fg' = (IF v = 0 THEN 7 ELSE IF v \in 30..37 THEN v - 30 ELSE fg),
         bg' = (IF v = 0 THEN 0 ELSE IF v \in 40..47 THEN v - 40 ELSE bg)
  PROVE  fg' \in 0..7 /\ bg' \in {0, 1} /\ color_flag' = AnsiAttr'
<1> DEFINE Low(n) == AnsiBits(n)
<1> DEFINE High(n) == {b + 4 : b \in AnsiBits(n)}
<1>1. /\ \A n \in Int : Low(n) \subseteq 0..2 /\ High(n) \subseteq 4..6
      /\ \A n \in Int : Low(n) = Term4(Bits(n)) \cup Term2(Bits(n)) \cup Term1(Bits(n))
  <2>1. ASSUME NEW n \in Int PROVE Low(n) \subseteq 0..2
    BY BitsAre DEF AnsiBits
  <2>2. ASSUME NEW n \in Int PROVE High(n) \subseteq 4..6
    BY <2>1
  <2>3. ASSUME NEW n \in Int
        PROVE  Low(n) = Term4(Bits(n)) \cup Term2(Bits(n)) \cup Term1(Bits(n))
    <3>1. Bits(n) \in SUBSET (0..2)
      BY BitsAre
    <3> QED
      BY <3>1, TermsAre DEF AnsiBits
  <2> QED
    BY <2>1, <2>2, <2>3
<1>2. color_flag = Low(fg) \cup High(bg) /\ AnsiAttr' = Low(fg') \cup High(bg')
  BY DEF AnsiAttr
<1>3. Low(7) = {0, 1, 2} /\ Low(0) = {} /\ High(0) = {}
  <2>1. Low(7) = {0, 1, 2}
    BY BitsAre DEF AnsiBits
  <2>2. Low(0) = {}
    BY BitsAre DEF AnsiBits
  <2> QED
    BY <2>1, <2>2
<1>4. v \in Nat
  BY DEF SoundValue
<1> HIDE DEF Low, High
<1>5. CASE v = 0
  BY <1>2, <1>3, <1>4, <1>5, InterpretIs DEF Grey
<1>6. CASE v \in 30..37
  <2>1. v # 0 /\ v \notin 40..47 /\ v - 30 \in 0..7 /\ v - 30 \in Int /\ fg \in Int
          /\ bg \in Int
    BY <1>6
  <2>2. color_flag' = (color_flag \ 0..2) \cup Low(v - 30)
    BY <1>1, <1>4, <1>6, <2>1, InterpretIs DEF Foreground
  <2>3. color_flag \ 0..2 = High(bg)
    <3>1. Low(fg) \subseteq 0..2 /\ High(bg) \subseteq 4..6
      BY <1>1, <2>1
    <3> QED
      BY <1>2, <3>1
  <2> QED
    BY <1>2, <1>6, <2>1, <2>2, <2>3
<1>7. CASE v \in 40..47
  <2>1. v # 0 /\ v \notin 30..37 /\ v - 40 \in {0, 1} /\ v - 40 \in Int /\ fg \in Int
          /\ bg \in Int
    BY <1>7 DEF SoundValue
  <2> DEFINE c == Bits(v - 40)
  <2>2. /\ color_flag' = (color_flag \ 4..6) \cup Term4(c) \cup Term2(c)
                            \cup {b + 4 : b \in Term1(c)}
        /\ c = {} \/ c = {0}
    BY <1>4, <1>7, <2>1, BitsAre, InterpretIs DEF Background
  <2>3. Term4(c) = {} /\ Term2(c) = {} /\ AnsiBits(v - 40) = Term1(c)
    <3>1. Term4(c) = {} /\ Term2(c) = {}
      BY <2>2 DEF Term4, Term2
    <3>2. AnsiBits(v - 40) = Term4(c) \cup Term2(c) \cup Term1(c)
      BY <1>1, <2>1 DEF Low
    <3> QED
      BY <3>1, <3>2
  <2>4. color_flag' = (color_flag \ 4..6) \cup High(v - 40)
    BY <2>2, <2>3 DEF High
  <2>5. color_flag \ 4..6 = Low(fg)
    <3>1. Low(fg) \subseteq 0..2 /\ High(bg) \subseteq 4..6
      BY <1>1, <2>1
    <3> QED
      BY <1>2, <3>1
  <2> QED
    BY <1>2, <1>7, <2>1, <2>4, <2>5
<1>8. CASE v \notin {0} \cup 30..37 \cup 40..47
  BY <1>2, <1>4, <1>8, InterpretIs
<1> QED
  BY <1>5, <1>6, <1>7, <1>8

LEMMA ColoredStep ==
  ASSUME Formats \subseteq Seq(SoundItem), TextOnly, Colored, [OutNext]_outVars
  PROVE  Colored'
<1>1. CASE EscapeNumber
  <2>1. Head(values) \in SoundValue /\ Tail(values) \in Seq(SoundValue)
    BY <1>1, HeadTail DEF EscapeNumber, TextOnly, Colored
  <2>2. fg' \in 0..7 /\ bg' \in {0, 1} /\ color_flag' = AnsiAttr'
    BY <1>1, <2>1, ValueColored DEF EscapeNumber, Colored
  <2> QED
    BY <1>1, <2>1, <2>2 DEF EscapeNumber, Colored
<1>2. ASSUME UNCHANGED <<color_flag, fg, bg>> PROVE AnsiAttr' = AnsiAttr
  BY <1>2 DEF AnsiAttr
<1>3. CASE EscapeBegin
  <2>1. Head(fmt) \in SoundItem /\ Tail(fmt) \in Seq(SoundItem)
    BY <1>3, HeadTail DEF EscapeBegin, Colored
  <2>2. Head(fmt)[2] \in Seq(SoundValue)
    BY <1>3, <2>1 DEF EscapeBegin, SoundItem
  <2> QED
    BY <1>2, <1>3, <2>1, <2>2 DEF EscapeBegin, Colored
<1>4. CASE PlainChar
  <2>1. Tail(fmt) \in Seq(SoundItem)
    BY <1>4, HeadTail DEF PlainChar, Colored
  <2> QED
    BY <1>2, <1>4, <2>1 DEF PlainChar, Colored
<1>5. ASSUME NEW f \in Formats, Cprintf(f) PROVE Colored'
  BY <1>2, <1>5 DEF Cprintf, Colored
<1>6. CASE EscapeEnd \/ PortWait \/ SerialPutc \/ LptPutc \/ CgaSkip \/ CgaPutc \/ CgaTab
             \/ UNCHANGED outVars
  <2>1. UNCHANGED <<fmt, values, color_flag, fg, bg>>
    BY <1>6 DEF EscapeEnd, PortWait, SerialPutc, LptPutc, CgaSkip, CgaPutc, CgaTab,
         PutcDone, Unprinted, outVars
  <2> QED
    BY <1>2, <2>1 DEF Colored
<1> QED
  BY <1>1, <1>3, <1>4, <1>5, <1>6 DEF OutNext, Kernel

\* Text is shown in the colours that the escapes asked for, for every sequence of
\* values but 42 to 47: exactly for these the macro, whose expansion is not
\* parenthesised, gets the background wrong.
THEOREM ColorsAsAskedCorrect ==
  Formats \subseteq Seq(SoundItem) => (OutSpec => []ColorsAsAsked)
<1> SUFFICES ASSUME Formats \subseteq Seq(SoundItem) PROVE OutSpec => []ColorsAsAsked
  OBVIOUS
<1>1. OutInit => TextOnly /\ Colored
  <2>1. OutInit => color_flag = AnsiAttr
    <3>1. AnsiBits(7) = {0, 1, 2} /\ AnsiBits(0) = {}
      BY BitsAre DEF AnsiBits
    <3> QED
      BY <3>1 DEF OutInit, AnsiAttr, Grey
  <2> QED
    BY <2>1, TextOnlyInit DEF OutInit, Colored
<1>2. TextOnly /\ Colored /\ [OutNext]_outVars => TextOnly' /\ Colored'
  BY TextOnlyStep, ColoredStep
<1>3. Colored => ColorsAsAsked
  BY DEF Colored, ColorsAsAsked
<1> QED
  BY <1>1, <1>2, <1>3, PTL DEF OutSpec
-----------------------------------------------------------------------------
(* The ports. *)

\* StreamUpTo is what its recursive definition says.
LEMMA StreamRec ==
  ASSUME NEW items
  PROVE  /\ StreamUpTo(items)[0] = << >>
         /\ \A n \in Nat :
              StreamUpTo(items)[n + 1] = StreamUpTo(items)[n] \o Stream(items[n + 1])
<1> DEFINE Part(n, h) == /\ h[0] = << >>
                         /\ \A k \in 0..n-1 : h[k + 1] = h[k] \o Stream(items[k + 1])
<1>1. \A n \in Nat : \E h : Part(n, h)
  <2> DEFINE S == {n \in Nat : \E h : Part(n, h)}
  <2>1. 0 \in S
    <3>1. Part(0, [k \in {0} |-> << >>])
      OBVIOUS
    <3> QED
      BY <3>1
  <2>2. ASSUME NEW n \in S PROVE n + 1 \in S
    <3>1. PICK h : Part(n, h)
      OBVIOUS
    <3> DEFINE g == [k \in 0..n+1 |-> IF k = n + 1 THEN h[n] \o Stream(items[n + 1]) ELSE h[k]]
    <3>2. g[0] = << >>
      BY <3>1
    <3>3. ASSUME NEW k \in 0..n PROVE g[k + 1] = g[k] \o Stream(items[k + 1])
      <4>1. k \in 0..n+1 /\ k + 1 \in 0..n+1 /\ k # n + 1 /\ (k + 1 = n + 1 <=> k = n)
        OBVIOUS
      <4>2. g[k] = h[k]
        BY <4>1
      <4>3. CASE k = n
        BY <4>1, <4>2, <4>3
      <4>4. CASE k # n
        <5>1. g[k + 1] = h[k + 1] /\ k \in 0..n-1
          BY <4>1, <4>4
        <5> QED
          BY <3>1, <4>2, <5>1
      <4> QED
        BY <4>3, <4>4
    <3> HIDE DEF g
    <3>4. n + 1 - 1 = n
      OBVIOUS
    <3>5. Part(n + 1, g)
      <4>1. 0..(n+1)-1 = 0..n
        OBVIOUS
      <4> QED
        BY <3>2, <3>3, <4>1
    <3> HIDE DEF Part
    <3>6. n + 1 \in Nat
      OBVIOUS
    <3> QED
      BY <3>5, <3>6
  <2> HIDE DEF S
  <2>3. S \in SUBSET Nat
    BY DEF S
  <2>4. S = Nat
    BY <2>1, <2>2, <2>3, AllNat
  <2> QED
    BY <2>4 DEF S
<1>2. ASSUME NEW n \in Nat, NEW m \in Nat, n <= m, NEW g, NEW h, Part(n, g), Part(m, h)
      PROVE  g[n] = h[n]
  <2> DEFINE S == {k \in Nat : k <= n => g[k] = h[k]}
  <2>1. 0 \in S
    BY <1>2
  <2>2. ASSUME NEW k \in S PROVE k + 1 \in S
    <3> SUFFICES ASSUME k + 1 <= n PROVE g[k + 1] = h[k + 1]
      OBVIOUS
    <3>1. k \in 0..n-1 /\ k \in 0..m-1 /\ k <= n
      BY <1>2
    <3> QED
      BY <1>2, <3>1
  <2> HIDE DEF S
  <2>3. S \in SUBSET Nat
    BY DEF S
  <2>4. S = Nat
    BY <2>1, <2>2, <2>3, AllNat
  <2> QED
    BY <2>4 DEF S
<1> DEFINE pick(n) == CHOOSE h : Part(n, h)
<1> DEFINE F == [n \in Nat |-> pick(n)[n]]
<1>3. ASSUME NEW n \in Nat PROVE Part(n, pick(n))
  <2>1. \E h : Part(n, h)
    BY <1>1
  <2> HIDE DEF Part
  <2> QED
    BY <2>1
<1>4. F[0] = << >>
  BY <1>3
<1>5. ASSUME NEW n \in Nat PROVE F[n + 1] = F[n] \o Stream(items[n + 1])
  <2>0. n + 1 \in Nat /\ n <= n + 1
    OBVIOUS
  <2>1. Part(n + 1, pick(n + 1)) /\ Part(n, pick(n))
    <3> HIDE DEF Part, pick, F
    <3> QED
      BY <1>3, <2>0
  <2> DEFINE h == pick(n + 1)
  <2>2. F[n + 1] = h[n + 1] /\ F[n] = pick(n)[n]
    OBVIOUS
  <2> HIDE DEF pick, h, F
  <2>3. pick(n)[n] = h[n]
    <3> HIDE DEF Part
    <3> QED
      BY <1>2, <2>0, <2>1 DEF h
  <2>4. h[n + 1] = h[n] \o Stream(items[n + 1])
    <3>1. n \in 0..(n+1)-1
      OBVIOUS
    <3> QED
      BY <2>1, <3>1 DEF h
  <2> QED
    BY <2>2, <2>3, <2>4
<1> DEFINE Is(f) == f = [n \in Nat |-> IF n = 0 THEN << >> ELSE f[n - 1] \o Stream(items[n])]
<1>6. Is(F)
  <2>1. F = [n \in Nat |-> F[n]]
    OBVIOUS
  <2>2. ASSUME NEW n \in Nat PROVE F[n] = IF n = 0 THEN << >> ELSE F[n - 1] \o Stream(items[n])
    <3> HIDE DEF F
    <3>1. CASE n = 0
      BY <1>4, <3>1
    <3>2. CASE n # 0
      <4>1. n - 1 \in Nat /\ (n - 1) + 1 = n
        BY <3>2
      <4>2. F[(n - 1) + 1] = F[n - 1] \o Stream(items[(n - 1) + 1])
        BY <1>5, <4>1
      <4> QED
        BY <3>2, <4>1, <4>2
    <3> QED
      BY <3>1, <3>2
  <2> HIDE DEF F
  <2> QED
    BY <2>1, <2>2
<1>7. Is(StreamUpTo(items))
  <2> HIDE DEF F
  <2>1. \E f : Is(f)
    BY <1>6
  <2>2. StreamUpTo(items) = CHOOSE f : Is(f)
    BY DEF StreamUpTo
  <2> HIDE DEF Is
  <2> QED
    BY <2>1, <2>2
<1> HIDE DEF F
<1>8. \A n \in Nat : n + 1 # 0 /\ (n + 1) - 1 = n /\ n + 1 \in Nat
  OBVIOUS
<1> DEFINE U == StreamUpTo(items)
<1>9. \A n \in Nat : U[n] = IF n = 0 THEN << >> ELSE U[n - 1] \o Stream(items[n])
  <2> HIDE DEF U
  <2> QED
    BY <1>7 DEF U
<1> HIDE DEF U
<1>10. U[0] = << >> /\ \A n \in Nat : U[n + 1] = U[n] \o Stream(items[n + 1])
  BY <1>8, <1>9
<1> QED
  BY <1>10 DEF U

Byte == Glyph \cup Controls \cup EscapeBytes

Blanks == [n \in 1..5 |-> Space]

\* The rest of an escape whose last values are vs, the first number of them
\* being out.
Separators(vs) ==
  [n \in 1..(2 * Len(vs) - 1) |->
     IF n % 2 = 0 THEN Digits ELSE IF n = 2 * Len(vs) - 1 THEN Em ELSE Semicolon]

\* What the serial port will still get of the items begun.
Due(ph, dv, t, vs) ==
  (IF dv = "serial" THEN t ELSE IF dv = "idle" THEN << >> ELSE Tail(t))
    \o (IF ph = "number" THEN Separators(vs)
        ELSE IF ph = "text" /\ dv # "idle" /\ t = << 9 >> THEN Blanks ELSE << >>)

\* The items of the format that were taken from it.
Taken == Len(job) - Len(fmt)

\* Which item comes next; and that only a tab's blanks are put several in a row.
Aligned ==
  /\ job \in Seq(Item) /\ Len(fmt) <= Len(job)
  /\ \A n \in 1..Len(fmt) : fmt[n] = job[Len(job) - Len(fmt) + n]
  /\ phase = "text" /\ Len(todo) > 1 => \A n \in 1..Len(todo) : todo[n] = Space

\* What the ports got and what is due is what the items taken send.
Balanced ==
  /\ com1 \in Seq(Byte) /\ lpt1 \in Seq(Byte)
  /\ com1 \o Due(phase, dev, todo, values) = StreamUpTo(job)[Taken]
  /\ com1 = IF dev = "lpt" THEN Append(lpt1, Head(todo)) ELSE lpt1

\* The inductive invariant.
Sent == Aligned /\ Balanced

LEMMA BytesAre ==
  /\ Space \in Byte /\ Blanks \in Seq(Byte) /\ Len(Blanks) = 5
  /\ Esc \in Byte /\ Bracket \in Byte /\ Digits \in Byte /\ Semicolon \in Byte
  /\ Em \in Byte /\ 9 \in Byte
<1>1. Space \in Byte
  BY GlyphAssumption DEF Space, Byte
<1> QED
  BY <1>1 DEF Byte, EscapeBytes, Controls, Blanks

\* The number of a separator decides what it is.
LEMMA SeparatorsAre ==
  ASSUME NEW S, NEW vs \in Seq(S), vs # << >>
  PROVE  /\ Separators(vs) \in Seq(Byte) /\ Len(Separators(vs)) = 2 * Len(vs) - 1
         /\ \A n \in 1..(2 * Len(vs) - 1) :
              Separators(vs)[n] = IF n % 2 = 0 THEN Digits
                                  ELSE IF n = 2 * Len(vs) - 1 THEN Em ELSE Semicolon
<1>1. Len(vs) \in Nat \ {0} /\ 2 * Len(vs) - 1 \in Nat
  BY HeadTail
<1> QED
  BY <1>1, BytesAre DEF Separators

\* An escape: its first bytes and the separators of all of its values.
LEMMA EscapeStream ==
  ASSUME NEW item \in Item, IsEscape(item)
  PROVE  <<Esc, Bracket, Digits>> \o Separators(item[2]) = Stream(item)
<1> DEFINE vs == item[2]
<1> DEFINE L == Len(vs)
<1> DEFINE body == [n \in 1..(2 * L) |-> IF n % 2 = 1 THEN Digits
                                          ELSE IF n = 2 * L THEN Em ELSE Semicolon]
<1>1. vs \in Seq(Nat) /\ vs # << >> /\ L \in Nat \ {0}
  BY ItemIs, HeadTail
<1>2. Stream(item) = <<Esc, Bracket>> \o body
  BY DEF Stream
<1>3. /\ Separators(vs) \in Seq(Byte) /\ Len(Separators(vs)) = 2 * L - 1
      /\ \A n \in 1..(2 * L - 1) :
           Separators(vs)[n] = IF n % 2 = 0 THEN Digits
                               ELSE IF n = 2 * L - 1 THEN Em ELSE Semicolon
  BY <1>1, SeparatorsAre
<1>4. body \in Seq(Byte) /\ Len(body) = 2 * L
      /\ \A n \in 1..(2 * L) : body[n] = IF n % 2 = 1 THEN Digits
                                          ELSE IF n = 2 * L THEN Em ELSE Semicolon
  BY <1>1, BytesAre
<1> HIDE DEF vs, body, L
<1> DEFINE a == <<Esc, Bracket, Digits>> \o Separators(vs)
<1> DEFINE b == <<Esc, Bracket>> \o body
<1>5. /\ a \in Seq(Byte) /\ Len(a) = 2 * L + 2
      /\ \A n \in 1..(2 * L + 2) :
           a[n] = IF n <= 3 THEN <<Esc, Bracket, Digits>>[n] ELSE Separators(vs)[n - 3]
  <2>1. <<Esc, Bracket, Digits>> \in Seq(Byte) /\ Len(<<Esc, Bracket, Digits>>) = 3
    BY BytesAre
  <2>2. 3 + (2 * L - 1) = 2 * L + 2
    BY <1>1
  <2> QED
    BY <1>3, <2>1, <2>2, ConcatProperties
<1>6. /\ b \in Seq(Byte) /\ Len(b) = 2 * L + 2
      /\ \A n \in 1..(2 * L + 2) :
           b[n] = IF n <= 2 THEN <<Esc, Bracket>>[n] ELSE body[n - 2]
  <2>1. <<Esc, Bracket>> \in Seq(Byte) /\ Len(<<Esc, Bracket>>) = 2
    BY BytesAre
  <2>2. 2 + 2 * L = 2 * L + 2
    BY <1>1
  <2> QED
    BY <1>4, <2>1, <2>2, ConcatProperties
<1> HIDE DEF a, b
<1>7. ASSUME NEW n \in 1..(2 * L + 2) PROVE a[n] = b[n]
  <2>1. CASE n = 1 \/ n = 2
    BY <1>1, <1>5, <1>6, <2>1
  <2>2. CASE n = 3
    BY <1>1, <1>4, <1>5, <1>6, <2>2
  <2>3. CASE n > 3
    <3>1. n - 3 \in 1..(2 * L - 1) /\ n - 2 \in 1..(2 * L) /\ n \in Int /\ L \in Int
      BY <1>1, <2>3
    <3>2. (n - 3) % 2 = 0 <=> (n - 2) % 2 = 1
      BY <3>1
    <3>3. n - 3 = 2 * L - 1 <=> n - 2 = 2 * L
      BY <3>1
    <3>4. a[n] = Separators(vs)[n - 3] /\ b[n] = body[n - 2]
      BY <1>5, <1>6, <2>3, <3>1
    <3> QED
      BY <1>3, <1>4, <3>1, <3>2, <3>3, <3>4
  <2> QED
    BY <2>1, <2>2, <2>3
<1>8. a = b
  BY <1>5, <1>6, <1>7, SeqEqual
<1> QED
  BY <1>2, <1>8 DEF a, b, vs

\* A value in the middle of an escape, and the last one.
LEMMA NextSeparator ==
  ASSUME NEW S, NEW vs \in Seq(S), vs # << >>
  PROVE  Separators(vs) = IF Tail(vs) = << >> THEN <<Em>>
                          ELSE <<Semicolon, Digits>> \o Separators(Tail(vs))
<1> DEFINE L == Len(vs)
<1>1. L \in Nat \ {0} /\ Tail(vs) \in Seq(S) /\ Len(Tail(vs)) = L - 1
  BY HeadTail
<1>2. /\ Separators(vs) \in Seq(Byte) /\ Len(Separators(vs)) = 2 * L - 1
      /\ \A n \in 1..(2 * L - 1) :
           Separators(vs)[n] = IF n % 2 = 0 THEN Digits
                               ELSE IF n = 2 * L - 1 THEN Em ELSE Semicolon
  BY SeparatorsAre
<1>3. CASE Tail(vs) = << >>
  <2>1. L = 1
    <3>1. Len(Tail(vs)) = 0
      BY <1>1, <1>3, EmptySeq
    <3> HIDE DEF L
    <3>2. L - 1 = 0
      BY <1>1, <3>1
    <3> QED
      BY <1>1, <3>2
  <2>2. Len(Separators(vs)) = 1 /\ Separators(vs)[1] = Em
    BY <1>2, <2>1
  <2>3. <<Em>> \in Seq(Byte) /\ Len(<<Em>>) = 1 /\ <<Em>>[1] = Em
    BY BytesAre
  <2>4. \A n \in 1..1 : n = 1
    OBVIOUS
  <2>5. Separators(vs) = <<Em>>
    BY <1>2, <2>2, <2>3, <2>4, SeqEqual
  <2> QED
    BY <1>3, <2>5
<1>4. CASE Tail(vs) # << >>
  <2> DEFINE M == L - 1
  <2> DEFINE r == Separators(Tail(vs))
  <2>1. M \in Nat \ {0} /\ L = M + 1
    BY <1>1, <1>4
  <2>2. /\ r \in Seq(Byte) /\ Len(r) = 2 * M - 1
        /\ \A n \in 1..(2 * M - 1) :
             r[n] = IF n % 2 = 0 THEN Digits ELSE IF n = 2 * M - 1 THEN Em ELSE Semicolon
    BY <1>1, <1>4, SeparatorsAre
  <2> HIDE DEF M, r, L
  <2> DEFINE b == <<Semicolon, Digits>> \o r
  <2>3. /\ b \in Seq(Byte) /\ Len(b) = 2 * L - 1
        /\ \A n \in 1..(2 * L - 1) :
             b[n] = IF n <= 2 THEN <<Semicolon, Digits>>[n] ELSE r[n - 2]
    <3>1. <<Semicolon, Digits>> \in Seq(Byte) /\ Len(<<Semicolon, Digits>>) = 2
      BY BytesAre
    <3>2. 2 + (2 * M - 1) = 2 * L - 1
      BY <2>1
    <3> QED
      BY <2>2, <3>1, <3>2, ConcatProperties
  <2> HIDE DEF b
  <2>4. ASSUME NEW n \in 1..(2 * L - 1) PROVE Separators(vs)[n] = b[n]
    <3>1. CASE n = 1 \/ n = 2
      BY <1>2, <2>1, <2>3, <3>1
    <3>2. CASE n > 2
      <4>1. n - 2 \in 1..(2 * M - 1) /\ n \in Int /\ M \in Int
        BY <2>1, <3>2
      <4>2. (n - 2) % 2 = 0 <=> n % 2 = 0
        BY <4>1
      <4>3. n - 2 = 2 * M - 1 <=> n = 2 * L - 1
        BY <2>1, <4>1
      <4>4. b[n] = r[n - 2]
        BY <2>3, <3>2
      <4> QED
        BY <1>2, <2>2, <4>1, <4>2, <4>3, <4>4
    <3> QED
      BY <3>1, <3>2
  <2>5. Separators(vs) = b
    BY <1>2, <2>3, <2>4, SeqEqual DEF L
  <2> QED
    BY <1>4, <2>5 DEF b, r
<1> QED
  BY <1>3, <1>4

Regrouped(x, y, z) == (x \o y) \o z = x \o (y \o z)

LEMMA Assoc ==
  ASSUME NEW S, NEW x \in Seq(S), NEW y \in Seq(S), NEW z \in Seq(S)
  PROVE  Regrouped(x, y, z)
BY SMTT(30) DEF Regrouped

\* The serial port takes the first of the bytes that are due.
LEMMA TakeFirst ==
  ASSUME NEW S, NEW c \in Seq(S), NEW t \in Seq(S), NEW r \in Seq(S), t # << >>
  PROVE  Append(c, Head(t)) \o (Tail(t) \o r) = c \o (t \o r)
<1>1. Head(t) \in S /\ Tail(t) \in Seq(S) /\ <<Head(t)>> \in Seq(S)
  BY HeadTail
<1>2. Append(c, Head(t)) = c \o <<Head(t)>>
  BY <1>1, AppendIsConcat
<1>3. t = <<Head(t)>> \o Tail(t)
  BY <1>1, HeadTail
<1>4. Tail(t) \o r \in Seq(S)
  BY <1>1, ConcatProperties
<1>5. PICK h, v, u : h = <<Head(t)>> /\ v = Tail(t) /\ u = v \o r
  OBVIOUS
<1>6. h \in Seq(S) /\ v \in Seq(S) /\ u \in Seq(S)
  BY <1>1, <1>4, <1>5
<1>7. Regrouped(h, v, r) /\ Regrouped(c, h, u)
  BY <1>6, Assoc
<1>8. (h \o v) \o r = h \o (v \o r) /\ (c \o h) \o u = c \o (h \o u)
  BY <1>7 DEF Regrouped
<1>9. Append(c, Head(t)) = c \o h /\ t = h \o v
  BY <1>2, <1>3, <1>5
<1>10. c \o (t \o r) = c \o (h \o u)
  BY <1>5, <1>8, <1>9
<1> QED
  BY <1>5, <1>8, <1>9, <1>10

\* Between two characters the items begun are out, but for the rest of an escape.
LEMMA DueIdle ==
  ASSUME TextOnly, dev = "idle"
  PROVE  /\ todo = << >>
         /\ phase = "number" => Due(phase, dev, todo, values) = Separators(values)
         /\ phase # "number" => Due(phase, dev, todo, values) = << >>
<1>1. todo = << >>
  BY DEF TextOnly
<1>2. phase = "number" => Due(phase, dev, todo, values) = << >> \o Separators(values)
  BY <1>1 DEF Due
<1>3. phase # "number" => Due(phase, dev, todo, values) = << >> \o << >>
  BY <1>1 DEF Due
<1>4. phase = "number" => Separators(values) \in Seq(Byte)
  BY SeparatorsAre DEF TextOnly
<1>5. << >> \o << >> = << >>
  OBVIOUS
<1> QED
  BY <1>1, <1>2, <1>3, <1>4, <1>5, ConcatEmptySeq

\* While a character is put: the rest of its item, once for the state.
LEMMA DueBusy ==
  ASSUME TextOnly, dev # "idle"
  PROVE  \E r \in Seq(Byte) :
           /\ r = IF phase = "number" THEN Separators(values)
                  ELSE IF phase = "text" /\ todo = << 9 >> THEN Blanks ELSE << >>
           /\ todo \in Seq(Byte) /\ todo # << >>
           /\ Due(phase, dev, todo, values)
                = (IF dev = "serial" THEN todo ELSE Tail(todo)) \o r
<1> DEFINE r == IF phase = "number" THEN Separators(values)
                ELSE IF phase = "text" /\ todo = << 9 >> THEN Blanks ELSE << >>
<1>1. r \in Seq(Byte)
  BY SeparatorsAre, BytesAre DEF TextOnly
<1>2. todo # << >>
  BY DEF TextOnly
<1>3. todo \in Seq(Byte)
  BY DEF TextOnly, Byte
<1>4. Due(phase, dev, todo, values) = (IF dev = "serial" THEN todo ELSE Tail(todo)) \o r
  BY DEF Due
<1> QED
  BY <1>1, <1>2, <1>3, <1>4

\* vprintfmt takes the next item of the format.
LEMMA NextItem ==
  ASSUME TextOnly, Sent, fmt # << >>, fmt' = Tail(fmt), job' = job
  PROVE  /\ Head(fmt) \in Item /\ Taken \in Nat /\ Taken' = Taken + 1
         /\ Len(fmt') <= Len(job')
         /\ \A n \in 1..Len(fmt') : fmt'[n] = job'[Len(job') - Len(fmt') + n]
         /\ StreamUpTo(job')[Taken'] = StreamUpTo(job)[Taken] \o Stream(Head(fmt))
<1>1. /\ fmt \in Seq(Item) /\ job \in Seq(Item) /\ Len(fmt) <= Len(job)
      /\ \A n \in 1..Len(fmt) : fmt[n] = job[Len(job) - Len(fmt) + n]
  BY DEF TextOnly, Sent, Aligned
<1>2. /\ Head(fmt) \in Item /\ Tail(fmt) \in Seq(Item) /\ Len(fmt) \in Nat \ {0}
      /\ Len(Tail(fmt)) = Len(fmt) - 1 /\ Head(fmt) = fmt[1]
      /\ \A n \in 1..Len(fmt)-1 : Tail(fmt)[n] = fmt[n + 1]
  BY <1>1, HeadTail
<1>3. Len(job) \in Nat
  BY <1>1
<1> DEFINE F == Len(fmt)
<1> DEFINE J == Len(job)
<1>4. Len(fmt') = F - 1 /\ Len(job') = J /\ F \in Nat \ {0} /\ J \in Nat /\ F <= J
  BY <1>1, <1>2, <1>3
<1>5. Taken = J - F /\ Taken' = J - (F - 1)
  BY <1>4 DEF Taken
<1> HIDE DEF F, J
<1>6. Taken \in Nat /\ Taken' = Taken + 1 /\ F - 1 <= J
  BY <1>4, <1>5
<1>7. Head(fmt) = job[Taken + 1]
  BY <1>1, <1>2, <1>5 DEF F, J
<1>8. ASSUME NEW n \in 1..Len(fmt') PROVE fmt'[n] = job'[Len(job') - Len(fmt') + n]
  <2>1. n \in 1..F-1 /\ n + 1 \in 1..F /\ J - F + (n + 1) = J - (F - 1) + n
    BY <1>4
  <2>2. fmt'[n] = fmt[n + 1]
    BY <1>2, <2>1 DEF F
  <2>3. fmt[n + 1] = job[J - F + (n + 1)]
    BY <1>1, <2>1 DEF F, J
  <2> QED
    BY <1>4, <2>1, <2>2, <2>3
<1>9. StreamUpTo(job)[Taken + 1] = StreamUpTo(job)[Taken] \o Stream(job[Taken + 1])
  BY <1>6, StreamRec
<1> QED
  BY <1>2, <1>4, <1>6, <1>7, <1>8, <1>9

LEMMA PlainCharSent == ASSUME TextOnly, Sent, PlainChar PROVE Sent'
<1> DEFINE c == Head(fmt)[2]
<1>1. /\ dev = "idle" /\ phase = "text" /\ fmt # << >> /\ ~IsEscape(Head(fmt))
      /\ dev' = "serial" /\ todo' = <<c>> /\ fmt' = Tail(fmt) /\ job' = job
      /\ phase' = "text" /\ values' = values /\ com1' = com1 /\ lpt1' = lpt1
  BY DEF PlainChar, Putting
<1>2. /\ Head(fmt) \in Item /\ Len(fmt') <= Len(job')
      /\ \A n \in 1..Len(fmt') : fmt'[n] = job'[Len(job') - Len(fmt') + n]
      /\ StreamUpTo(job')[Taken'] = StreamUpTo(job)[Taken] \o Stream(Head(fmt))
  BY <1>1, NextItem
<1>3. com1 \in Seq(Byte) /\ com1 = StreamUpTo(job)[Taken] /\ lpt1 = com1
  <2>1. Due(phase, dev, todo, values) = << >>
    BY <1>1, DueIdle
  <2> QED
    BY <1>1, <2>1, ConcatEmptySeq DEF Sent, Balanced
<1>4. c \in Byte
  BY <1>1, <1>2, ItemIs DEF Byte
<1> HIDE DEF c
<1>5. Due("text", "serial", <<c>>, values) = Stream(Head(fmt))
  <2>1. CASE c = 9
    <3>1. Due("text", "serial", <<c>>, values) = << 9 >> \o Blanks
      BY <2>1 DEF Due
    <3> QED
      BY <1>1, <2>1, <3>1 DEF Stream, c, Blanks
  <2>2. CASE c # 9
    <3>1. <<c>> # << 9 >>
      BY <2>2
    <3>2. Due("text", "serial", <<c>>, values) = <<c>> \o << >>
      BY <3>1 DEF Due
    <3>3. <<c>> \in Seq(Byte)
      BY <1>4
    <3>4. <<c>> \o << >> = <<c>>
      BY <3>3, ConcatEmptySeq
    <3> QED
      BY <1>1, <2>2, <3>2, <3>4 DEF Stream, c
  <2> QED
    BY <2>1, <2>2
<1>6. Balanced'
  BY <1>1, <1>2, <1>3, <1>5 DEF Balanced
<1>7. Aligned'
  <2>1. ~(Len(todo') > 1) /\ job' \in Seq(Item)
    BY <1>1 DEF Sent, Aligned
  <2> QED
    BY <1>2, <2>1 DEF Aligned
<1> QED
  BY <1>6, <1>7 DEF Sent

LEMMA EscapeBeginSent == ASSUME TextOnly, Sent, EscapeBegin PROVE Sent'
<1> DEFINE vs == Head(fmt)[2]
<1> DEFINE t == <<Esc, Bracket, Digits>>
<1>1. /\ dev = "idle" /\ phase = "text" /\ fmt # << >> /\ IsEscape(Head(fmt))
      /\ dev' = "serial" /\ todo' = t /\ fmt' = Tail(fmt) /\ job' = job
      /\ phase' = "number" /\ values' = vs /\ com1' = com1 /\ lpt1' = lpt1
  BY DEF EscapeBegin, Putting
<1>2. /\ Head(fmt) \in Item /\ Len(fmt') <= Len(job')
      /\ \A n \in 1..Len(fmt') : fmt'[n] = job'[Len(job') - Len(fmt') + n]
      /\ StreamUpTo(job')[Taken'] = StreamUpTo(job)[Taken] \o Stream(Head(fmt))
  BY <1>1, NextItem
<1>3. com1 \in Seq(Byte) /\ com1 = StreamUpTo(job)[Taken] /\ lpt1 = com1
  <2>1. Due(phase, dev, todo, values) = << >>
    BY <1>1, DueIdle
  <2> QED
    BY <1>1, <2>1, ConcatEmptySeq DEF Sent, Balanced
<1>4. t \o Separators(vs) = Stream(Head(fmt))
  BY <1>1, <1>2, EscapeStream
<1> HIDE DEF vs, t
<1>5. Due("number", "serial", t, vs) = Stream(Head(fmt))
  BY <1>4 DEF Due
<1>6. Balanced'
  BY <1>1, <1>2, <1>3, <1>5 DEF Balanced
<1>7. Aligned'
  BY <1>1, <1>2 DEF Sent, Aligned
<1> QED
  BY <1>6, <1>7 DEF Sent

LEMMA EscapeNumberSent == ASSUME TextOnly, Sent, EscapeNumber PROVE Sent'
<1>1. /\ dev = "idle" /\ phase = "number" /\ values' = Tail(values)
      /\ fmt' = fmt /\ job' = job /\ com1' = com1 /\ lpt1' = lpt1 /\ dev' = "serial"
      /\ IF Tail(values) = << >>
           THEN todo' = <<Em>> /\ phase' = "close"
           ELSE todo' = <<Semicolon, Digits>> /\ phase' = "number"
  BY DEF EscapeNumber, Putting
<1>2. values \in Seq(Nat) /\ values # << >>
  BY <1>1 DEF TextOnly
<1>3. Due(phase, dev, todo, values) = Separators(values)
  BY <1>1, DueIdle
<1>4. Due(phase', dev', todo', values') = Separators(values)
  <2>1. CASE Tail(values) = << >>
    <3>1. Due(phase', dev', todo', values') = <<Em>> \o << >>
      BY <1>1, <2>1 DEF Due
    <3>2. <<Em>> \in Seq(Byte)
      BY BytesAre
    <3>3. <<Em>> \o << >> = <<Em>>
      BY <3>2, ConcatEmptySeq
    <3> QED
      BY <1>2, <2>1, <3>1, <3>3, NextSeparator
  <2>2. CASE Tail(values) # << >>
    <3>1. Due(phase', dev', todo', values') = <<Semicolon, Digits>> \o Separators(Tail(values))
      BY <1>1, <2>2 DEF Due
    <3> QED
      BY <1>2, <2>2, <3>1, NextSeparator
  <2> QED
    BY <2>1, <2>2
<1>5. Taken' = Taken
  BY <1>1 DEF Taken
<1>6. Balanced'
  BY <1>1, <1>3, <1>4, <1>5 DEF Sent, Balanced
<1>7. Aligned'
  BY <1>1 DEF Sent, Aligned
<1> QED
  BY <1>6, <1>7 DEF Sent

LEMMA SerialPutcSent == ASSUME TextOnly, Sent, SerialPutc PROVE Sent'
<1>1. /\ dev = "serial" /\ dev' = "lpt" /\ com1' = Append(com1, Head(todo))
      /\ UNCHANGED <<fmt, job, phase, values, todo, lpt1>>
  BY DEF SerialPutc, Unprinted
<1>2. PICK r \in Seq(Byte) :
        /\ r = IF phase = "number" THEN Separators(values)
               ELSE IF phase = "text" /\ todo = << 9 >> THEN Blanks ELSE << >>
        /\ todo \in Seq(Byte) /\ todo # << >>
        /\ Due(phase, dev, todo, values)
             = (IF dev = "serial" THEN todo ELSE Tail(todo)) \o r
  BY <1>1, DueBusy
<1>3. Due(phase, dev, todo, values) = todo \o r
  BY <1>1, <1>2
<1>4. Due(phase', dev', todo', values') = Tail(todo) \o r
  BY <1>1, <1>2 DEF Due
<1>5. com1 \in Seq(Byte) /\ com1 = lpt1
  BY <1>1 DEF Sent, Balanced
<1>6. com1' \o Due(phase', dev', todo', values') = com1 \o Due(phase, dev, todo, values)
  <2>1. todo \in Seq(Byte) /\ todo # << >> /\ com1 \in Seq(Byte)
    BY <1>2, <1>5
  <2>2. Append(com1, Head(todo)) \o (Tail(todo) \o r) = com1 \o (todo \o r)
    BY <2>1, TakeFirst
  <2> QED
    BY <1>1, <1>3, <1>4, <2>2
<1>7. com1' \in Seq(Byte)
  BY <1>1, <1>2, <1>5, HeadTail, AppendProperties
<1>8. Taken' = Taken
  BY <1>1 DEF Taken
<1>9. Balanced'
  BY <1>1, <1>5, <1>6, <1>7, <1>8 DEF Sent, Balanced
<1>10. Aligned'
  BY <1>1 DEF Sent, Aligned
<1> QED
  BY <1>9, <1>10 DEF Sent

LEMMA LptPutcSent == ASSUME TextOnly, Sent, LptPutc PROVE Sent'
<1>1. /\ dev = "lpt" /\ dev' = "cga" /\ lpt1' = Append(lpt1, Head(todo))
      /\ UNCHANGED <<fmt, job, phase, values, todo, com1>>
  BY DEF LptPutc, Unprinted
<1>2. Due(phase', dev', todo', values') = Due(phase, dev, todo, values)
  BY <1>1 DEF Due
<1>3. com1' = lpt1' /\ lpt1' \in Seq(Byte)
  BY <1>1 DEF Sent, Balanced
<1>4. Taken' = Taken
  BY <1>1 DEF Taken
<1>5. Balanced'
  BY <1>1, <1>2, <1>3, <1>4 DEF Sent, Balanced
<1>6. Aligned'
  BY <1>1 DEF Sent, Aligned
<1> QED
  BY <1>5, <1>6 DEF Sent

LEMMA CgaDoneSent == ASSUME TextOnly, Sent, CgaSkip \/ CgaPutc \/ CgaTab PROVE Sent'
<1>1. /\ dev = "cga" /\ UNCHANGED <<fmt, job, phase, values, com1, lpt1>>
      /\ dev' = IF todo' = << >> THEN "idle" ELSE "serial"
  BY DEF CgaSkip, CgaPutc, CgaTab, PutcDone, Unprinted
<1>2. todo # << >> /\ todo \in Seq(Byte) /\ Tail(todo) \in Seq(Byte)
      /\ Len(todo) \in Nat \ {0} /\ Len(Tail(todo)) = Len(todo) - 1
      /\ \A n \in 1..Len(todo)-1 : Tail(todo)[n] = todo[n + 1]
  <2>1. todo # << >> /\ todo \in Seq(Byte)
    BY <1>1 DEF TextOnly, Byte
  <2> QED
    BY <2>1, HeadTail
<1>3. Taken' = Taken
  BY <1>1 DEF Taken
<1>4. SUFFICES /\ Due(phase', dev', todo', values') = Due(phase, dev, todo, values)
               /\ phase = "text" /\ Len(todo') > 1 => \A n \in 1..Len(todo') : todo'[n] = Space
  <2>1. com1 = lpt1
    BY <1>1 DEF Sent, Balanced
  <2>2. dev' # "lpt"
    BY <1>1
  <2> QED
    BY <1>1, <1>3, <1>4, <2>1, <2>2 DEF Sent, Balanced, Aligned
<1>5. CASE CgaSkip
  <2>1. phase # "text" /\ todo' = Tail(todo)
    BY <1>5 DEF CgaSkip, PutcDone, TextOnly
  <2>2. Due(phase', dev', todo', values') = Due(phase, dev, todo, values)
    BY <1>1, <2>1 DEF Due
  <2> QED
    BY <2>1, <2>2
<1>6. CASE CgaPutc
  <2>1. phase = "text" /\ todo' = Tail(todo) /\ Head(todo) # 9
    BY <1>6 DEF CgaPutc, PutcDone, TextOnly
  <2>2. todo # << 9 >>
    BY <2>1
  <2>3. Len(todo) > 1 => \A n \in 1..Len(Tail(todo)) : Tail(todo)[n] = Space
    <3> SUFFICES ASSUME Len(todo) > 1, NEW n \in 1..Len(Tail(todo))
                 PROVE  Tail(todo)[n] = Space
      OBVIOUS
    <3>2. n \in 1..Len(todo)-1 /\ n + 1 \in 1..Len(todo)
      BY <1>2
    <3> QED
      BY <1>2, <2>1, <3>2 DEF Sent, Aligned
  <2>4. ASSUME Tail(todo) = << 9 >> PROVE FALSE
    <3>2. Len(Tail(todo)) = 1 /\ Tail(todo)[1] = 9
      <4>1. Len(<< 9 >>) = 1 /\ << 9 >>[1] = 9
        OBVIOUS
      <4> QED
        BY <2>4, <4>1, Zenon
    <3>3. Len(todo) > 1 /\ 1 \in 1..Len(Tail(todo))
      BY <1>2, <3>2
    <3>4. Tail(todo)[1] = Space
      BY <2>3, <3>3
    <3> QED
      BY <3>2, <3>4 DEF Space
  <2>5. Due(phase', dev', todo', values') = Due(phase, dev, todo, values)
    <3>1. Due(phase, dev, todo, values) = Tail(todo) \o << >>
      BY <1>1, <2>1, <2>2 DEF Due
    <3>2. Due(phase', dev', todo', values') = Tail(todo) \o << >>
      BY <1>1, <2>1, <2>4 DEF Due
    <3> QED
      BY <3>1, <3>2
  <2>6. Len(todo') > 1 => \A n \in 1..Len(todo') : todo'[n] = Space
    BY <1>2, <2>1, <2>3
  <2> QED
    BY <2>5, <2>6
<1>7. CASE CgaTab
  <2>1. phase = "text" /\ todo' = Blanks \o Tail(todo) /\ Head(todo) = 9
    BY <1>7 DEF CgaTab, PutcDone, TextOnly, Blanks
  <2>2. Len(todo) = 1
    <3>1. Len(todo) > 1 => todo[1] = Space
      BY <1>2, <2>1 DEF Sent, Aligned
    <3>2. todo[1] = 9
      BY <1>2, <2>1
    <3> QED
      BY <1>2, <3>1, <3>2 DEF Space
  <2>3. Tail(todo) = << >>
    <3>1. Len(Tail(todo)) = 0
      BY <1>2, <2>2
    <3>2. Tail(todo) \in Seq(Byte)
      BY <1>2
    <3> QED
      BY <3>1, <3>2, EmptySeq, Zenon
  <2>4. todo = << 9 >>
    <3>1. << 9 >> \in Seq(Byte) /\ Len(<< 9 >>) = 1
      BY BytesAre
    <3>2. \A n \in 1..Len(todo) : todo[n] = << 9 >>[n]
      BY <2>1, <2>2
    <3> QED
      BY <1>2, <2>2, <3>1, <3>2, SeqEqual
  <2>5. Blanks \o << >> = Blanks /\ << >> \o Blanks = Blanks
    BY BytesAre, ConcatEmptySeq
  <2>6. todo' = Blanks /\ Blanks # << >> /\ Blanks # << 9 >>
    <3>1. todo' = Blanks
      BY <2>1, <2>3, <2>5, Zenon
    <3>2. Len(Blanks) = 5 /\ Len(<< 9 >>) = 1 /\ Len(<< >>) = 0
      BY DEF Blanks
    <3>3. Blanks # << >>
      BY <3>2
    <3>4. Blanks # << 9 >>
      BY <3>2
    <3> QED
      BY <3>1, <3>3, <3>4
  <2>7. Due(phase, dev, todo, values) = << >> \o Blanks
    BY <1>1, <2>1, <2>3, <2>4 DEF Due
  <2>8. Due(phase', dev', todo', values') = Blanks \o << >>
    BY <1>1, <2>1, <2>6 DEF Due
  <2>9. \A n \in 1..Len(todo') : todo'[n] = Space
    BY <2>6, BytesAre DEF Blanks
  <2> QED
    BY <2>5, <2>7, <2>8, <2>9
<1> QED
  BY <1>5, <1>6, <1>7

LEMMA SentStep == TextOnly /\ Sent /\ [OutNext]_outVars => Sent'
<1> SUFFICES ASSUME TextOnly, Sent, [OutNext]_outVars PROVE Sent'
  OBVIOUS
<1>1. ASSUME NEW f \in Formats, Cprintf(f) PROVE Sent'
  <2>1. /\ dev' = "idle" /\ phase' = "text" /\ todo' = << >> /\ fmt' = f /\ job' = f
        /\ com1' = << >> /\ lpt1' = << >>
    BY <1>1 DEF Cprintf, TextOnly
  <2>2. f \in Seq(Item) /\ Len(f) \in Nat
    BY FormatsAssumption
  <2>3. Taken' = 0
    BY <2>1, <2>2 DEF Taken
  <2>4. Due(phase', dev', todo', values') = << >> \o << >>
    BY <2>1 DEF Due
  <2>5. << >> \o (<< >> \o << >>) = << >>
    OBVIOUS
  <2>6. StreamUpTo(job')[Taken'] = << >>
    BY <2>3, StreamRec
  <2>7. Balanced'
    BY <2>1, <2>4, <2>5, <2>6 DEF Balanced
  <2>8. Aligned'
    BY <2>1, <2>2 DEF Aligned
  <2> QED
    BY <2>7, <2>8 DEF Sent
<1>2. CASE EscapeEnd
  <2>1. /\ dev = "idle" /\ dev' = "idle" /\ phase = "close" /\ phase' = "text"
        /\ todo' = << >> /\ todo = << >>
        /\ UNCHANGED <<fmt, job, com1, lpt1, values>>
    BY <1>2 DEF EscapeEnd, TextOnly
  <2>2. Due(phase', dev', todo', values') = Due(phase, dev, todo, values)
    BY <2>1 DEF Due
  <2>3. Taken' = Taken
    BY <2>1 DEF Taken
  <2>4. Balanced'
    BY <2>1, <2>2, <2>3 DEF Sent, Balanced
  <2>5. Aligned'
    BY <2>1 DEF Sent, Aligned
  <2> QED
    BY <2>4, <2>5 DEF Sent
<1>3. CASE PortWait \/ UNCHANGED outVars
  <2>1. UNCHANGED <<fmt, job, phase, values, todo, dev, com1, lpt1>>
    BY <1>3 DEF PortWait, Unprinted, outVars
  <2>2. Taken' = Taken
    BY <2>1 DEF Taken
  <2> QED
    BY <2>1, <2>2 DEF Sent, Aligned, Balanced
<1> QED
  BY <1>1, <1>2, <1>3, PlainCharSent, EscapeBeginSent, EscapeNumberSent,
     SerialPutcSent, LptPutcSent, CgaDoneSent DEF OutNext, Kernel

\* When cprintf returns, the serial and the parallel port each got every byte of
\* the format, those of its escapes and the blanks of its tabs included, once and
\* in order: for every format, and whether or not the ports were ever ready.
THEOREM PortsGetEverythingCorrect == OutSpec => []PortsGetEverything
<1>1. OutInit => TextOnly /\ Sent
  <2> SUFFICES ASSUME OutInit PROVE Sent
    BY TextOnlyInit
  <2>1. Due("text", "idle", << >>, << >>) = << >> \o << >>
    BY DEF Due
  <2>2. << >> \o (<< >> \o << >>) = << >>
    OBVIOUS
  <2>3. Taken = 0 /\ StreamUpTo(job)[Taken] = << >>
    <3>1. job = << >> /\ fmt = << >>
      BY DEF OutInit
    <3>2. Len(<< >>) = 0
      OBVIOUS
    <3>3. Taken = 0
      BY <3>1, <3>2 DEF Taken
    <3>4. << >> \in Seq(Item)
      OBVIOUS
    <3> QED
      BY <3>1, <3>3, <3>4, StreamRec
  <2> QED
    BY <2>1, <2>2, <2>3 DEF OutInit, Sent, Aligned, Balanced
<1>2. TextOnly /\ Sent /\ [OutNext]_outVars => TextOnly' /\ Sent'
  BY TextOnlyStep, SentStep
<1>3. TextOnly /\ Sent => PortsGetEverything
  <2> SUFFICES ASSUME TextOnly, Sent, ~Printing
               PROVE  com1 = StreamUpTo(job)[Len(job)] /\ lpt1 = com1
    BY DEF PortsGetEverything
  <2>1. fmt = << >> /\ phase = "text" /\ dev = "idle"
    BY DEF Printing
  <2>2. Due(phase, dev, todo, values) = << >>
    BY <2>1, DueIdle
  <2>3. Taken = Len(job)
    BY <2>1 DEF Taken, Sent, Aligned
  <2>4. com1 \o << >> = com1
    BY ConcatEmptySeq DEF Sent, Balanced
  <2> QED
    BY <2>1, <2>2, <2>3, <2>4 DEF Sent, Balanced
<1> QED
  BY <1>1, <1>2, <1>3, PTL DEF OutSpec
=============================================================================
