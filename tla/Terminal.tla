------------------------------ MODULE Terminal ------------------------------
(***************************************************************************)
(* What a text screen does, said in rows and columns: the specification    *)
(* that cga_putc of kern/console.c, which works on a linear video memory   *)
(* and a linear position, is meant to implement.                           *)
(***************************************************************************)
EXTENDS Integers

CONSTANTS CRT_ROWS, CRT_COLS,
          Cell,              \* what a screen position can show
          Blank              \* what a fresh line shows

VARIABLES grid,              \* grid[r][k]: the cell in row r, column k
          row, col           \* where the next character goes

terminalVars == <<grid, row, col>>

Rows == 0..CRT_ROWS-1
Cols == 0..CRT_COLS-1

\* The screen after its top line has been pushed out.
Scrolled(g) ==
  [r \in Rows |-> IF r = CRT_ROWS - 1 THEN [k \in Cols |-> Blank] ELSE g[r + 1]]

\* The cursor goes to row r and column k; below the last row the screen
\* scrolls by one line.
MoveTo(g, r, k) ==
  /\ col' = k
  /\ IF r = CRT_ROWS THEN row' = r - 1 /\ grid' = Scrolled(g)
                     ELSE row' = r /\ grid' = g

\* A glyph is shown and the cursor moves right, or on to the next line.
Show(cell) ==
  LET g == [grid EXCEPT ![row][col] = cell]
  IN IF col = CRT_COLS - 1 THEN MoveTo(g, row + 1, 0) ELSE MoveTo(g, row, col + 1)

\* The cursor moves back by one, also over the end of a line, and erases.
Erase(cell) ==
  \/ /\ col > 0
     /\ col' = col - 1 /\ row' = row
     /\ grid' = [grid EXCEPT ![row][col - 1] = cell]
  \/ /\ col = 0 /\ row > 0
     /\ col' = CRT_COLS - 1 /\ row' = row - 1
     /\ grid' = [grid EXCEPT ![row - 1][CRT_COLS - 1] = cell]

LineFeed == MoveTo(grid, row + 1, 0)

CarriageReturn == MoveTo(grid, row, 0)

TerminalNext ==
  \/ \E cell \in Cell : Show(cell) \/ Erase(cell)
  \/ LineFeed
  \/ CarriageReturn

TerminalInit ==
  /\ grid \in [Rows -> [Cols -> Cell]]
  /\ row \in Rows
  /\ col \in Cols

TerminalSpec == TerminalInit /\ [][TerminalNext]_terminalVars
=============================================================================
