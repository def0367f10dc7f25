----------------------------- MODULE MCConsOut -----------------------------
(* A small screen and a few formats. *)
EXTENDS ConsOut

\* A line with a tab and a backspace, the example of challenge1.txt (a
\* foreground colour, the background colour 41, and all attributes off), and a
\* backspace where the cursor was left, the top left corner included.
ColorFormats == { <<Chr(97), Chr(8), Chr(9), Chr(10)>>,
                  <<Sgr(<<41, 36>>), Chr(98), Sgr(<<0>>), Chr(13)>>,
                  <<Sgr(<<33>>), Chr(8), Chr(97)>> }

\* Every attribute that fits in the high byte of a cell.
ColorAttrs == SUBSET (0..7)

BackgroundFormats == { <<Sgr(<<42>>), Chr(97), Sgr(<<0>>)>> }
=============================================================================
