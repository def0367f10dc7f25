----------------------------- MODULE MCMonitor -----------------------------
(* A small screen and a short buffer. *)
EXTENDS Monitor

GreyOnly == {Grey}

\* Backspace, delete, newline, return, a control character, space, a letter,
\* and the letter that names a command.
Keys == {8, 127, 10, 13, 1, White, 98, 104}
=============================================================================
