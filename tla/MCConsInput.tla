---------------------------- MODULE MCConsInput ----------------------------
(* Small instances of console input. *)
EXTENDS ConsInput

\* `a` and both Ctrl keys, the right one with its two-byte code.
InputKeys == {LetterA, 29, 157}

\* Bytes of the serial line: NUL and a letter that no key of InputKeys types.
InputBytes == {0, 120}

\* Everything the two devices can put in the buffer.
InputChars == (InputBytes \ {0}) \cup {97, 65, 1}
=============================================================================
