------------------------------- MODULE MCKbd -------------------------------
(* A small keyboard. *)
EXTENDS Kbd

\* Both Ctrl keys (the right one has an E0 code), left Shift, right Alt (E0),
\* Caps Lock, `a`, and the Del keys of the keypad and of the middle block (E0).
SmallKeyboard == {29, 157, 42, 184, 58, LetterA, KeypadDel, Del}
=============================================================================
