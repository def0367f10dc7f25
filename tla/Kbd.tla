-------------------------------- MODULE Kbd --------------------------------
(***************************************************************************)
(* The keyboard half of kern/console.c: kbd_proc_data turns the bytes of   *)
(* the i8042 controller into characters and keeps the modifiers in its     *)
(* static `shift`, here the set of the flags whose bits are set.           *)
(*                                                                         *)
(* Outside src/: the keyboard sends the set-1 code of a key one byte at a  *)
(* time, with an E0 prefix for the extended keys and bit 7 set on release; *)
(* it repeats the code of a key that stays down; the controller holds one  *)
(* byte until it is read.  A key is named by its index in the code's       *)
(* 256-entry tables (extended keys have bit 7 set).                        *)
(***************************************************************************)
EXTENDS Integers, Sequences, FiniteSets

CONSTANTS Key,        \* the keys of the modelled keyboard
          MaxWire     \* bound: bytes the keyboard can have queued to send

\* No key has the code 0x60 or 0xE0, of which the release byte would be the
\* prefix E0.
ASSUME KeyAssumption == Key \subseteq 1..255 \ {96, 224}

E0 == 224             \* the prefix byte
KEY_HOME == 224
KEY_DEL == 233

LetterA == 30         \* 0x1E
Enter == 28           \* 0x1C
KeypadDel == 83       \* 0x53
Home == 199           \* 0xC7
Del == 211            \* 0xD3

shiftcode(d) == CASE d \in {29, 157} -> {"CTL"}
                  [] d \in {42, 54}  -> {"SHIFT"}
                  [] d \in {56, 184} -> {"ALT"}
                  [] OTHER           -> {}

togglecode(d) == CASE d = 58 -> {"CAPSLOCK"}
                   [] d = 69 -> {"NUMLOCK"}
                   [] d = 70 -> {"SCROLLLOCK"}
                   [] OTHER  -> {}

\* The entries of the three maps for a letter, Enter, a keypad key and two
\* special keys; NO (0) for the modifier keys.
normalmap(d) == CASE d = LetterA -> 97 [] d = Enter -> 10 [] d = KeypadDel -> 46
                  [] d = Home -> KEY_HOME [] d = Del -> KEY_DEL [] OTHER -> 0
shiftmap(d) == CASE d = LetterA -> 65 [] d = Enter -> 10 [] d = KeypadDel -> 46
                 [] d = Home -> KEY_HOME [] d = Del -> KEY_DEL [] OTHER -> 0
ctlmap(d) == CASE d = LetterA -> 1 [] d = Enter -> 13
               [] d = Del -> KEY_DEL [] OTHER -> 0

\* Seeded fault: Shift wins over Ctrl.
charcodeShiftFirst(sh, d) ==
  IF "SHIFT" \in sh THEN shiftmap(d)
  ELSE IF "CTL" \in sh THEN ctlmap(d)
  ELSE normalmap(d)

charcode(sh, d) ==
  IF "CTL" \in sh THEN ctlmap(d)
  ELSE IF "SHIFT" \in sh THEN shiftmap(d)
  ELSE normalmap(d)

\* Caps Lock swaps the case of a letter.
CapsLocked(c) == CASE c \in 97..122 -> c - 32
                   [] c \in 65..90  -> c + 32
                   [] OTHER         -> c

\* The three branches of kbd_proc_data on a byte, each giving the new `shift`
\* and the character returned (0: none finished).
PrefixByte(sh) == [shift |-> sh \cup {"E0ESC"}, c |-> 0]

\* Seeded fault: the prefix is not forgotten when an extended key goes up.
ReleaseByteKeepsE0(sh, data) ==
  LET d == IF "E0ESC" \in sh THEN data ELSE data - 128
  IN [shift |-> sh \ shiftcode(d), c |-> 0]

ReleaseByte(sh, data) ==
  LET d == IF "E0ESC" \in sh THEN data ELSE data - 128
  IN [shift |-> sh \ (shiftcode(d) \cup {"E0ESC"}), c |-> 0]

PressByte(sh, data) ==
  LET d  == IF "E0ESC" \in sh THEN data + 128 ELSE data
      on == (sh \ {"E0ESC"}) \cup shiftcode(d)
      s  == (on \ togglecode(d)) \cup (togglecode(d) \ on)
      c  == charcode(s, d)
  IN [shift |-> s, c |-> IF "CAPSLOCK" \in s THEN CapsLocked(c) ELSE c]

kbd_proc_data(sh, data) ==
  CASE data = E0   -> PrefixByte(sh)
    [] data >= 128 /\ data # E0 -> ReleaseByte(sh, data)
    [] OTHER       -> PressByte(sh, data)
-----------------------------------------------------------------------------
NoByte == -1

VARIABLES held,      \* the keys that are physically down
          caps,      \* how often Caps Lock was pressed, mod 2
          wire,      \* bytes the keyboard has still to send
          obf,       \* the controller's output buffer: a byte or NoByte
          shift,     \* kbd_proc_data's static
          kc,        \* what kbd_proc_data returned last
          due,       \* history: characters typed and not yet decoded
          chord,     \* history: Del went down while Ctrl and Alt were down
          doubled,   \* history: two keys of one modifier were down at once
          rebooted   \* outb(0x92, 0x3) was executed

deviceVars == <<held, caps, wire, obf>>
kbdVars == <<held, caps, wire, obf, shift, kc, due, chord, doubled, rebooted>>

KbdInit ==
  /\ held = {} /\ caps = FALSE /\ wire = << >> /\ obf = NoByte
  /\ shift = {} /\ kc = 0 /\ rebooted = FALSE
  /\ due = << >> /\ chord = FALSE /\ doubled = FALSE

MakeCode(k) == IF k >= 128 THEN <<E0, k - 128>> ELSE <<k>>
BreakCode(k) == IF k >= 128 THEN <<E0, k>> ELSE <<k + 128>>

Down(flags, keys) == \E k \in keys : flags \cap shiftcode(k) # {}

\* The character that key k types when the keys in `keys` are down and Caps
\* Lock is `lock`: Ctrl wins over Shift, Caps Lock swaps the case of a letter.
Typed(k, keys, lock) ==
  LET ch == IF Down({"CTL"}, keys) THEN ctlmap(k)
            ELSE IF Down({"SHIFT"}, keys) THEN shiftmap(k)
            ELSE normalmap(k)
  IN IF lock THEN CapsLocked(ch) ELSE ch

\* Key k goes down, or repeats while it is held.
PressKey(k) ==
  LET down == held \cup {k}
      lock == IF k = 58 THEN ~caps ELSE caps
      ch   == Typed(k, down, lock)
  IN /\ Len(wire) + 2 <= MaxWire
     /\ held' = down
     /\ caps' = lock
     /\ wire' = wire \o MakeCode(k)
     /\ due' = IF ch = 0 THEN due ELSE Append(due, ch)
     /\ doubled' = (doubled \/ Down(shiftcode(k), held \ {k}))
     /\ chord' = (chord \/ (k = Del /\ Down({"CTL"}, down) /\ Down({"ALT"}, down)))
     /\ UNCHANGED <<obf, shift, kc, rebooted>>

ReleaseKey(k) ==
  /\ k \in held
  /\ Len(wire) + 2 <= MaxWire
  /\ held' = held \ {k}
  /\ wire' = wire \o BreakCode(k)
  /\ UNCHANGED <<caps, obf, shift, kc, due, chord, doubled, rebooted>>

\* A byte reaches the controller's output buffer.
Transfer ==
  /\ wire # << >>
  /\ obf = NoByte
  /\ obf' = Head(wire)
  /\ wire' = Tail(wire)
  /\ UNCHANGED <<held, caps, shift, kc, due, chord, doubled, rebooted>>

\* Seeded fault: `shift & (CTL | ALT)` instead of both bits.
ProcDataAnyModifier ==
  LET r == kbd_proc_data(shift, obf)
  IN /\ obf # NoByte
     /\ ~rebooted
     /\ obf' = NoByte
     /\ shift' = r.shift
     /\ kc' = r.c
     /\ rebooted' = ({"CTL", "ALT"} \cap r.shift # {} /\ r.c = KEY_DEL)
     /\ UNCHANGED <<held, caps, wire, chord, doubled>>

\* kbd_proc_data with KBS_DIB set: read the byte, decode it, reboot the
\* machine on Ctrl-Alt-Del.  (With KBS_DIB clear it returns -1 and changes
\* nothing.)
ProcData ==
  LET r == kbd_proc_data(shift, obf)
  IN /\ obf # NoByte
     /\ ~rebooted
     /\ obf' = NoByte
     /\ shift' = r.shift
     /\ kc' = r.c
     /\ rebooted' = ({"CTL", "ALT"} \subseteq r.shift /\ r.c = KEY_DEL)
     /\ UNCHANGED <<held, caps, wire, chord, doubled>>

\* The same step with its history: a character that is decoded is owed no more.
Decode ==
  /\ ProcData
  /\ due' = IF kc' = 0 \/ due = << >> THEN due ELSE Tail(due)

KbdNext ==
  \/ \E k \in Key : PressKey(k)
  \/ \E k \in Key : ReleaseKey(k)
  \/ Transfer
  \/ Decode

KbdSpec == KbdInit /\ [][KbdNext]_kbdVars
-----------------------------------------------------------------------------
\* kbd_proc_data returns the characters that were typed, with the modifiers
\* that were down when each key went down and in that order, however the bytes
\* of the two-byte codes are spread over the polls.  (As long as nobody held
\* both keys of one modifier: the code forgets it when one of them goes up.)
DecodesAsTyped ==
  [][Decode /\ ~doubled /\ kc' # 0 => due # << >> /\ kc' = Head(due)]_kbdVars

\* Once every byte is decoded no typed character is missing (same proviso).
NothingSwallowed ==
  wire = << >> /\ obf = NoByte /\ ~rebooted /\ ~doubled => due = << >>

\* Once every byte is decoded, `shift` holds no modifier whose keys are all
\* up and no left-over E0 prefix: a modifier cannot get stuck, also with two
\* keys for it and with repeats.
NoStuckModifier ==
  wire = << >> /\ obf = NoByte =>
    /\ "E0ESC" \notin shift
    /\ \A f \in {"SHIFT", "CTL", "ALT"} : f \in shift => Down({f}, held)

\* The machine is rebooted only if somebody pressed Ctrl-Alt-Del.
RebootNeedsChord == rebooted => chord
=============================================================================
