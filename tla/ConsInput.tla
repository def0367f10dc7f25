----------------------------- MODULE ConsInput -----------------------------
(***************************************************************************)
(* Console input end to end: the serial port and the keyboard feed the     *)
(* circular buffer through cons_intr, which the kernel calls from          *)
(* cons_getc, which getchar calls until a character comes.  Interrupts are *)
(* off (boot.S executes cli and nothing re-enables them), so the devices   *)
(* run concurrently with a kernel that polls them: every step of the       *)
(* polling loops is an action of its own.                                  *)
(*                                                                         *)
(* Outside src/: the UART, with its FIFO turned off by serial_init, holds  *)
(* one received byte; a byte that arrives before it is read replaces it.   *)
(***************************************************************************)
EXTENDS ConsRing, Kbd

CONSTANT SerialByte    \* bytes that arrive on the serial line, NUL included

ASSUME SerialByteAssumption == SerialByte \subseteq 0..255

\* Char is what both devices can send.  They send different characters, so that
\* the histories can tell where one that is returned came from.
ASSUME SourcesAssumption ==
  /\ SerialByte \ {0} \subseteq Char
  /\ \A k \in Key, keys \in SUBSET Key, lock \in BOOLEAN :
       Typed(k, keys, lock) \in (Char \ SerialByte) \cup {0}

VARIABLES serial_exists,
          rx,          \* COM_RX while COM_LSR_DATA is set, else NoByte
          pc,          \* where the kernel is: busy, serial, kbd or fetch
          owed,        \* history: serial characters received, not returned
          quiet        \* the users have gone away for good

inVars == <<ringVars, kbdVars, serial_exists, rx, pc, owed, quiet>>

ConsInit ==
  /\ RingInit
  /\ KbdInit
  /\ serial_exists \in BOOLEAN
  /\ rx = NoByte
  /\ pc = "busy"
  /\ owed = << >>
  /\ quiet = FALSE

Outstanding == Len(due) + Len(owed)

\* The environment assumption: the users leave the kernel, which is in no hurry
\* to call getchar, time to keep up.  Without it cons_intr, which has no test
\* for a full buffer, overwrites what was not returned.
MaySend == ~quiet /\ Outstanding < CONSBUFSIZE - 1
-----------------------------------------------------------------------------
(* The devices. *)

\* The other environment assumption: nobody holds both keys of one modifier down.
\* kbd_proc_data forgets the modifier when one of them goes up, and what is typed
\* then is not what is decoded; Kbd has no such bound.
KeyEvent ==
  /\ MaySend
  /\ \E k \in Key : PressKey(k) \/ ReleaseKey(k)
  /\ ~doubled'
  /\ UNCHANGED <<ringVars, serial_exists, rx, pc, owed, quiet>>

KeyTransfer ==
  /\ Transfer
  /\ UNCHANGED <<ringVars, serial_exists, rx, pc, owed, quiet>>

\* A byte arrives; if the last one was not read yet it is gone.
SerialArrive(b) ==
  LET kept == IF rx \in {NoByte, 0} THEN owed ELSE SubSeq(owed, 1, Len(owed) - 1)
  IN /\ serial_exists
     /\ MaySend
     /\ rx' = b
     /\ owed' = IF b = 0 THEN kept ELSE Append(kept, b)
     /\ UNCHANGED <<ringVars, kbdVars, serial_exists, pc, quiet>>

GoQuiet ==
  /\ ~quiet
  /\ quiet' = TRUE
  /\ UNCHANGED <<ringVars, kbdVars, serial_exists, rx, pc, owed>>
-----------------------------------------------------------------------------
(* The kernel. *)

\* Somebody calls getchar, whose cons_getc starts with serial_intr.
Getchar ==
  /\ pc = "busy" /\ ~rebooted
  /\ pc' = "serial"
  /\ UNCHANGED <<ringVars, kbdVars, serial_exists, rx, owed, quiet>>

\* cons_intr(serial_proc_data) finds a byte: NUL is skipped.
SerialData ==
  /\ pc = "serial" /\ serial_exists /\ rx # NoByte
  /\ rx' = NoByte
  /\ IF rx = 0 THEN UNCHANGED ringVars ELSE Store(rx)
  /\ UNCHANGED <<kbdVars, serial_exists, pc, owed, quiet>>

\* Seeded fault: cons_getc does not call kbd_intr.
SerialNoneSkipsKbd ==
  /\ pc = "serial" /\ (serial_exists => rx = NoByte)
  /\ pc' = "fetch"
  /\ UNCHANGED <<ringVars, kbdVars, serial_exists, rx, owed, quiet>>

\* serial_proc_data returns -1, or there is no serial port.
SerialNone ==
  /\ pc = "serial" /\ (serial_exists => rx = NoByte)
  /\ pc' = "kbd"
  /\ UNCHANGED <<ringVars, kbdVars, serial_exists, rx, owed, quiet>>

\* cons_intr(kbd_proc_data) finds a byte: 0 (no character finished) is skipped.
KbdData ==
  /\ pc = "kbd" /\ ProcData
  /\ IF kc' = 0 THEN UNCHANGED ringVars ELSE Store(kc')
  /\ UNCHANGED <<due, serial_exists, rx, pc, owed, quiet>>

KbdNone ==
  /\ pc = "kbd" /\ obf = NoByte /\ ~rebooted
  /\ pc' = "fetch"
  /\ UNCHANGED <<ringVars, kbdVars, serial_exists, rx, owed, quiet>>

\* The rest of cons_getc with a character waiting: getchar returns it.
GetcChar ==
  /\ pc = "fetch" /\ Fetch
  /\ pc' = "busy"
  /\ IF ret' \in SerialByte
       THEN owed' = (IF owed = << >> THEN owed ELSE Tail(owed)) /\ UNCHANGED due
       ELSE due' = (IF due = << >> THEN due ELSE Tail(due)) /\ UNCHANGED owed
  /\ UNCHANGED <<held, caps, wire, obf, shift, kc, chord, doubled, rebooted,
                 serial_exists, rx, quiet>>

\* cons_getc returns 0 and getchar calls it again.
GetcNone ==
  /\ pc = "fetch" /\ FetchNone
  /\ pc' = "serial"
  /\ UNCHANGED <<kbdVars, serial_exists, rx, owed, quiet>>

Kernel == Getchar \/ SerialData \/ SerialNone \/ KbdData \/ KbdNone
            \/ GetcChar \/ GetcNone

Devices == KeyEvent \/ KeyTransfer \/ GoQuiet
             \/ \E b \in SerialByte : SerialArrive(b)

ConsNext == Kernel \/ Devices

\* The processor keeps executing, and the keyboard keeps sending its bytes.
ConsFairness == WF_inVars(Kernel) /\ WF_inVars(KeyTransfer)

ConsSpec == ConsInit /\ [][ConsNext]_inVars /\ ConsFairness
-----------------------------------------------------------------------------
\* getchar returns the characters of each source in the order in which they
\* were typed or received, whatever the order of device events and polls.
ReturnsInOrder ==
  [][GetcChar => \/ owed # << >> /\ ret' = Head(owed) /\ owed' = Tail(owed)
                 \/ due # << >> /\ ret' = Head(due) /\ due' = Tail(due)]_inVars

\* Every character typed or received is returned once the users fall silent:
\* the polling loops of cons_intr end and none of them starves the other
\* device.
AllReturned == quiet ~> (due = << >> /\ owed = << >>)
=============================================================================
