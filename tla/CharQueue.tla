----------------------------- MODULE CharQueue -----------------------------
(***************************************************************************)
(* What the console input buffer of kern/console.c promises its callers:   *)
(* "return the next input character from the console, or 0 if none         *)
(* waiting" (comment above cons_getc).  A first-in first-out queue of the  *)
(* characters the device interrupt routines fed in.                        *)
(***************************************************************************)
EXTENDS Naturals, Sequences

CONSTANT Char        \* the characters a device can feed in (never 0)

NoChar == 0          \* what cons_getc returns when nothing is waiting

VARIABLES queue,     \* characters fed in and not yet returned
          ret        \* what the last cons_getc returned

queueVars == <<queue, ret>>

QueueInit ==
  /\ queue = << >>
  /\ ret = NoChar

\* An interrupt routine feeds in character c.
Feed(c) ==
  /\ queue' = Append(queue, c)
  /\ UNCHANGED ret

\* cons_getc finds a character waiting.
Return ==
  /\ queue # << >>
  /\ ret' = Head(queue)
  /\ queue' = Tail(queue)

\* cons_getc finds nothing.
ReturnNone ==
  /\ queue = << >>
  /\ ret' = NoChar
  /\ UNCHANGED queue

QueueNext ==
  \/ \E c \in Char : Feed(c)
  \/ Return
  \/ ReturnNone

QueueSpec == QueueInit /\ [][QueueNext]_queueVars
=============================================================================
