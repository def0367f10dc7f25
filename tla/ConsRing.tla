------------------------------ MODULE ConsRing ------------------------------
(***************************************************************************)
(* The circular console input buffer of kern/console.c: the struct cons,   *)
(* the loop body of cons_intr that stores a character, and the tail of     *)
(* cons_getc that takes one out.  cons_intr has no test for a full buffer, *)
(* so Store is always enabled; PacedSpec adds the environment assumption   *)
(* under which the buffer works, that the kernel never falls CONSBUFSIZE   *)
(* characters behind.                                                      *)
(***************************************************************************)
EXTENDS Integers, Sequences

CONSTANTS Char,          \* the non-zero values of a uint8_t that can be stored
          CONSBUFSIZE

ASSUME CharAssumption == Char \subseteq 1..255
ASSUME ConsBufSizeAssumption == CONSBUFSIZE \in Nat \ {0}

VARIABLES buf, rpos, wpos,   \* struct cons
          ret                \* what the last cons_getc returned

ringVars == <<buf, rpos, wpos, ret>>

RingInit ==
  /\ buf = [i \in 0..CONSBUFSIZE-1 |-> 0]
  /\ rpos = 0
  /\ wpos = 0
  /\ ret = 0

\* `pos++; if (pos == CONSBUFSIZE) pos = 0`
Advance(pos) == IF pos + 1 = CONSBUFSIZE THEN 0 ELSE pos + 1

\* The body of cons_intr's loop for a character c that is not 0.
Store(c) ==
  /\ buf' = [buf EXCEPT ![wpos] = c]
  /\ wpos' = Advance(wpos)
  /\ UNCHANGED <<rpos, ret>>

\* Seeded faults: no test for an empty buffer, and the position advanced
\* before the character is read.
FetchUnguarded ==
  /\ ret' = buf[rpos]
  /\ rpos' = Advance(rpos)
  /\ UNCHANGED <<buf, wpos>>

FetchPreIncrement ==
  /\ rpos # wpos
  /\ ret' = buf[Advance(rpos)]
  /\ rpos' = Advance(rpos)
  /\ UNCHANGED <<buf, wpos>>

\* The end of cons_getc when the positions differ.
Fetch ==
  /\ rpos # wpos
  /\ ret' = buf[rpos]
  /\ rpos' = Advance(rpos)
  /\ UNCHANGED <<buf, wpos>>

\* The end of cons_getc when they are equal: `return 0`.
FetchNone ==
  /\ rpos = wpos
  /\ ret' = 0
  /\ UNCHANGED <<buf, rpos, wpos>>

RingNext ==
  \/ \E c \in Char : Store(c)
  \/ Fetch
  \/ FetchNone

RingSpec == RingInit /\ [][RingNext]_ringVars
-----------------------------------------------------------------------------
\* How many characters the two positions say are waiting.
Waiting == IF wpos >= rpos THEN wpos - rpos ELSE wpos - rpos + CONSBUFSIZE

\* The slot that holds the k-th character waiting, k counted from 0.
Slot(k) == IF rpos + k < CONSBUFSIZE THEN rpos + k ELSE rpos + k - CONSBUFSIZE

\* The characters waiting, oldest first, read off the struct alone.
Contents == [k \in 1..Waiting |-> buf[Slot(k - 1)]]

\* The environment assumption: one slot is free before a character is stored.
Room == Waiting < CONSBUFSIZE - 1

PacedNext ==
  \/ \E c \in Char : Room /\ Store(c)
  \/ Fetch
  \/ FetchNone

PacedSpec == RingInit /\ [][PacedNext]_ringVars
-----------------------------------------------------------------------------
\* cons.rpos and cons.wpos always index cons.buf, whose slots hold bytes, even
\* when the buffer has overflowed: no store or fetch is out of bounds.
RingTypeOK ==
  /\ buf \in [0..CONSBUFSIZE-1 -> Char \cup {0}]
  /\ rpos \in 0..CONSBUFSIZE-1
  /\ wpos \in 0..CONSBUFSIZE-1
  /\ ret \in Char \cup {0}

\* Every slot between rpos and wpos holds a stored character, so cons_getc
\* answers 0 only when the two positions are equal and getchar never mistakes
\* a buffered character for "none waiting".  Holds with and without overflow.
WaitingAreChars == \A k \in 1..Waiting : Contents[k] \in Char

Queue == INSTANCE CharQueue WITH queue <- Contents

\* While the kernel keeps pace the circular buffer is the queue that the
\* comment above cons_getc promises: characters come out once each, in order,
\* and 0 is returned only when nothing waits.
ImplementsQueue == Queue!QueueSpec
=============================================================================
