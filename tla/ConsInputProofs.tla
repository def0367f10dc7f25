-------------------------- MODULE ConsInputProofs --------------------------
(***************************************************************************)
(* Theorems about console input: the circular buffer, for every size and   *)
(* every set of characters; the keyboard decoder, for every set of keys    *)
(* and however many bytes wait between the keyboard and kbd_proc_data; and *)
(* getchar polling both devices.                                           *)
(***************************************************************************)
EXTENDS ConsInput, SequenceTheorems, TLAPS

(* The circular buffer. *)

\* A position that is in bounds stays in bounds when it is advanced.
LEMMA AdvanceInBounds ==
  ASSUME NEW pos \in 0..CONSBUFSIZE-1
  PROVE  Advance(pos) \in 0..CONSBUFSIZE-1
BY ConsBufSizeAssumption DEF Advance

\* The slots of the waiting characters are slots of the buffer, and the number
\* waiting is always less than CONSBUFSIZE.
LEMMA SlotInBounds ==
  ASSUME RingTypeOK
  PROVE  /\ Waiting \in 0..CONSBUFSIZE-1
         /\ \A k \in 0..CONSBUFSIZE-1 : Slot(k) \in 0..CONSBUFSIZE-1
BY ConsBufSizeAssumption DEF RingTypeOK, Waiting, Slot

\* The slots between rpos and wpos hold stored characters.
SlotsFilled == \A k \in 0..Waiting-1 : buf[Slot(k)] \in Char

\* The inductive invariant of the unrestricted buffer.
RingInv == RingTypeOK /\ SlotsFilled

LEMMA RingInitInv == RingInit => RingInv
BY ConsBufSizeAssumption
   DEF RingInit, RingInv, RingTypeOK, SlotsFilled, Waiting

LEMMA RingStepInv == RingInv /\ [RingNext]_ringVars => RingInv'
<1> SUFFICES ASSUME RingInv, [RingNext]_ringVars PROVE RingInv'
  OBVIOUS
<1>0. RingTypeOK /\ SlotsFilled
  BY DEF RingInv
<1>1. ASSUME NEW c \in Char, Store(c) PROVE RingInv'
  <2>1. RingTypeOK'
    BY <1>0, <1>1, AdvanceInBounds DEF RingTypeOK, Store
  <2>2. SlotsFilled'
    <3> SUFFICES ASSUME NEW k \in 0..Waiting'-1
                 PROVE  buf'[Slot(k)'] \in Char
      BY DEF SlotsFilled
    <3>1. /\ rpos' = rpos /\ rpos \in 0..CONSBUFSIZE-1
          /\ wpos \in 0..CONSBUFSIZE-1 /\ wpos' = Advance(wpos)
          /\ CONSBUFSIZE \in Nat \ {0}
      BY <1>0, <1>1, ConsBufSizeAssumption DEF RingTypeOK, Store
    <3>2. Slot(k)' = Slot(k)
      BY <3>1 DEF Slot
    <3>3. k \in 0..CONSBUFSIZE-1 /\ k <= Waiting
      BY <3>1 DEF Waiting, Advance
    <3>4. CASE k = Waiting
      <4>1. Slot(k) = wpos
        BY <3>1, <3>4 DEF Slot, Waiting
      <4> QED
        BY <1>0, <1>1, <3>1, <3>2, <4>1 DEF RingTypeOK, Store
    <3>5. CASE k # Waiting
      <4>1. k \in 0..Waiting-1 /\ Slot(k) \in 0..CONSBUFSIZE-1
        BY <1>0, <3>3, <3>5, SlotInBounds
      <4>2. Slot(k) # wpos
        BY <3>1, <4>1 DEF Slot, Waiting
      <4> QED
        BY <1>0, <1>1, <3>2, <4>1, <4>2 DEF RingTypeOK, Store, SlotsFilled
    <3> QED
      BY <3>4, <3>5
  <2> QED
    BY <2>1, <2>2 DEF RingInv
<1>2. CASE Fetch
  <2>1. /\ rpos \in 0..CONSBUFSIZE-1 /\ wpos \in 0..CONSBUFSIZE-1
        /\ rpos # wpos /\ wpos' = wpos /\ rpos' = Advance(rpos)
        /\ CONSBUFSIZE \in Nat \ {0} /\ buf' = buf
    BY <1>0, <1>2, ConsBufSizeAssumption DEF RingTypeOK, Fetch
  <2>2. RingTypeOK'
    <3>1. 0 \in 0..Waiting-1 /\ Slot(0) = rpos
      BY <2>1 DEF Waiting, Slot
    <3>2. buf[rpos] \in Char
      BY <1>0, <3>1 DEF SlotsFilled
    <3> QED
      BY <1>0, <1>2, <3>2, AdvanceInBounds DEF RingTypeOK, Fetch
  <2>3. ASSUME NEW k \in 0..Waiting'-1
        PROVE  k + 1 \in 0..Waiting-1 /\ Slot(k)' = Slot(k + 1)
    BY <2>1 DEF Waiting, Slot, Advance
  <2>4. SlotsFilled'
    BY <1>0, <2>1, <2>3 DEF SlotsFilled
  <2> QED
    BY <2>2, <2>4 DEF RingInv
<1>3. CASE FetchNone
  BY <1>0, <1>3 DEF RingInv, RingTypeOK, SlotsFilled, FetchNone, Waiting, Slot
<1>4. CASE UNCHANGED ringVars
  BY <1>0, <1>4 DEF RingInv, RingTypeOK, SlotsFilled, ringVars, Waiting, Slot
<1> QED
  BY <1>1, <1>2, <1>3, <1>4 DEF RingNext

\* The positions stay in bounds and cons_getc returns a byte, whatever the
\* devices feed in, overflow included (cons_intr and cons_getc).
THEOREM RingTypeCorrect == RingSpec => []RingTypeOK
<1>1. RingInv => RingTypeOK
  BY DEF RingInv
<1> QED
  BY <1>1, RingInitInv, RingStepInv, PTL DEF RingSpec

\* No buffered character is ever 0, the value by which cons_getc says that
\* nothing is waiting, so getchar's loop cannot swallow one.
THEOREM WaitingAreCharsCorrect == RingSpec => []WaitingAreChars
<1>1. RingInv => WaitingAreChars
  <2> SUFFICES ASSUME RingInv, NEW k \in 1..Waiting
               PROVE  Contents[k] \in Char
    BY DEF WaitingAreChars
  <2>1. Waiting \in Nat
    BY SlotInBounds, ConsBufSizeAssumption DEF RingInv
  <2>2. k - 1 \in 0..Waiting-1
    BY <2>1
  <2> QED
    BY <2>2 DEF RingInv, SlotsFilled, Contents
<1> QED
  BY <1>1, RingInitInv, RingStepInv, PTL DEF RingSpec
-----------------------------------------------------------------------------
(***************************************************************************)
(* The refinement: with the queue read off the struct by Contents, each    *)
(* paced step of the buffer is a step of CharQueue.                        *)
(***************************************************************************)

\* Two sequences of the same length with the same elements are equal.
LEMMA SameSeq ==
  ASSUME NEW S, NEW s \in Seq(S), NEW t \in Seq(S), Len(s) = Len(t),
         \A i \in 1..Len(s) : s[i] = t[i]
  PROVE  s = t
OBVIOUS

ContentsOK == Contents \in Seq(Char) /\ Len(Contents) = Waiting

LEMMA ContentsIsSeq == RingInv => ContentsOK
<1> SUFFICES ASSUME RingInv
             PROVE  ContentsOK
  OBVIOUS
<1>1. Waiting \in Nat
  BY SlotInBounds, ConsBufSizeAssumption DEF RingInv
<1>2. \A k \in 1..Waiting : k - 1 \in 0..Waiting-1
  BY <1>1
<1>3. \A k \in 1..Waiting : buf[Slot(k - 1)] \in Char
  BY <1>2 DEF RingInv, SlotsFilled
<1> QED
  BY <1>1, <1>3 DEF Contents, ContentsOK

LEMMA StoreIsFeed ==
  ASSUME RingInv, ContentsOK, ContentsOK', Room, NEW c \in Char, Store(c)
  PROVE  Queue!Feed(c)
<1>1. /\ rpos' = rpos /\ rpos \in 0..CONSBUFSIZE-1
      /\ wpos \in 0..CONSBUFSIZE-1 /\ wpos' = Advance(wpos)
      /\ CONSBUFSIZE \in Nat \ {0} /\ Waiting < CONSBUFSIZE - 1
      /\ buf \in [0..CONSBUFSIZE-1 -> Char \cup {0}]
      /\ buf' = [buf EXCEPT ![wpos] = c]
  BY ConsBufSizeAssumption DEF RingInv, RingTypeOK, Store, Room
<1>2. Waiting' = Waiting + 1 /\ Waiting \in Nat
  BY <1>1 DEF Waiting, Advance
<1>3. Contents \in Seq(Char) /\ Len(Contents) = Waiting
  BY DEF ContentsOK
<1>4. Contents' \in Seq(Char) /\ Len(Contents') = Waiting'
  BY DEF ContentsOK
<1>5. ASSUME NEW k \in 1..Waiting+1
      PROVE  Contents'[k] = Append(Contents, c)[k]
  <2>1. Contents'[k] = buf'[Slot(k - 1)']
    BY <1>2 DEF Contents
  <2>2. Slot(k - 1)' = Slot(k - 1)
    BY <1>1 DEF Slot
  <2>3. CASE k = Waiting + 1
    <3>1. Slot(k - 1) = wpos
      BY <1>1, <1>2, <2>3 DEF Slot, Waiting
    <3> QED
      BY <1>1, <1>3, <2>1, <2>2, <2>3, <3>1
  <2>4. CASE k # Waiting + 1
    <3>1. k \in 1..Waiting
      BY <1>2, <2>4
    <3>2. Slot(k - 1) # wpos /\ Slot(k - 1) \in 0..CONSBUFSIZE-1
      BY <1>1, <3>1 DEF Slot, Waiting
    <3>3. Contents[k] = buf[Slot(k - 1)]
      BY <3>1 DEF Contents
    <3>4. Append(Contents, c)[k] = Contents[k]
      BY <1>3, <3>1
    <3> QED
      BY <1>1, <2>1, <2>2, <3>2, <3>3, <3>4
  <2> QED
    BY <2>3, <2>4
<1>6. Append(Contents, c) \in Seq(Char) /\ Len(Append(Contents, c)) = Waiting + 1
  BY <1>2, <1>3
<1>7. Contents' = Append(Contents, c)
  BY <1>2, <1>4, <1>5, <1>6, SameSeq
<1> QED
  BY <1>7 DEF Queue!Feed, Store

LEMMA FetchIsReturn ==
  ASSUME RingInv, ContentsOK, ContentsOK', Fetch
  PROVE  Queue!Return
<1>1. /\ rpos \in 0..CONSBUFSIZE-1 /\ wpos \in 0..CONSBUFSIZE-1
      /\ rpos # wpos /\ wpos' = wpos /\ rpos' = Advance(rpos)
      /\ CONSBUFSIZE \in Nat \ {0} /\ buf' = buf
  BY ConsBufSizeAssumption DEF RingInv, RingTypeOK, Fetch
<1>2. Waiting \in Nat /\ Waiting >= 1 /\ Waiting' = Waiting - 1
  BY <1>1 DEF Waiting, Advance
<1>3. Contents \in Seq(Char) /\ Len(Contents) = Waiting
  BY DEF ContentsOK
<1>4. Contents' \in Seq(Char) /\ Len(Contents') = Waiting'
  BY DEF ContentsOK
<1>5. Contents # << >> /\ Tail(Contents) \in Seq(Char)
        /\ Len(Tail(Contents)) = Waiting - 1
  BY <1>2, <1>3
<1>6. Head(Contents) = buf[rpos]
  <2>1. 1 \in 1..Waiting /\ Slot(1 - 1) = rpos
    BY <1>1, <1>2 DEF Slot
  <2>2. Contents[1] = buf[rpos]
    BY <2>1 DEF Contents
  <2> QED
    BY <1>3, <1>5, <2>2
<1>7. ASSUME NEW k \in 1..Waiting-1
      PROVE  Contents'[k] = Tail(Contents)[k]
  <2>1. k \in 1..Waiting' /\ k + 1 \in 1..Waiting /\ Slot(k - 1)' = Slot(k)
    BY <1>1, <1>2 DEF Slot, Advance, Waiting
  <2>2. Contents'[k] = buf[Slot(k)]
    BY <1>1, <2>1 DEF Contents
  <2>3. Contents[k + 1] = buf[Slot(k)]
    BY <2>1, (k + 1) - 1 = k DEF Contents
  <2>4. Tail(Contents)[k] = Contents[k + 1]
    BY <1>3, <1>5
  <2> QED
    BY <2>2, <2>3, <2>4
<1>8. Contents' = Tail(Contents)
  BY <1>2, <1>4, <1>5, <1>7, SameSeq
<1> QED
  BY <1>5, <1>6, <1>8 DEF Queue!Return, Fetch

LEMMA FetchNoneIsReturnNone ==
  ASSUME RingInv, FetchNone
  PROVE  Queue!ReturnNone
<1>1. Contents = << >>
  <2>1. Waiting = 0
    BY DEF RingInv, RingTypeOK, FetchNone, Waiting
  <2> QED
    BY <2>1, ContentsIsSeq DEF ContentsOK
<1>2. Contents' = Contents
  BY DEF FetchNone, Contents, Waiting, Slot
<1> QED
  BY <1>1, <1>2 DEF Queue!ReturnNone, Queue!NoChar, FetchNone

\* As long as the kernel keeps one slot free, the circular buffer of
\* cons_intr and cons_getc implements the promised queue: no character is
\* lost, duplicated or reordered, and 0 means that nothing is waiting.
THEOREM RingImplementsQueue == PacedSpec => ImplementsQueue
<1>1. RingInit => Queue!QueueInit
  <2> SUFFICES ASSUME RingInit PROVE Queue!QueueInit
    OBVIOUS
  <2>1. Waiting = 0 /\ RingInv
    BY RingInitInv DEF RingInit, Waiting
  <2>2. Contents = << >>
    BY <2>1, ContentsIsSeq DEF ContentsOK
  <2> QED
    BY <2>2 DEF RingInit, Queue!QueueInit, Queue!NoChar
<1>2. [PacedNext]_ringVars => [RingNext]_ringVars
  BY DEF PacedNext, RingNext
<1>3. RingInv /\ ContentsOK /\ ContentsOK' /\ [PacedNext]_ringVars
        => [Queue!QueueNext]_Queue!queueVars
  <2> SUFFICES ASSUME RingInv, ContentsOK, ContentsOK', [PacedNext]_ringVars
               PROVE  [Queue!QueueNext]_Queue!queueVars
    OBVIOUS
  <2>1. ASSUME NEW c \in Char, Room, Store(c) PROVE Queue!QueueNext
    BY <2>1, StoreIsFeed DEF Queue!QueueNext
  <2>2. CASE Fetch
    BY <2>2, FetchIsReturn DEF Queue!QueueNext
  <2>3. CASE FetchNone
    BY <2>3, FetchNoneIsReturnNone DEF Queue!QueueNext
  <2>4. CASE UNCHANGED ringVars
    BY <2>4 DEF ringVars, Queue!queueVars, Contents, Waiting, Slot
  <2> QED
    BY <2>1, <2>2, <2>3, <2>4 DEF PacedNext
<1> QED
  BY <1>1, <1>2, <1>3, RingInitInv, RingStepInv, ContentsIsSeq, PTL
     DEF PacedSpec, ImplementsQueue, Queue!QueueSpec
-----------------------------------------------------------------------------
(***************************************************************************)
(* The keyboard decoder.                                                   *)
(***************************************************************************)

Byte == 0..255
Modifier == {"SHIFT", "CTL", "ALT"}
Flag == Modifier \cup {"CAPSLOCK", "NUMLOCK", "SCROLLLOCK", "E0ESC"}

\* The test of kbd_proc_data before it reboots.
CtrlAltDel(r) == {"CTL", "ALT"} \subseteq r.shift /\ r.c = KEY_DEL

\* Decoding the bytes P from the modifiers s returns the characters d and ends
\* with the modifiers e; x if the machine is rebooted on the way.  sh are the
\* modifiers after each byte, q the number of characters.
Decoding(P, s, d, e, x, sh, q) ==
  /\ sh \in [0..Len(P) -> SUBSET Flag] /\ q \in [0..Len(P) -> Nat]
  /\ sh[0] = s /\ q[0] = 0 /\ sh[Len(P)] = e /\ q[Len(P)] = Len(d)
  /\ \A m, n \in 0..Len(P) : m <= n => q[m] <= q[n]
  /\ \A n \in 1..Len(P) :
       LET r == kbd_proc_data(sh[n-1], P[n])
       IN /\ sh[n] = r.shift /\ (CtrlAltDel(r) => x = TRUE)
          /\ r.c = 0 => q[n] = q[n-1]
          /\ r.c # 0 => q[n] = q[n-1] + 1 /\ d[q[n]] = r.c

Yields(P, s, d, e, x) == \E sh, q : Decoding(P, s, d, e, x, sh, q)

LEMMA CodesAre ==
  \A k : /\ shiftcode(k) \in SUBSET Modifier
         /\ togglecode(k) \in SUBSET {"CAPSLOCK", "NUMLOCK", "SCROLLLOCK"}
         /\ "CAPSLOCK" \in togglecode(k) <=> k = 58
BY DEF shiftcode, togglecode, Modifier

LEMMA CharsAre ==
  \A k : /\ normalmap(k) \in Nat /\ shiftmap(k) \in Nat /\ ctlmap(k) \in Nat
         /\ KEY_DEL \in {normalmap(k), shiftmap(k), ctlmap(k)} => k = Del
         /\ \A c \in {normalmap(k), shiftmap(k), ctlmap(k)} :
              CapsLocked(c) \in Nat /\ (CapsLocked(c) = KEY_DEL => c = KEY_DEL)
BY DEF normalmap, shiftmap, ctlmap, CapsLocked, KEY_DEL, KEY_HOME, Del, LetterA, Enter,
       KeypadDel, Home

\* What kbd_proc_data does is defined for every byte.
LEMMA DecodeIs ==
  ASSUME NEW s \in SUBSET Flag, NEW b \in Byte
  PROVE  /\ b = E0 => kbd_proc_data(s, b) = PrefixByte(s)
         /\ b >= 128 /\ b # E0 => kbd_proc_data(s, b) = ReleaseByte(s, b)
         /\ b < 128 => kbd_proc_data(s, b) = PressByte(s, b)
BY DEF kbd_proc_data, Byte, E0
\* A result of kbd_proc_data.
LEMMA DecodeType ==
  ASSUME NEW s \in SUBSET Flag, NEW b \in Byte
  PROVE  kbd_proc_data(s, b) \in [shift : SUBSET Flag, c : Nat]
<1>1. CASE b = E0
  BY <1>1, DecodeIs DEF PrefixByte, Flag
<1>2. CASE b >= 128 /\ b # E0
  <2> DEFINE d == IF "E0ESC" \in s THEN b ELSE b - 128
  <2>1. kbd_proc_data(s, b) = [shift |-> s \ (shiftcode(d) \cup {"E0ESC"}), c |-> 0]
    BY <1>2, DecodeIs DEF ReleaseByte
  <2> HIDE DEF d
  <2> QED
    BY <2>1
<1>3. CASE b < 128
  <2>1. kbd_proc_data(s, b) = PressByte(s, b)
    BY <1>3, DecodeIs
  <2> DEFINE d  == IF "E0ESC" \in s THEN b + 128 ELSE b
             on == (s \ {"E0ESC"}) \cup shiftcode(d)
             u  == (on \ togglecode(d)) \cup (togglecode(d) \ on)
             c  == charcode(u, d)
  <2>2. PressByte(s, b) = [shift |-> u, c |-> IF "CAPSLOCK" \in u THEN CapsLocked(c) ELSE c]
    BY DEF PressByte
  <2>3. on \in SUBSET Flag
    BY CodesAre DEF Flag
  <2>4. u \in SUBSET Flag
    BY <2>3, CodesAre DEF Flag
  <2>5. c \in {normalmap(d), shiftmap(d), ctlmap(d)}
    BY DEF charcode
  <2> HIDE DEF u, c, d
  <2>6. (IF "CAPSLOCK" \in u THEN CapsLocked(c) ELSE c) \in Nat
    BY <2>5, CharsAre
  <2> QED
    BY <2>1, <2>2, <2>4, <2>6
<1> QED
  BY <1>1, <1>2, <1>3 DEF Byte, E0

\* One byte more.
LEMMA AddByte ==
  ASSUME NEW P \in Seq(Byte), NEW s, NEW d \in Seq(Nat), NEW e, NEW x, Yields(P, s, d, e, x),
         NEW b \in Byte, NEW f, f = kbd_proc_data(e, b).shift,
         NEW d2, d2 = (IF kbd_proc_data(e, b).c = 0 THEN d ELSE Append(d, kbd_proc_data(e, b).c)),
         NEW y, x = TRUE => y = TRUE, CtrlAltDel(kbd_proc_data(e, b)) => y = TRUE
  PROVE  Yields(Append(P, b), s, d2, f, y)
<1>0. PICK r : r = kbd_proc_data(e, b)
  OBVIOUS
<1>1. PICK sh, q : Decoding(P, s, d, e, x, sh, q)
  BY DEF Yields
<1> DEFINE L == Len(P)
           Q == Append(P, b)
           sh2 == [n \in 0..L+1 |-> IF n <= L THEN sh[n] ELSE r.shift]
           q2 == [n \in 0..L+1 |-> IF n <= L THEN q[n] ELSE Len(d2)]
<1>2. /\ L \in Nat /\ Len(Q) = L + 1 /\ Q[L + 1] = b /\ \A n \in 1..L : Q[n] = P[n]
  OBVIOUS
<1>3. /\ sh \in [0..L -> SUBSET Flag] /\ q \in [0..L -> Nat]
      /\ sh[0] = s /\ q[0] = 0 /\ sh[L] = e /\ q[L] = Len(d)
  BY <1>1 DEF Decoding
<1>4. e \in SUBSET Flag
  <2>1. L \in 0..L
    BY <1>2
  <2> QED
    BY <1>3, <2>1
<1>5. r.shift \in SUBSET Flag /\ r.c \in Nat
  BY <1>0, <1>4, DecodeType
<1>6. d2 \in Seq(Nat) /\ Len(d2) \in Nat /\ (\A m \in 1..Len(d) : d2[m] = d[m])
      /\ (r.c = 0 => Len(d2) = Len(d)) /\ (r.c # 0 => Len(d2) = Len(d) + 1 /\ d2[Len(d) + 1] = r.c)
  BY <1>0, <1>5
<1> HIDE DEF L, Q
<1>7. sh2 \in [0..L+1 -> SUBSET Flag] /\ q2 \in [0..L+1 -> Nat]
  BY <1>2, <1>3, <1>5, <1>6
<1>8. /\ sh2[0] = s /\ q2[0] = 0 /\ sh2[L+1] = r.shift /\ q2[L+1] = Len(d2)
      /\ \A n \in 0..L : sh2[n] = sh[n] /\ q2[n] = q[n]
  BY <1>2, <1>3
<1> HIDE DEF sh2, q2
<1>9. \A n \in 1..L :
        LET u == kbd_proc_data(sh[n-1], P[n])
        IN /\ sh[n] = u.shift /\ (CtrlAltDel(u) => x = TRUE)
           /\ u.c = 0 => q[n] = q[n-1]
           /\ u.c # 0 => q[n] = q[n-1] + 1 /\ d[q[n]] = u.c
  BY <1>1 DEF Decoding, L
<1>10. \A m, n \in 0..L : m <= n => q[m] <= q[n]
  BY <1>1 DEF Decoding, L
<1>11. \A m, n \in 0..L+1 : m <= n => q2[m] <= q2[n]
  <2> SUFFICES ASSUME NEW m \in 0..L+1, NEW n \in 0..L+1, m <= n PROVE q2[m] <= q2[n]
    OBVIOUS
  <2>1. CASE n <= L
    BY <1>2, <1>8, <1>10, <2>1
  <2>2. CASE n = L + 1 /\ m <= L
    <3>1. q[m] <= q[L] /\ q[m] \in Nat /\ q2[m] = q[m]
      BY <1>2, <1>3, <1>8, <1>10, <2>2
    <3>2. q[L] <= Len(d2)
      BY <1>3, <1>5, <1>6
    <3> QED
      BY <1>3, <1>6, <1>8, <2>2, <3>1, <3>2
  <2>3. CASE n = L + 1 /\ m = L + 1
    BY <1>7, <2>3
  <2> QED
    BY <1>2, <2>1, <2>2, <2>3
<1>12. ASSUME NEW n \in 1..L+1
       PROVE  LET u == kbd_proc_data(sh2[n-1], Q[n])
              IN /\ sh2[n] = u.shift /\ (CtrlAltDel(u) => y = TRUE)
                 /\ u.c = 0 => q2[n] = q2[n-1]
                 /\ u.c # 0 => q2[n] = q2[n-1] + 1 /\ d2[q2[n]] = u.c
  <2>1. CASE n \in 1..L
    <3>1. n - 1 \in 0..L /\ n \in 0..L
      BY <1>2, <2>1
    <3>2. /\ sh2[n-1] = sh[n-1] /\ Q[n] = P[n] /\ sh2[n] = sh[n]
          /\ q2[n] = q[n] /\ q2[n-1] = q[n-1]
      BY <1>2, <1>8, <2>1, <3>1
    <3>3. q[n-1] \in Nat /\ q[n] \in Nat /\ q[n] <= Len(d)
      BY <1>2, <1>3, <1>10, <3>1
    <3>4. q[n] = q[n-1] + 1 => q[n] \in 1..Len(d)
      BY <3>3
    <3> QED
      BY <1>6, <1>9, <2>1, <3>2, <3>4
  <2>2. CASE n = L + 1
    <3>1. n - 1 = L /\ L \in 0..L
      BY <1>2, <2>2
    <3>2. sh2[n-1] = e /\ Q[n] = b /\ sh2[n] = r.shift /\ q2[n] = Len(d2) /\ q2[n-1] = Len(d)
      BY <1>2, <1>3, <1>8, <2>2, <3>1
    <3> QED
      BY <1>0, <1>6, <3>2
  <2>3. n \in 1..L \/ n = L + 1
    BY <1>2
  <2> QED
    BY <2>1, <2>2, <2>3, Zenon
<1>13. Decoding(Q, s, d2, r.shift, y, sh2, q2)
  BY <1>2, <1>7, <1>8, <1>11, <1>12 DEF Decoding
<1> QED
  BY <1>0, <1>13 DEF Yields, Q
\* The first byte of P decodes to r, and d2 is to come from the others.
Eats(P, d, e, x, r, d2) ==
  /\ CtrlAltDel(r) => x = TRUE
  /\ r.c # 0 => d # << >> /\ r.c = Head(d)
  /\ Yields(Tail(P), r.shift, d2, e, x)

\* One byte less.
LEMMA EatByte ==
  ASSUME NEW P \in Seq(Byte), NEW s, NEW d \in Seq(Nat), NEW e, NEW x, Yields(P, s, d, e, x),
         P # << >>, NEW r, r = kbd_proc_data(s, Head(P)),
         NEW d2, d2 = (IF r.c = 0 THEN d ELSE Tail(d))
  PROVE  Eats(P, d, e, x, r, d2)
<1>1. PICK sh, q : Decoding(P, s, d, e, x, sh, q)
  BY DEF Yields
<1> DEFINE L == Len(P) - 1
           Q == Tail(P)
           sh2 == [n \in 0..L |-> sh[n + 1]]
           q2 == [n \in 0..L |-> q[n + 1] - q[1]]
<1>2. /\ L \in Nat /\ Len(Q) = L /\ Len(P) = L + 1 /\ \A n \in 1..L : Q[n] = P[n + 1]
      /\ Head(P) = P[1]
  OBVIOUS
<1>3. /\ sh \in [0..L+1 -> SUBSET Flag] /\ q \in [0..L+1 -> Nat]
      /\ sh[0] = s /\ q[0] = 0 /\ sh[L+1] = e /\ q[L+1] = Len(d)
      /\ \A m, n \in 0..L+1 : m <= n => q[m] <= q[n]
  BY <1>1, <1>2 DEF Decoding
<1>4. \A n \in 1..L+1 :
        LET u == kbd_proc_data(sh[n-1], P[n])
        IN /\ sh[n] = u.shift /\ (CtrlAltDel(u) => x = TRUE)
           /\ u.c = 0 => q[n] = q[n-1]
           /\ u.c # 0 => q[n] = q[n-1] + 1 /\ d[q[n]] = u.c
  BY <1>1, <1>2 DEF Decoding
<1> HIDE DEF L, Q
<1>5. /\ sh[1] = r.shift /\ (CtrlAltDel(r) => x = TRUE)
      /\ r.c = 0 => q[1] = 0
      /\ r.c # 0 => q[1] = 1 /\ d[1] = r.c
  <2>1. 1 \in 1..L+1 /\ 1 - 1 = 0 /\ 0 + 1 = 1
    BY <1>2
  <2> QED
    BY <1>2, <1>3, <1>4, <2>1
<1>6. q[1] \in Nat /\ Len(d) \in Nat /\ q[1] <= Len(d) /\ \A n \in 0..L : q[n + 1] \in Nat /\ q[1] <= q[n + 1]
  BY <1>2, <1>3
<1>7. r.c # 0 => d # << >> /\ r.c = Head(d)
  BY <1>5, <1>6
<1>8. Len(d2) = Len(d) - q[1] /\ \A m \in 1..Len(d2) : d2[m] = d[m + q[1]]
  <2>1. CASE r.c = 0
    BY <1>5, <1>6, <2>1
  <2>2. CASE r.c # 0
    BY <1>5, <1>7, <2>2
  <2> QED
    BY <2>1, <2>2
<1>9. /\ sh2 \in [0..L -> SUBSET Flag] /\ q2 \in [0..L -> Nat]
  BY <1>2, <1>3, <1>6
<1>10. /\ sh2[0] = r.shift /\ q2[0] = 0 /\ sh2[L] = e /\ q2[L] = Len(d2)
       /\ \A n \in 0..L : sh2[n] = sh[n + 1] /\ q2[n] = q[n + 1] - q[1]
  BY <1>2, <1>3, <1>5, <1>6, <1>8
<1> HIDE DEF sh2, q2
<1>11. \A m, n \in 0..L : m <= n => q2[m] <= q2[n]
  <2> SUFFICES ASSUME NEW m \in 0..L, NEW n \in 0..L, m <= n PROVE q2[m] <= q2[n]
    OBVIOUS
  <2>1. m + 1 \in 0..L+1 /\ n + 1 \in 0..L+1 /\ m + 1 <= n + 1
    BY <1>2
  <2>2. q[m + 1] <= q[n + 1]
    BY <1>3, <2>1
  <2>3. q2[m] = q[m + 1] - q[1] /\ q2[n] = q[n + 1] - q[1]
    BY <1>10
  <2>4. q[1] \in Nat /\ q[m + 1] \in Nat /\ q[n + 1] \in Nat
    BY <1>6
  <2> QED
    BY <2>2, <2>3, <2>4
<1>12. ASSUME NEW n \in 1..L
       PROVE  LET u == kbd_proc_data(sh2[n-1], Q[n])
              IN /\ sh2[n] = u.shift /\ (CtrlAltDel(u) => x = TRUE)
                 /\ u.c = 0 => q2[n] = q2[n-1]
                 /\ u.c # 0 => q2[n] = q2[n-1] + 1 /\ d2[q2[n]] = u.c
  <2>1. PICK k : k = n + 1 /\ k \in 1..L+1 /\ k - 1 = n
    BY <1>2
  <2>2. n - 1 \in 0..L /\ n \in 0..L /\ n - 1 + 1 = n
    BY <1>2
  <2>3. /\ sh2[n-1] = sh[k-1] /\ Q[n] = P[k] /\ sh2[n] = sh[k]
        /\ q2[n] = q[k] - q[1] /\ q2[n-1] = q[k-1] - q[1]
    BY <1>2, <1>10, <2>1, <2>2
  <2>4. q[k] \in Nat /\ q[k-1] \in Nat /\ q[1] <= q[k-1] /\ q[k] <= Len(d)
    BY <1>2, <1>3, <1>6, <2>1, <2>2
  <2> DEFINE u == kbd_proc_data(sh[k-1], P[k])
  <2>5. /\ sh[k] = u.shift /\ (CtrlAltDel(u) => x = TRUE)
        /\ u.c = 0 => q[k] = q[k-1]
        /\ u.c # 0 => q[k] = q[k-1] + 1 /\ d[q[k]] = u.c
    BY <1>4, <2>1
  <2> HIDE DEF u
  <2>6. u.c = 0 => q2[n] = q2[n-1]
    BY <2>3, <2>5
  <2>7. ASSUME u.c # 0 PROVE q2[n] = q2[n-1] + 1 /\ d2[q2[n]] = u.c
    <3>1. q2[n] = q2[n-1] + 1 /\ q2[n] + q[1] = q[k] /\ q2[n] \in 1..Len(d2)
      <4>1. PICK g, h, i, j : g = q[1] /\ h = q[k-1] /\ i = q[k] /\ j = Len(d)
        OBVIOUS
      <4>2. /\ g \in Nat /\ h \in Nat /\ i \in Nat /\ j \in Nat /\ g <= h /\ i <= j /\ i = h + 1
            /\ Len(d2) = j - g /\ q2[n] = i - g /\ q2[n-1] = h - g
        BY <1>6, <1>8, <2>3, <2>4, <2>5, <2>7, <4>1
      <4>3. i - g = h - g + 1 /\ i - g + g = i /\ i - g \in 1..(j - g)
        BY <4>2
      <4> QED
        BY <4>1, <4>2, <4>3
    <3> QED
      BY <1>8, <2>5, <2>7, <3>1
  <2>8. u = kbd_proc_data(sh2[n-1], Q[n])
    BY <2>3 DEF u
  <2> QED
    BY <2>3, <2>5, <2>6, <2>7, <2>8
<1>13. Decoding(Q, r.shift, d2, e, x, sh2, q2)
  BY <1>2, <1>9, <1>10, <1>11, <1>12 DEF Decoding
<1> QED
  BY <1>5, <1>7, <1>13 DEF Eats, Yields, Q
\* The modifiers and the character that a key gives when no prefix is pending.
Pressed(e, k) ==
  LET on == e \cup shiftcode(k)
      u  == (on \ togglecode(k)) \cup (togglecode(k) \ on)
      c  == charcode(u, k)
  IN [shift |-> u, c |-> IF "CAPSLOCK" \in u THEN CapsLocked(c) ELSE c]

LEMMA PressIs ==
  ASSUME NEW f, NEW b, NEW k, k = (IF "E0ESC" \in f THEN b + 128 ELSE b),
         NEW e, e = f \ {"E0ESC"}
  PROVE  PressByte(f, b) = Pressed(e, k)
BY DEF PressByte, Pressed

LEMMA ReleaseIs ==
  ASSUME NEW f, NEW b, NEW k, k = (IF "E0ESC" \in f THEN b ELSE b - 128)
  PROVE  ReleaseByte(f, b) = [shift |-> f \ (shiftcode(k) \cup {"E0ESC"}), c |-> 0]
BY Zenon DEF ReleaseByte

\* A byte that gives no character.
LEMMA AddSilent ==
  ASSUME NEW P \in Seq(Byte), NEW s, NEW d \in Seq(Nat), NEW e, NEW x, Yields(P, s, d, e, x),
         NEW b \in Byte, NEW f, kbd_proc_data(e, b) = [shift |-> f, c |-> 0]
  PROVE  Yields(Append(P, b), s, d, f, x)
<1>1. PICK r : r = kbd_proc_data(e, b)
  OBVIOUS
<1>2. f = r.shift /\ r.c = 0 /\ ~CtrlAltDel(r)
  BY <1>1 DEF CtrlAltDel, KEY_DEL
<1>3. PICK d2, y : d2 = d /\ y = x
  OBVIOUS
<1>4. d2 = (IF r.c = 0 THEN d ELSE Append(d, r.c)) /\ (x = TRUE => y = TRUE)
  BY <1>2, <1>3
<1>5. Yields(Append(P, b), s, d2, f, y)
  BY <1>1, <1>2, <1>4, AddByte
<1> QED
  BY <1>3, <1>5

\* The code of a key that goes down, whole.
LEMMA MakeYields ==
  ASSUME NEW P \in Seq(Byte), NEW s, NEW d \in Seq(Nat), NEW e \in SUBSET Flag, NEW x,
         Yields(P, s, d, e, x), "E0ESC" \notin e, NEW k \in Key,
         NEW r, r = Pressed(e, k), NEW y, x = TRUE => y = TRUE, CtrlAltDel(r) => y = TRUE
  PROVE  /\ P \o MakeCode(k) \in Seq(Byte)
         /\ \A d2 : d2 = (IF r.c = 0 THEN d ELSE Append(d, r.c)) =>
              Yields(P \o MakeCode(k), s, d2, r.shift, y)
<1>1. k \in 1..255
  BY KeyAssumption
<1>2. CASE k < 128
  <2>1. k \in Byte /\ P \o MakeCode(k) = Append(P, k)
    BY <1>1, <1>2 DEF MakeCode, Byte
  <2>2. kbd_proc_data(e, k) = PressByte(e, k)
    BY <1>2, <2>1, DecodeIs
  <2>3. PressByte(e, k) = Pressed(e, k)
    <3>1. (IF "E0ESC" \in e THEN k + 128 ELSE k) = k /\ e \ {"E0ESC"} = e
      OBVIOUS
    <3> QED
      BY <3>1, PressIs
  <2>4. Append(P, k) \in Seq(Byte)
    BY <2>1
  <2> QED
    <3>1. r = kbd_proc_data(e, k)
      BY <2>2, <2>3, Zenon
    <3>2. ASSUME NEW d2, d2 = (IF r.c = 0 THEN d ELSE Append(d, r.c))
          PROVE  Yields(Append(P, k), s, d2, r.shift, y)
      BY <2>1, <3>1, <3>2, AddByte
    <3> QED
      BY <2>1, <2>4, <3>2, Zenon
<1>3. CASE k >= 128
  <2>1. /\ E0 \in Byte /\ k - 128 \in Byte /\ k - 128 < 128 /\ k - 128 + 128 = k
        /\ P \o MakeCode(k) = Append(Append(P, E0), k - 128)
    BY <1>1, <1>3 DEF MakeCode, Byte, E0
  <2>2. kbd_proc_data(e, E0) = [shift |-> e \cup {"E0ESC"}, c |-> 0]
    BY <2>1, DecodeIs DEF PrefixByte
  <2>3. Yields(Append(P, E0), s, d, e \cup {"E0ESC"}, x)
    BY <2>1, <2>2, AddSilent
  <2>4. kbd_proc_data(e \cup {"E0ESC"}, k - 128) = PressByte(e \cup {"E0ESC"}, k - 128)
    BY <2>1, DecodeIs DEF Flag
  <2>5. PressByte(e \cup {"E0ESC"}, k - 128) = Pressed(e, k)
    <3>1. /\ (IF "E0ESC" \in e \cup {"E0ESC"} THEN k - 128 + 128 ELSE k - 128) = k
          /\ (e \cup {"E0ESC"}) \ {"E0ESC"} = e
      BY <2>1
    <3> QED
      BY <3>1, PressIs
  <2>6. Append(P, E0) \in Seq(Byte) /\ Append(Append(P, E0), k - 128) \in Seq(Byte)
    BY <2>1
  <2> QED
    <3>1. r = kbd_proc_data(e \cup {"E0ESC"}, k - 128)
      BY <2>4, <2>5, Zenon
    <3>2. ASSUME NEW d2, d2 = (IF r.c = 0 THEN d ELSE Append(d, r.c))
          PROVE  Yields(Append(Append(P, E0), k - 128), s, d2, r.shift, y)
      <4>1. PICK P2, f, b : P2 = Append(P, E0) /\ f = e \cup {"E0ESC"} /\ b = k - 128
        OBVIOUS
      <4>2. P2 \in Seq(Byte) /\ b \in Byte /\ Yields(P2, s, d, f, x) /\ r = kbd_proc_data(f, b)
        BY <2>1, <2>3, <2>6, <3>1, <4>1
      <4>3. Yields(Append(P2, b), s, d2, r.shift, y)
        BY <3>2, <4>2, AddByte
      <4> QED
        BY <4>1, <4>3
    <3> QED
      BY <2>1, <2>6, <3>2, Zenon
<1> QED
  BY <1>1, <1>2, <1>3

\* The code of a key that goes up, whole.
LEMMA BreakYields ==
  ASSUME NEW P \in Seq(Byte), NEW s, NEW d \in Seq(Nat), NEW e \in SUBSET Flag, NEW x,
         Yields(P, s, d, e, x), "E0ESC" \notin e, NEW k \in Key
  PROVE  /\ P \o BreakCode(k) \in Seq(Byte)
         /\ Yields(P \o BreakCode(k), s, d, e \ shiftcode(k), x)
<1>1. k \in 1..255 /\ k # 96 /\ k # 224
  BY KeyAssumption
<1>2. CASE k < 128
  <2>1. /\ k + 128 \in Byte /\ k + 128 # E0 /\ k + 128 >= 128 /\ k + 128 - 128 = k
        /\ P \o BreakCode(k) = Append(P, k + 128)
    BY <1>1, <1>2 DEF BreakCode, Byte, E0
  <2>2. kbd_proc_data(e, k + 128) = ReleaseByte(e, k + 128)
    BY <2>1, DecodeIs
  <2>3. ReleaseByte(e, k + 128) = [shift |-> e \ (shiftcode(k) \cup {"E0ESC"}), c |-> 0]
    <3>1. PICK b : b = k + 128
      OBVIOUS
    <3>2. k = b - 128
      BY <1>1, <3>1
    <3>3. ReleaseByte(e, b) = [shift |-> e \ (shiftcode(k) \cup {"E0ESC"}), c |-> 0]
      BY <3>2, ReleaseIs, Zenon
    <3> QED
      BY <3>1, <3>3
  <2>4. e \ (shiftcode(k) \cup {"E0ESC"}) = e \ shiftcode(k)
    OBVIOUS
  <2>5. Append(P, k + 128) \in Seq(Byte)
    BY <2>1
  <2>6. kbd_proc_data(e, k + 128) = [shift |-> e \ shiftcode(k), c |-> 0]
    BY <2>2, <2>3, <2>4, Zenon
  <2>7. Yields(Append(P, k + 128), s, d, e \ shiftcode(k), x)
    BY <2>1, <2>6, AddSilent
  <2> QED
    BY <2>1, <2>5, <2>7
<1>3. CASE k >= 128
  <2>1. /\ E0 \in Byte /\ k \in Byte /\ k # E0
        /\ P \o BreakCode(k) = Append(Append(P, E0), k)
    BY <1>1, <1>3 DEF BreakCode, Byte, E0
  <2>2. kbd_proc_data(e, E0) = [shift |-> e \cup {"E0ESC"}, c |-> 0]
    BY <2>1, DecodeIs DEF PrefixByte
  <2>3. PICK f : f = e \cup {"E0ESC"} /\ f \in SUBSET Flag
    BY DEF Flag
  <2>4. Yields(Append(P, E0), s, d, f, x)
    BY <2>1, <2>2, <2>3, AddSilent
  <2>5. kbd_proc_data(f, k) = ReleaseByte(f, k)
    BY <1>3, <2>1, <2>3, DecodeIs
  <2>6. ReleaseByte(f, k) = [shift |-> f \ (shiftcode(k) \cup {"E0ESC"}), c |-> 0]
    BY <2>3, ReleaseIs
  <2>7. f \ (shiftcode(k) \cup {"E0ESC"}) = e \ shiftcode(k)
    BY <2>3
  <2>8. Append(P, E0) \in Seq(Byte) /\ Append(Append(P, E0), k) \in Seq(Byte)
    BY <2>1
  <2>9. kbd_proc_data(f, k) = [shift |-> e \ shiftcode(k), c |-> 0]
    BY <2>5, <2>6, <2>7, Zenon
  <2>10. Yields(Append(Append(P, E0), k), s, d, e \ shiftcode(k), x)
    BY <2>1, <2>4, <2>8, <2>9, AddSilent
  <2> QED
    BY <2>1, <2>8, <2>10
<1> QED
  BY <1>1, <1>2, <1>3
-----------------------------------------------------------------------------
\* The bytes between the keyboard and kbd_proc_data, the oldest first.
Pending == IF obf = NoByte THEN wire ELSE <<obf>> \o wire

KbdTypes ==
  /\ held \subseteq Key /\ caps \in BOOLEAN
  /\ wire \in Seq(Byte) /\ obf \in Byte \cup {NoByte}
  /\ shift \in SUBSET Flag
  /\ chord \in BOOLEAN /\ doubled \in BOOLEAN /\ rebooted \in BOOLEAN

\* Every modifier in e has a key that is down.
Backed(e) == \A f \in Modifier : f \in e => Down({f}, held)

\* While no modifier had two keys down: every modifier that is down is in e,
\* Caps Lock is as it was pressed, no two keys that are down share a modifier.
Exact(e) ==
  /\ \A f \in Modifier : Down({f}, held) => f \in e
  /\ "CAPSLOCK" \in e <=> caps
  /\ \A j, k \in held : j # k => shiftcode(j) \cap shiftcode(k) = {}

\* What the decoder will have done once it has read every pending byte: it has
\* returned the characters d and its modifiers are e.
Ahead(d, e) ==
  /\ Yields(Pending, shift, d, e, chord)
  /\ "E0ESC" \notin e
  /\ Backed(e)
  /\ ~doubled => Exact(e)

LEMMA KbdInitAhead ==
  KbdInit => KbdTypes /\ Ahead(<< >>, {}) /\ Pending = << >>
<1> SUFFICES ASSUME KbdInit PROVE KbdTypes /\ Ahead(<< >>, {}) /\ Pending = << >>
  OBVIOUS
<1>1. KbdTypes
  <2>1. wire \in Seq(Byte)
    BY DEF KbdInit
  <2> QED
    BY <2>1, Zenon DEF KbdInit, KbdTypes
<1>2. Pending = << >> /\ shift = {} /\ held = {} /\ caps = FALSE
  BY DEF KbdInit, Pending
<1>3. Decoding(<< >>, {}, << >>, {}, chord, [n \in 0..0 |-> {}], [n \in 0..0 |-> 0])
  BY DEF Decoding
<1>4. Ahead(<< >>, {})
  <2>1. Yields(Pending, shift, << >>, {}, chord)
    BY <1>2, <1>3 DEF Yields
  <2> QED
    BY <1>2, <2>1 DEF Ahead, Backed, Exact, Down
<1> QED
  BY <1>1, <1>2, <1>4

\* A key's modifier is down with the key.
LEMMA DownWith ==
  ASSUME NEW keys, NEW k, NEW f
  PROVE  Down({f}, keys \cup {k}) <=> Down({f}, keys) \/ f \in shiftcode(k)
BY DEF Down

\* The modifiers after a key went down, and its character.
LEMMA PressedIs ==
  ASSUME NEW e \in SUBSET Flag, "E0ESC" \notin e, NEW k, NEW r, r = Pressed(e, k)
  PROVE  /\ r.shift \in SUBSET Flag /\ "E0ESC" \notin r.shift
         /\ \A f \in Modifier : f \in r.shift <=> f \in e \/ f \in shiftcode(k)
         /\ "CAPSLOCK" \in r.shift <=> (IF k = 58 THEN "CAPSLOCK" \notin e ELSE "CAPSLOCK" \in e)
         /\ \E c : /\ c = (IF "CTL" \in r.shift THEN ctlmap(k)
                           ELSE IF "SHIFT" \in r.shift THEN shiftmap(k) ELSE normalmap(k))
                   /\ r.c = (IF "CAPSLOCK" \in r.shift THEN CapsLocked(c) ELSE c)
<1> DEFINE on == e \cup shiftcode(k)
           u  == (on \ togglecode(k)) \cup (togglecode(k) \ on)
           c  == charcode(u, k)
<1>1. r.shift = u /\ r.c = (IF "CAPSLOCK" \in u THEN CapsLocked(c) ELSE c)
  BY DEF Pressed
<1>2. c = (IF "CTL" \in u THEN ctlmap(k) ELSE IF "SHIFT" \in u THEN shiftmap(k) ELSE normalmap(k))
  BY DEF charcode
<1>3. u \in SUBSET Flag /\ "E0ESC" \notin u
  BY CodesAre DEF Flag, Modifier
<1>4. \A f \in Modifier : f \in u <=> f \in e \/ f \in shiftcode(k)
  BY CodesAre DEF Modifier
<1>5. "CAPSLOCK" \in u <=> (IF k = 58 THEN "CAPSLOCK" \notin e ELSE "CAPSLOCK" \in e)
  BY CodesAre DEF Modifier
<1> HIDE DEF u, c
<1> QED
  BY <1>1, <1>2, <1>3, <1>4, <1>5
\* Bytes that are sent join the pending ones at the end.
LEMMA Sent ==
  ASSUME KbdTypes, NEW s \in Seq(Byte), wire' = wire \o s, obf' = obf
  PROVE  Pending \in Seq(Byte) /\ Pending' = Pending \o s
<1>1. CASE obf = NoByte
  BY <1>1 DEF KbdTypes, Pending
<1>2. CASE obf # NoByte
  <2>1. obf \in Byte /\ <<obf>> \in Seq(Byte) /\ wire \in Seq(Byte)
    BY <1>2 DEF KbdTypes
  <2>2. <<obf>> \o (wire \o s) = (<<obf>> \o wire) \o s
    BY <2>1, ConcatAssociative
  <2> QED
    BY <1>2, <2>1, <2>2 DEF Pending
<1> QED
  BY <1>1, <1>2

LEMMA CodesAreBytes ==
  ASSUME NEW k \in Key
  PROVE  MakeCode(k) \in Seq(Byte) /\ BreakCode(k) \in Seq(Byte)
<1>1. k \in 1..255
  BY KeyAssumption
<1>2. CASE k < 128
  <2>1. MakeCode(k) = <<k>> /\ BreakCode(k) = <<k + 128>>
    BY <1>1, <1>2 DEF MakeCode, BreakCode
  <2>2. k \in Byte /\ k + 128 \in Byte
    BY <1>1, <1>2 DEF Byte
  <2> QED
    BY <2>1, <2>2
<1>3. CASE k >= 128
  <2>1. MakeCode(k) = <<E0, k - 128>> /\ BreakCode(k) = <<E0, k>>
    BY <1>1, <1>3 DEF MakeCode, BreakCode
  <2>2. k \in Byte /\ k - 128 \in Byte /\ E0 \in Byte
    BY <1>1, <1>3 DEF Byte, E0
  <2> QED
    BY <2>1, <2>2
<1> QED
  BY <1>1, <1>2, <1>3

\* The character that key k types when it goes down now.
Types(k) == Typed(k, held \cup {k}, IF k = 58 THEN ~caps ELSE caps)

\* What is ahead after a step that types ch (0: nothing), where d was before.
Grown(d, ch) ==
  \E d2 \in Seq(Nat), u \in SUBSET Flag :
    Ahead(d2, u)' /\ (~doubled' => d2 = (IF ch = 0 THEN d ELSE Append(d, ch)))

LEMMA PressAhead ==
  ASSUME KbdTypes, NEW d \in Seq(Nat), NEW e \in SUBSET Flag, Ahead(d, e),
         NEW k \in Key, PressKey(k)
  PROVE  KbdTypes' /\ Types(k) \in Nat /\ Grown(d, Types(k))
<1>2. PICK r : r = Pressed(e, k)
  OBVIOUS
<1>3. "E0ESC" \notin e /\ Yields(Pending, shift, d, e, chord) /\ Backed(e)
  BY DEF Ahead
<1>4. PICK down, lock, ch :
        down = held \cup {k} /\ lock = (IF k = 58 THEN ~caps ELSE caps) /\ ch = Types(k)
        /\ ch = Typed(k, down, lock)
  BY DEF Types
<1>5. /\ held' = down /\ caps' = lock /\ wire' = wire \o MakeCode(k) /\ obf' = obf
      /\ doubled' = (doubled \/ Down(shiftcode(k), held \ {k}))
      /\ chord' = (chord \/ (k = Del /\ Down({"CTL"}, down) /\ Down({"ALT"}, down)))
      /\ shift' = shift /\ rebooted' = rebooted
  BY <1>4 DEF PressKey
<1>6. Pending \in Seq(Byte) /\ Pending' = Pending \o MakeCode(k)
  BY <1>5, CodesAreBytes, Sent
<1>7. /\ r.shift \in SUBSET Flag /\ "E0ESC" \notin r.shift
      /\ \A f \in Modifier : f \in r.shift <=> f \in e \/ f \in shiftcode(k)
      /\ "CAPSLOCK" \in r.shift <=> (IF k = 58 THEN "CAPSLOCK" \notin e ELSE "CAPSLOCK" \in e)
  BY <1>2, <1>3, PressedIs
<1>8. PICK c : /\ c = (IF "CTL" \in r.shift THEN ctlmap(k)
                       ELSE IF "SHIFT" \in r.shift THEN shiftmap(k) ELSE normalmap(k))
               /\ r.c = (IF "CAPSLOCK" \in r.shift THEN CapsLocked(c) ELSE c)
  BY <1>2, <1>3, PressedIs
<1>9. r.c \in Nat /\ (r.c = KEY_DEL => k = Del)
  BY <1>8, CharsAre
<1>10. \A f \in Modifier : Down({f}, down) <=> Down({f}, held) \/ f \in shiftcode(k)
  BY <1>4, DownWith
<1>11. Backed(r.shift)'
  <2>1. \A f \in Modifier : f \in r.shift => Down({f}, down)
    BY <1>3, <1>7, <1>10 DEF Backed
  <2> QED
    BY <1>5, <2>1 DEF Backed
<1>12. CtrlAltDel(r) => chord' = TRUE
  <2> SUFFICES ASSUME CtrlAltDel(r) PROVE chord' = TRUE
    OBVIOUS
  <2>1. k = Del /\ "CTL" \in r.shift /\ "ALT" \in r.shift
    BY <1>9 DEF CtrlAltDel
  <2>2. Down({"CTL"}, down) /\ Down({"ALT"}, down)
    BY <1>3, <1>7, <1>10, <2>1 DEF Backed, Modifier
  <2> QED
    BY <1>5, <2>1, <2>2
<1>13. chord = TRUE => chord' = TRUE
  BY <1>5
<1>14. PICK d2 : d2 = (IF r.c = 0 THEN d ELSE Append(d, r.c))
  OBVIOUS
<1>15. d2 \in Seq(Nat)
  BY <1>9, <1>14
<1>16. Yields(Pending \o MakeCode(k), shift, d2, r.shift, chord')
  BY <1>2, <1>3, <1>6, <1>12, <1>13, <1>14, MakeYields
<1>17. ASSUME ~doubled' PROVE r.c = ch /\ Exact(r.shift)'
  <2>1. ~doubled /\ ~Down(shiftcode(k), held \ {k}) /\ Exact(e)
    BY <1>5, <1>17 DEF Ahead
  <2>2. \A f \in Modifier : f \in r.shift <=> Down({f}, down)
    BY <1>3, <1>7, <1>10, <2>1 DEF Exact, Backed
  <2>3. "CAPSLOCK" \in r.shift <=> lock
    BY <1>4, <1>7, <2>1 DEF Exact
  <2>4. r.c = ch
    <3>1. c = (IF Down({"CTL"}, down) THEN ctlmap(k)
               ELSE IF Down({"SHIFT"}, down) THEN shiftmap(k) ELSE normalmap(k))
      BY <1>8, <2>2 DEF Modifier
    <3> QED
      BY <1>4, <1>8, <2>3, <3>1 DEF Typed
  <2>5. \A i, j \in down : i # j => shiftcode(i) \cap shiftcode(j) = {}
    <3>1. \A i, j \in held : i # j => shiftcode(i) \cap shiftcode(j) = {}
      BY <2>1 DEF Exact
    <3>2. \A i \in held : i # k => shiftcode(i) \cap shiftcode(k) = {}
      BY <2>1 DEF Down
    <3> QED
      BY <1>4, <3>1, <3>2
  <2> QED
    BY <1>5, <2>2, <2>3, <2>4, <2>5 DEF Exact
<1>18. Ahead(d2, r.shift)'
  BY <1>5, <1>6, <1>7, <1>11, <1>16, <1>17 DEF Ahead
<1>19. ch \in Nat
  BY <1>4, CharsAre DEF Typed
<1>20. KbdTypes'
  <2>1. wire' \in Seq(Byte)
    BY <1>5, CodesAreBytes DEF KbdTypes
  <2>2. caps' \in BOOLEAN /\ chord' \in BOOLEAN /\ doubled' \in BOOLEAN
    BY <1>4, <1>5 DEF KbdTypes
  <2>3. held' \subseteq Key
    BY <1>4, <1>5 DEF KbdTypes
  <2> QED
    BY <1>5, <2>1, <2>2, <2>3, Zenon DEF KbdTypes
<1>21. ~doubled' => d2 = (IF ch = 0 THEN d ELSE Append(d, ch))
  BY <1>14, <1>17
<1> QED
  BY <1>4, <1>7, <1>15, <1>18, <1>19, <1>20, <1>21 DEF Grown

LEMMA ReleaseAhead ==
  ASSUME KbdTypes, NEW d \in Seq(Nat), NEW e \in SUBSET Flag, Ahead(d, e),
         NEW k \in Key, ReleaseKey(k)
  PROVE  KbdTypes' /\ \E u \in SUBSET Flag : Ahead(d, u)'
<1>2. /\ k \in held /\ held' = held \ {k} /\ wire' = wire \o BreakCode(k)
      /\ UNCHANGED <<caps, obf, shift, kc, due, chord, doubled, rebooted>>
  BY DEF ReleaseKey
<1>3. "E0ESC" \notin e /\ Yields(Pending, shift, d, e, chord) /\ Backed(e)
  BY DEF Ahead
<1>4. Pending \in Seq(Byte) /\ Pending' = Pending \o BreakCode(k)
  BY <1>2, CodesAreBytes, Sent
<1>5. PICK u : u = e \ shiftcode(k)
  OBVIOUS
<1>6. Yields(Pending', shift', d, u, chord')
  BY <1>2, <1>3, <1>4, <1>5, BreakYields
<1>7. Backed(u)'
  <2> SUFFICES ASSUME NEW f \in Modifier, f \in u PROVE Down({f}, held')
    BY DEF Backed
  <2>1. PICK j \in held : f \in shiftcode(j)
    BY <1>3, <1>5 DEF Backed, Down
  <2>2. j # k
    BY <1>5, <2>1
  <2> QED
    BY <1>2, <2>1, <2>2 DEF Down
<1>8. ASSUME ~doubled' PROVE Exact(u)'
  <2>1. Exact(e)
    BY <1>2, <1>8 DEF Ahead
  <2>2. ASSUME NEW f \in Modifier, Down({f}, held') PROVE f \in u
    <3>1. PICK j \in held : j # k /\ f \in shiftcode(j)
      BY <1>2, <2>2 DEF Down
    <3>2. f \in e /\ f \notin shiftcode(k)
      BY <1>2, <2>1, <3>1 DEF Exact, Down
    <3> QED
      BY <1>5, <3>2
  <2>3. "CAPSLOCK" \in u <=> caps'
    BY <1>2, <1>5, <2>1, CodesAre DEF Exact, Modifier
  <2>4. \A i, j \in held' : i # j => shiftcode(i) \cap shiftcode(j) = {}
    BY <1>2, <2>1 DEF Exact
  <2> QED
    BY <1>2, <2>1, <2>2, <2>3, <2>4 DEF Exact
<1>9. Ahead(d, u)'
  BY <1>2, <1>3, <1>5, <1>6, <1>7, <1>8 DEF Ahead
<1>10. KbdTypes'
  <2>1. wire' \in Seq(Byte) /\ held' \subseteq Key
    BY <1>2, CodesAreBytes DEF KbdTypes
  <2> QED
    BY <1>2, <2>1, Zenon DEF KbdTypes
<1>11. u \in SUBSET Flag
  BY <1>5
<1> QED
  BY <1>9, <1>10, <1>11

LEMMA TransferAhead ==
  ASSUME KbdTypes, NEW d \in Seq(Nat), NEW e \in SUBSET Flag, Ahead(d, e), Transfer
  PROVE  KbdTypes' /\ Ahead(d, e)'
<1>2. /\ wire # << >> /\ obf = NoByte /\ obf' = Head(wire) /\ wire' = Tail(wire)
      /\ UNCHANGED <<held, caps, shift, kc, due, chord, doubled, rebooted>>
  BY DEF Transfer
<1>3. wire \in Seq(Byte) /\ obf' \in Byte /\ wire' \in Seq(Byte)
  BY <1>2 DEF KbdTypes
<1>4. <<obf'>> \o wire' = wire
  BY <1>2, <1>3
<1>5. Pending' = Pending
  <2>1. obf' # NoByte
    BY <1>3 DEF Byte, NoByte
  <2>2. Pending = wire /\ Pending' = <<obf'>> \o wire'
    BY <1>2, <2>1, Zenon DEF Pending
  <2> QED
    BY <1>4, <2>2
<1>6. Ahead(d, e)'
  BY <1>2, <1>5 DEF Ahead, Backed, Exact
<1>7. KbdTypes'
  BY <1>2, <1>3, Zenon DEF KbdTypes
<1> QED
  BY <1>6, <1>7

\* What kbd_proc_data does with the byte in the controller is what was ahead.
LEMMA DecodeAhead ==
  ASSUME KbdTypes, NEW d \in Seq(Nat), NEW e \in SUBSET Flag, Ahead(d, e), ProcData
  PROVE  /\ KbdTypes' /\ kc' \in Nat /\ (rebooted' => chord = TRUE)
         /\ kc' # 0 => d # << >> /\ kc' = Head(d)
         /\ \E d2 \in Seq(Nat) : d2 = (IF kc' = 0 THEN d ELSE Tail(d)) /\ Ahead(d2, e)'
<1>2. PICK r : r = kbd_proc_data(shift, obf)
  OBVIOUS
<1>3. /\ obf # NoByte /\ obf' = NoByte /\ shift' = r.shift /\ kc' = r.c /\ rebooted' = CtrlAltDel(r)
      /\ UNCHANGED <<held, caps, wire, chord, doubled>>
  BY <1>2 DEF ProcData, CtrlAltDel
<1>4. obf \in Byte /\ wire \in Seq(Byte) /\ shift \in SUBSET Flag
  BY <1>3 DEF KbdTypes
<1>5. r.shift \in SUBSET Flag /\ r.c \in Nat
  BY <1>2, <1>4, DecodeType
<1>6. PICK P : P = Pending
  OBVIOUS
<1>7. P = <<obf>> \o wire /\ Pending' = wire
  BY <1>3, <1>6 DEF Pending
<1>8. P \in Seq(Byte) /\ P # << >> /\ Head(P) = obf /\ Tail(P) = wire
  BY <1>4, <1>7
<1>9. Yields(P, shift, d, e, chord)
  BY <1>6 DEF Ahead
<1>10. PICK d2 : d2 = (IF r.c = 0 THEN d ELSE Tail(d))
  OBVIOUS
<1>11. /\ CtrlAltDel(r) => chord = TRUE
       /\ r.c # 0 => d # << >> /\ r.c = Head(d)
       /\ Yields(Tail(P), r.shift, d2, e, chord)
  <2>1. PICK s, x : s = shift /\ x = chord
    OBVIOUS
  <2>2. r = kbd_proc_data(s, Head(P)) /\ Yields(P, s, d, e, x)
    BY <1>2, <1>8, <1>9, <2>1
  <2>3. Eats(P, d, e, x, r, d2)
    BY <1>8, <1>10, <2>2, EatByte
  <2> QED
    BY <2>1, <2>3 DEF Eats
<1>12. d2 \in Seq(Nat)
  BY <1>10, <1>11
<1>13. Ahead(d2, e)'
  <2>1. Yields(Pending', shift', d2, e, chord')
    BY <1>3, <1>7, <1>8, <1>11
  <2>2. "E0ESC" \notin e /\ Backed(e)' /\ (~doubled => Exact(e)')
    BY <1>3 DEF Ahead, Backed, Exact
  <2> QED
    BY <1>3, <2>1, <2>2 DEF Ahead
<1>14. KbdTypes'
  <2>1. rebooted' \in BOOLEAN
    BY <1>3 DEF CtrlAltDel
  <2> QED
    BY <1>3, <1>5, <2>1, Zenon DEF KbdTypes
<1> QED
  BY <1>3, <1>5, <1>10, <1>11, <1>12, <1>13, <1>14

\* In the decoder by itself, what is due is what is ahead.
KbdInv ==
  /\ KbdTypes /\ due \in Seq(Nat)
  /\ rebooted => chord
  /\ \E d \in Seq(Nat), e \in SUBSET Flag : Ahead(d, e) /\ (~doubled => d = due)

LEMMA KbdInitInv ==
  KbdInit => KbdInv
<1> SUFFICES ASSUME KbdInit PROVE KbdInv
  OBVIOUS
<1>1. KbdTypes /\ Ahead(<< >>, {})
  BY KbdInitAhead
<1>2. << >> \in Seq(Nat) /\ {} \in SUBSET Flag /\ due = << >> /\ rebooted = FALSE
  BY DEF KbdInit
<1> QED
  BY <1>1, <1>2 DEF KbdInv

LEMMA PressInv ==
  ASSUME KbdInv, NEW k \in Key, PressKey(k)
  PROVE  KbdInv'
<1>1. KbdTypes /\ due \in Seq(Nat) /\ (rebooted => chord)
  BY DEF KbdInv
<1>2. PICK d \in Seq(Nat), e \in SUBSET Flag : Ahead(d, e) /\ (~doubled => d = due)
  BY DEF KbdInv
<1>3. PICK ch : ch = Types(k)
  OBVIOUS
<1>4. KbdTypes' /\ ch \in Nat /\ Grown(d, ch)
  BY <1>1, <1>2, <1>3, PressAhead
<1>5. /\ due' = (IF ch = 0 THEN due ELSE Append(due, ch))
      /\ rebooted' = rebooted /\ (chord => chord') /\ (doubled => doubled')
  BY <1>3 DEF PressKey, Types
<1>6. PICK d2 \in Seq(Nat), u \in SUBSET Flag :
        Ahead(d2, u)' /\ (~doubled' => d2 = (IF ch = 0 THEN d ELSE Append(d, ch)))
  BY <1>4 DEF Grown
<1>7. due' \in Seq(Nat) /\ (~doubled' => d2 = due')
  BY <1>1, <1>2, <1>4, <1>5, <1>6
<1> QED
  BY <1>1, <1>4, <1>5, <1>6, <1>7 DEF KbdInv

LEMMA ReleaseInv ==
  ASSUME KbdInv, NEW k \in Key, ReleaseKey(k)
  PROVE  KbdInv'
<1>1. KbdTypes /\ due \in Seq(Nat) /\ (rebooted => chord)
  BY DEF KbdInv
<1>2. PICK d \in Seq(Nat), e \in SUBSET Flag : Ahead(d, e) /\ (~doubled => d = due)
  BY DEF KbdInv
<1>3. KbdTypes' /\ \E u \in SUBSET Flag : Ahead(d, u)'
  BY <1>1, <1>2, ReleaseAhead
<1>4. UNCHANGED <<due, rebooted, chord, doubled>>
  BY DEF ReleaseKey
<1> QED
  BY <1>1, <1>2, <1>3, <1>4 DEF KbdInv

LEMMA TransferInv ==
  ASSUME KbdInv, Transfer
  PROVE  KbdInv'
<1>1. KbdTypes /\ due \in Seq(Nat) /\ (rebooted => chord)
  BY DEF KbdInv
<1>2. PICK d \in Seq(Nat), e \in SUBSET Flag : Ahead(d, e) /\ (~doubled => d = due)
  BY DEF KbdInv
<1>3. KbdTypes' /\ Ahead(d, e)'
  BY <1>1, <1>2, TransferAhead
<1>4. UNCHANGED <<due, rebooted, chord, doubled>>
  BY DEF Transfer
<1> QED
  BY <1>1, <1>2, <1>3, <1>4 DEF KbdInv

LEMMA DecodeStep ==
  ASSUME KbdInv, Decode
  PROVE  /\ KbdInv'
         /\ ~doubled /\ kc' # 0 => due # << >> /\ kc' = Head(due)
<1>1. KbdTypes /\ due \in Seq(Nat)
  BY DEF KbdInv
<1>2. PICK d \in Seq(Nat), e \in SUBSET Flag : Ahead(d, e) /\ (~doubled => d = due)
  BY DEF KbdInv
<1>3. /\ KbdTypes' /\ kc' \in Nat /\ (rebooted' => chord = TRUE)
      /\ kc' # 0 => d # << >> /\ kc' = Head(d)
      /\ \E d2 \in Seq(Nat) : d2 = (IF kc' = 0 THEN d ELSE Tail(d)) /\ Ahead(d2, e)'
  BY <1>1, <1>2, DecodeAhead DEF Decode
<1>4. PICK d2 \in Seq(Nat) : d2 = (IF kc' = 0 THEN d ELSE Tail(d)) /\ Ahead(d2, e)'
  BY <1>3
<1>5. /\ due' = (IF kc' = 0 \/ due = << >> THEN due ELSE Tail(due))
      /\ chord' = chord /\ doubled' = doubled
  BY DEF Decode, ProcData
<1>6. due' \in Seq(Nat)
  BY <1>1, <1>5
<1>7. ~doubled' => d2 = due'
  BY <1>2, <1>3, <1>4, <1>5
<1>8. KbdInv'
  BY <1>3, <1>4, <1>5, <1>6, <1>7 DEF KbdInv
<1> QED
  BY <1>2, <1>3, <1>8

LEMMA KbdStep ==
  KbdInv /\ [KbdNext]_kbdVars => KbdInv'
<1> SUFFICES ASSUME KbdInv, [KbdNext]_kbdVars PROVE KbdInv'
  OBVIOUS
<1>1. CASE UNCHANGED kbdVars
  <2>1. UNCHANGED <<held, caps, wire, obf, shift, due, chord, doubled, rebooted>>
    BY <1>1 DEF kbdVars
  <2>2. ASSUME NEW d, NEW e, Ahead(d, e) PROVE Ahead(d, e)'
    BY <2>1, <2>2 DEF Ahead, Backed, Exact, Pending
  <2>3. KbdTypes'
    BY <2>1, Zenon DEF KbdTypes, KbdInv
  <2> QED
    BY <2>1, <2>2, <2>3 DEF KbdInv
<1>2. CASE \E k \in Key : PressKey(k)
  BY <1>2, PressInv
<1>3. CASE \E k \in Key : ReleaseKey(k)
  BY <1>3, ReleaseInv
<1>4. CASE Transfer
  BY <1>4, TransferInv
<1>5. CASE Decode
  BY <1>5, DecodeStep
<1> QED
  BY <1>1, <1>2, <1>3, <1>4, <1>5 DEF KbdNext
-----------------------------------------------------------------------------
\* Once every byte is decoded, nothing is ahead.
LEMMA NothingAhead ==
  ASSUME KbdInv, wire = << >>, obf = NoByte
  PROVE  "E0ESC" \notin shift /\ Backed(shift) /\ (~doubled => due = << >>)
<1>1. PICK d \in Seq(Nat), e \in SUBSET Flag : Ahead(d, e) /\ (~doubled => d = due)
  BY DEF KbdInv
<1>2. Yields(<< >>, shift, d, e, chord)
  BY <1>1 DEF Ahead, Pending
<1>3. PICK sh, q : Decoding(<< >>, shift, d, e, chord, sh, q)
  BY <1>2 DEF Yields
<1>4. e = shift /\ Len(d) = 0
  BY <1>3 DEF Decoding
<1>5. d = << >>
  BY <1>4
<1> QED
  BY <1>1, <1>4, <1>5 DEF Ahead

LEMMA KbdSafety ==
  KbdSpec => []KbdInv
BY KbdInitInv, KbdStep, PTL DEF KbdSpec

\* For every keyboard and however many bytes are under way: when kbd_proc_data
\* has read them all, `shift` holds no modifier whose keys are up and no prefix.
THEOREM NoStuckModifierCorrect ==
  KbdSpec => []NoStuckModifier
<1>1. KbdInv => NoStuckModifier
  BY NothingAhead DEF NoStuckModifier, Backed, Modifier
<1> QED
  BY <1>1, KbdSafety, PTL

\* kbd_proc_data reboots the machine only if Ctrl-Alt-Del was pressed.
THEOREM RebootNeedsChordCorrect ==
  KbdSpec => []RebootNeedsChord
<1>1. KbdInv => RebootNeedsChord
  BY DEF KbdInv, RebootNeedsChord
<1> QED
  BY <1>1, KbdSafety, PTL

\* When kbd_proc_data has read every byte, no typed character is missing.
THEOREM NothingSwallowedCorrect ==
  KbdSpec => []NothingSwallowed
<1>1. KbdInv => NothingSwallowed
  BY NothingAhead DEF NothingSwallowed
<1> QED
  BY <1>1, KbdSafety, PTL

\* kbd_proc_data returns the characters that were typed, in their order.
THEOREM DecodesAsTypedCorrect ==
  KbdSpec => DecodesAsTyped
<1>1. KbdInv => [Decode /\ ~doubled /\ kc' # 0 => due # << >> /\ kc' = Head(due)]_kbdVars
  BY DecodeStep
<1> QED
  BY <1>1, KbdSafety, PTL DEF DecodesAsTyped
-----------------------------------------------------------------------------
(***************************************************************************)
(* Console input end to end.                                               *)
(***************************************************************************)

\* C is made of the serial characters S and the typed characters K, each in its
\* order; g[n] of the first n are serial.
Split(C, S, K, g) ==
  /\ g \in [0..Len(C) -> Nat]
  /\ g[0] = 0 /\ g[Len(C)] = Len(S) /\ Len(C) = Len(S) + Len(K)
  /\ \A m, n \in 0..Len(C) : m <= n => g[m] <= g[n] /\ m - g[m] <= n - g[n]
  /\ \A n \in 1..Len(C) :
       IF C[n] \in SerialByte THEN g[n] = g[n-1] + 1 /\ C[n] = S[g[n]]
       ELSE g[n] = g[n-1] /\ C[n] = K[n - g[n]]

Merged(C, S, K) == \E g : Split(C, S, K, g)

LEMMA MergeAdd ==
  ASSUME NEW C \in Seq(Char), NEW S \in Seq(Nat), NEW K \in Seq(Nat), Merged(C, S, K),
         NEW c \in Char, NEW S2 \in Seq(Nat), NEW K2 \in Seq(Nat),
         c \in SerialByte => S2 = Append(S, c) /\ K2 = K,
         c \notin SerialByte => S2 = S /\ K2 = Append(K, c)
  PROVE  Merged(Append(C, c), S2, K2)
<1>1. PICK g : Split(C, S, K, g)
  BY DEF Merged
<1> DEFINE L == Len(C)
           Q == Append(C, c)
           h == [n \in 0..L+1 |-> IF n <= L THEN g[n] ELSE Len(S2)]
<1>2. L \in Nat /\ Len(Q) = L + 1 /\ Q[L + 1] = c /\ \A n \in 1..L : Q[n] = C[n]
  OBVIOUS
<1>3. /\ g \in [0..L -> Nat] /\ g[0] = 0 /\ g[L] = Len(S) /\ L = Len(S) + Len(K)
      /\ \A m, n \in 0..L : m <= n => g[m] <= g[n] /\ m - g[m] <= n - g[n]
  BY <1>1 DEF Split
<1>4. \A n \in 1..L : IF C[n] \in SerialByte THEN g[n] = g[n-1] + 1 /\ C[n] = S[g[n]]
                      ELSE g[n] = g[n-1] /\ C[n] = K[n - g[n]]
  BY <1>1 DEF Split
<1>5. /\ Len(S) \in Nat /\ Len(K) \in Nat /\ Len(S2) \in Nat /\ Len(K2) \in Nat
      /\ c \in SerialByte => Len(S2) = Len(S) + 1 /\ S2[Len(S) + 1] = c /\ Len(K2) = Len(K)
      /\ c \notin SerialByte => Len(S2) = Len(S) /\ Len(K2) = Len(K) + 1 /\ K2[Len(K) + 1] = c
      /\ \A i \in 1..Len(S) : S2[i] = S[i]
      /\ \A i \in 1..Len(K) : K2[i] = K[i]
  OBVIOUS
<1> HIDE DEF L, Q
<1>6. h \in [0..L+1 -> Nat] /\ h[0] = 0 /\ h[L+1] = Len(S2) /\ \A n \in 0..L : h[n] = g[n]
  BY <1>2, <1>3, <1>5
<1> HIDE DEF h
<1>7. L + 1 = Len(S2) + Len(K2)
  BY <1>3, <1>5
<1>8. ASSUME NEW m \in 0..L+1, NEW n \in 0..L+1, m <= n
      PROVE  h[m] <= h[n] /\ m - h[m] <= n - h[n]
  <2>1. CASE n <= L
    <3>1. m \in 0..L /\ n \in 0..L
      BY <1>2, <1>8, <2>1
    <3> QED
      BY <1>3, <1>6, <1>8, <3>1
  <2>2. CASE n = L + 1 /\ m <= L
    <3>1. m \in 0..L /\ L \in 0..L /\ m <= L
      BY <1>2, <2>2
    <3>2. g[m] <= g[L] /\ m - g[m] <= L - g[L] /\ g[m] \in Nat /\ h[m] = g[m]
      BY <1>3, <1>6, <3>1
    <3>3. h[n] = Len(S2) /\ g[L] = Len(S) /\ L - g[L] = Len(K) /\ n - h[n] = Len(K2)
      BY <1>2, <1>3, <1>5, <1>6, <1>7, <2>2
    <3>4. Len(S) <= Len(S2) /\ Len(K) <= Len(K2)
      BY <1>5
    <3> QED
      BY <1>2, <1>5, <3>1, <3>2, <3>3, <3>4
  <2>3. CASE n = L + 1 /\ m = L + 1
    BY <1>2, <1>5, <1>6, <2>3
  <2> QED
    BY <1>2, <2>1, <2>2, <2>3
<1>9. ASSUME NEW n \in 1..L+1
      PROVE  IF Q[n] \in SerialByte THEN h[n] = h[n-1] + 1 /\ Q[n] = S2[h[n]]
             ELSE h[n] = h[n-1] /\ Q[n] = K2[n - h[n]]
  <2>1. CASE n \in 1..L
    <3>1. n - 1 \in 0..L /\ n \in 0..L /\ L \in 0..L /\ 0 \in 0..L /\ n <= L /\ 0 <= n - 1
      BY <1>2, <2>1
    <3>2. h[n] = g[n] /\ h[n-1] = g[n-1] /\ Q[n] = C[n]
      BY <1>2, <1>6, <2>1, <3>1
    <3>3. /\ g[n] \in Nat /\ g[n-1] \in Nat /\ g[n] <= Len(S) /\ n - g[n] <= Len(K)
          /\ 0 <= n - 1 - g[n-1]
      <4>1. PICK p : p = n - 1
        OBVIOUS
      <4>2. g[n] \in Nat /\ g[p] \in Nat /\ p \in 0..L /\ 0 <= p
        BY <1>3, <3>1, <4>1
      <4>3. g[n] <= g[L] /\ n - g[n] <= L - g[L]
        BY <1>3, <3>1
      <4>4. 0 - g[0] <= p - g[p]
        BY <1>3, <3>1, <4>2
      <4>5. L - g[L] = Len(K) /\ 0 - g[0] = 0
        BY <1>3, <1>5
      <4> QED
        BY <1>3, <4>1, <4>2, <4>3, <4>4, <4>5
    <3>4. CASE C[n] \in SerialByte
      <4>1. g[n] = g[n-1] + 1 /\ C[n] = S[g[n]] /\ g[n] \in 1..Len(S)
        BY <1>4, <1>5, <2>1, <3>3, <3>4
      <4> QED
        BY <1>5, <3>2, <3>4, <4>1
    <3>5. CASE C[n] \notin SerialByte
      <4>0. g[n] = g[n-1] /\ C[n] = K[n - g[n]]
        BY <1>4, <2>1, <3>5
      <4>1. n - g[n] \in 1..Len(K)
        <5>1. PICK i, j : i = g[n] /\ j = Len(K)
          OBVIOUS
        <5>2. i \in Nat /\ j \in Nat /\ n - i <= j /\ 0 <= n - 1 - i
          BY <1>5, <3>3, <4>0, <5>1
        <5>3. n - i \in 1..j
          BY <1>2, <5>2
        <5> QED
          BY <5>1, <5>3
      <4> QED
        BY <1>5, <3>2, <3>5, <4>0, <4>1
    <3> QED
      BY <3>4, <3>5
  <2>2. CASE n = L + 1
    <3>1. n - 1 = L /\ L \in 0..L /\ Q[n] = c
      BY <1>2, <2>2
    <3>2. h[n-1] = Len(S) /\ h[n] = Len(S2)
      BY <1>3, <1>6, <2>2, <3>1
    <3>3. n - Len(S2) = Len(K2)
      BY <1>2, <1>5, <1>7, <2>2
    <3> QED
      BY <1>5, <3>1, <3>2, <3>3
  <2>3. n \in 1..L \/ n = L + 1
    BY <1>2
  <2> QED
    BY <2>1, <2>2, <2>3, Zenon
<1>10. Split(Q, S2, K2, h)
  BY <1>2, <1>6, <1>7, <1>8, <1>9 DEF Split
<1> QED
  BY <1>10 DEF Merged, Q

\* The first of C is the first of S or of K, and S2 and K2 make up the rest.
Taken(C, S, K, S2, K2) ==
  /\ Head(C) \in SerialByte => S # << >> /\ Head(S) = Head(C)
  /\ Head(C) \notin SerialByte => K # << >> /\ Head(K) = Head(C)
  /\ Merged(Tail(C), S2, K2)

LEMMA MergeTake ==
  ASSUME NEW C \in Seq(Char), NEW S \in Seq(Nat), NEW K \in Seq(Nat), Merged(C, S, K),
         C # << >>, NEW S2, NEW K2,
         Head(C) \in SerialByte => S2 = Tail(S) /\ K2 = K,
         Head(C) \notin SerialByte => S2 = S /\ K2 = Tail(K)
  PROVE  Taken(C, S, K, S2, K2)
<1>1. PICK g : Split(C, S, K, g)
  BY DEF Merged
<1> DEFINE L == Len(C) - 1
           Q == Tail(C)
           h == [n \in 0..L |-> g[n + 1] - g[1]]
<1>2. /\ L \in Nat /\ Len(C) = L + 1 /\ Len(Q) = L /\ C[1] = Head(C)
      /\ \A n \in 1..L : Q[n] = C[n + 1]
  OBVIOUS
<1>3. /\ g \in [0..L+1 -> Nat] /\ g[0] = 0 /\ g[L+1] = Len(S) /\ L + 1 = Len(S) + Len(K)
      /\ \A m, n \in 0..L+1 : m <= n => g[m] <= g[n] /\ m - g[m] <= n - g[n]
  BY <1>1, <1>2 DEF Split
<1>4. \A n \in 1..L+1 : IF C[n] \in SerialByte THEN g[n] = g[n-1] + 1 /\ C[n] = S[g[n]]
                        ELSE g[n] = g[n-1] /\ C[n] = K[n - g[n]]
  BY <1>1, <1>2 DEF Split
<1>5. Len(S) \in Nat /\ Len(K) \in Nat
  OBVIOUS
<1> HIDE DEF L, Q
<1>6. /\ C[1] \in SerialByte => g[1] = 1 /\ C[1] = S[1]
      /\ C[1] \notin SerialByte => g[1] = 0 /\ C[1] = K[1]
  <2>1. 1 \in 1..L+1 /\ 1 - 1 = 0 /\ 0 + 1 = 1 /\ 1 - 0 = 1
    BY <1>2
  <2> QED
    BY <1>3, <1>4, <2>1
<1>7. g[1] \in {0, 1} /\ g[1] <= Len(S) /\ 1 - g[1] <= Len(K)
  <2>1. 1 \in 0..L+1 /\ L + 1 \in 0..L+1 /\ 1 <= L + 1
    BY <1>2
  <2>2. g[1] <= g[L+1] /\ 1 - g[1] <= (L + 1) - g[L+1]
    BY <1>3, <2>1
  <2>3. (L + 1) - g[L+1] = Len(K)
    BY <1>2, <1>3, <1>5
  <2> QED
    BY <1>3, <1>6, <2>2, <2>3
<1>8. /\ C[1] \in SerialByte => S # << >> /\ Head(S) = C[1]
      /\ C[1] \notin SerialByte => K # << >> /\ Head(K) = C[1]
  BY <1>5, <1>6, <1>7
<1>9. /\ Len(S2) = Len(S) - g[1] /\ Len(K2) = Len(K) - (1 - g[1])
      /\ \A i \in 1..Len(S2) : S2[i] = S[i + g[1]]
      /\ \A i \in 1..Len(K2) : K2[i] = K[i + (1 - g[1])]
  <2>1. CASE Head(C) \in SerialByte
    <3>1. g[1] = 1 /\ S2 = Tail(S) /\ K2 = K /\ S # << >> /\ 1 - g[1] = 0
      BY <1>2, <1>6, <1>8, <2>1
    <3>2. Len(S2) = Len(S) - 1 /\ \A i \in 1..Len(S2) : S2[i] = S[i + 1]
      BY <3>1
    <3>3. Len(K2) = Len(K) - 0 /\ \A i \in 1..Len(K2) : K2[i] = K[i + 0]
      BY <1>5, <3>1
    <3> QED
      BY <3>1, <3>2, <3>3
  <2>2. CASE Head(C) \notin SerialByte
    <3>1. g[1] = 0 /\ S2 = S /\ K2 = Tail(K) /\ K # << >> /\ 1 - g[1] = 1
      BY <1>2, <1>6, <1>8, <2>2
    <3>2. Len(K2) = Len(K) - 1 /\ \A i \in 1..Len(K2) : K2[i] = K[i + 1]
      BY <3>1
    <3>3. Len(S2) = Len(S) - 0 /\ \A i \in 1..Len(S2) : S2[i] = S[i + 0]
      BY <1>5, <3>1
    <3> QED
      BY <3>1, <3>2, <3>3
  <2> QED
    BY <2>1, <2>2
<1>10. PICK z, w : /\ z = g[1] /\ w = 1 - z /\ z \in {0, 1} /\ w \in {0, 1}
                   /\ z \in Int /\ w \in Int /\ z + w = 1
  BY <1>7
<1>11. /\ Len(S2) = Len(S) - z /\ Len(K2) = Len(K) - w /\ z <= Len(S) /\ w <= Len(K)
       /\ Len(S2) \in Nat /\ Len(K2) \in Nat /\ L = Len(S2) + Len(K2)
  <2>1. PICK s, k : s = Len(S) /\ k = Len(K)
    OBVIOUS
  <2>2. /\ s \in Nat /\ k \in Nat /\ L \in Nat /\ L + 1 = s + k /\ z <= s /\ w <= k
        /\ Len(S2) = s - z /\ Len(K2) = k - w
    BY <1>2, <1>3, <1>5, <1>7, <1>9, <1>10, <2>1
  <2>3. z \in Int /\ w \in Int /\ z + w = 1
    BY <1>10
  <2>4. s - z \in Nat /\ k - w \in Nat /\ L = (s - z) + (k - w)
    BY <2>2, <2>3
  <2> QED
    BY <2>1, <2>2, <2>4
<1>12. \A n \in 0..L : n + 1 \in 0..L+1 /\ g[n + 1] \in Nat /\ z <= g[n + 1]
                       /\ w <= (n + 1) - g[n + 1]
  <2> SUFFICES ASSUME NEW n \in 0..L
               PROVE  n + 1 \in 0..L+1 /\ g[n + 1] \in Nat /\ z <= g[n + 1]
                      /\ w <= (n + 1) - g[n + 1]
    OBVIOUS
  <2>1. PICK k : k = n + 1 /\ k \in 0..L+1 /\ 1 \in 0..L+1 /\ 1 <= k
    BY <1>2
  <2>2. g[1] <= g[k] /\ 1 - g[1] <= k - g[k] /\ g[k] \in Nat
    BY <1>3, <2>1
  <2> QED
    BY <1>10, <2>1, <2>2
<1>13. h \in [0..L -> Nat] /\ \A n \in 0..L : h[n] = g[n + 1] - z
  <2>1. ASSUME NEW n \in 0..L PROVE g[n + 1] - z \in Nat
    <3>1. PICK x : x = g[n + 1]
      OBVIOUS
    <3>2. x \in Nat /\ z <= x
      BY <1>12, <3>1
    <3>3. z \in Int
      BY <1>10
    <3>4. x - z \in Nat
      BY <3>2, <3>3
    <3> QED
      BY <3>1, <3>4
  <2>2. h = [n \in 0..L |-> g[n + 1] - z]
    BY <1>10
  <2> HIDE DEF h
  <2> QED
    BY <2>1, <2>2
<1>14. h[0] = 0 /\ h[L] = Len(S2)
  <2>1. 0 \in 0..L /\ L \in 0..L /\ 0 + 1 = 1
    BY <1>2
  <2>2. h[0] = z - z
    BY <1>10, <1>13, <2>1
  <2>3. h[L] = Len(S) - z
    BY <1>3, <1>13, <2>1
  <2> QED
    BY <1>10, <1>11, <2>2, <2>3
<1> HIDE DEF h
<1>15. ASSUME NEW m \in 0..L, NEW n \in 0..L, m <= n
       PROVE  h[m] <= h[n] /\ m - h[m] <= n - h[n]
  <2>1. PICK i, j : i = m + 1 /\ j = n + 1 /\ i \in 0..L+1 /\ j \in 0..L+1 /\ i <= j
    BY <1>2, <1>15
  <2>2. g[i] <= g[j] /\ i - g[i] <= j - g[j] /\ g[i] \in Nat /\ g[j] \in Nat
    BY <1>3, <2>1
  <2>3. h[m] = g[i] - z /\ h[n] = g[j] - z
    BY <1>13, <2>1
  <2>4. PICK x, y : x = g[i] /\ y = g[j]
    OBVIOUS
  <2>5. x \in Nat /\ y \in Nat /\ x <= y /\ (m + 1) - x <= (n + 1) - y
    BY <2>1, <2>2, <2>4
  <2>6. m \in Int /\ n \in Int /\ z \in Int
    BY <1>2, <1>10
  <2>7. x - z <= y - z /\ m - (x - z) <= n - (y - z)
    BY <2>5, <2>6
  <2> QED
    BY <2>3, <2>4, <2>7
<1>16. ASSUME NEW n \in 1..L
       PROVE  IF Q[n] \in SerialByte THEN h[n] = h[n-1] + 1 /\ Q[n] = S2[h[n]]
              ELSE h[n] = h[n-1] /\ Q[n] = K2[n - h[n]]
  <2>0. /\ n + 1 \in 1..L+1 /\ n + 1 - 1 = n /\ n \in 0..L /\ n - 1 \in 0..L
        /\ n - 1 + 1 = n /\ n + 1 \in 0..L+1
    BY <1>2
  <2>1. PICK k, p : /\ k = n + 1 /\ k \in 1..L+1 /\ k - 1 = n /\ n \in 0..L
                    /\ p = n - 1 /\ p \in 0..L /\ p + 1 = n /\ k \in 0..L+1
    BY <2>0
  <2>2. h[n] = g[k] - z /\ h[p] = g[n] - z /\ Q[n] = C[k] /\ g[k] \in Nat /\ g[n] \in Nat
    BY <1>2, <1>12, <1>13, <2>1
  <2>3. z <= g[n] /\ w <= n - g[n]
    BY <1>12, <2>1
  <2>4. g[k] <= Len(S) /\ k - g[k] <= Len(K)
    <3>1. L + 1 \in 0..L+1 /\ k <= L + 1
      BY <1>2, <2>1
    <3>2. g[k] <= g[L+1] /\ k - g[k] <= (L + 1) - g[L+1]
      BY <1>3, <2>1, <3>1
    <3>3. (L + 1) - g[L+1] = Len(K)
      BY <1>2, <1>3, <1>5
    <3> QED
      BY <1>3, <3>2, <3>3
  <2>5. PICK i, j : i = h[n] /\ j = n - h[n]
    OBVIOUS
  <2>6. CASE C[k] \in SerialByte
    <3>1. g[k] = g[n] + 1 /\ C[k] = S[g[k]]
      BY <1>4, <2>1, <2>6
    <3>2. h[n] = h[p] + 1 /\ i \in 1..Len(S2) /\ i + z = g[k]
      <4>1. PICK x, s : x = g[n] /\ s = Len(S)
        OBVIOUS
      <4>2. x \in Nat /\ s \in Nat /\ z \in Int /\ z <= x /\ x + 1 <= s
        BY <1>5, <1>10, <2>2, <2>3, <2>4, <3>1, <4>1
      <4>3. (x + 1) - z = (x - z) + 1 /\ (x + 1) - z \in 1..(s - z) /\ (x + 1) - z + z = x + 1
        BY <4>2
      <4> QED
        BY <1>11, <2>2, <2>5, <3>1, <4>1, <4>3
    <3>3. S2[i] = S[g[k]]
      BY <1>9, <1>10, <3>2
    <3> QED
      BY <2>1, <2>2, <2>5, <2>6, <3>1, <3>2, <3>3
  <2>7. CASE C[k] \notin SerialByte
    <3>1. g[k] = g[n] /\ C[k] = K[k - g[k]]
      BY <1>4, <2>1, <2>7
    <3>2. h[n] = h[p] /\ j \in 1..Len(K2) /\ j + w = k - g[k]
      <4>1. PICK x, s : x = g[n] /\ s = Len(K)
        OBVIOUS
      <4>2. /\ x \in Nat /\ s \in Nat /\ z \in Int /\ w \in Int /\ n \in Int /\ z + w = 1
            /\ w <= n - x /\ (n + 1) - x <= s
        <5>1. x \in Nat /\ s \in Nat
          BY <1>5, <2>2, <4>1
        <5>2. z \in Int /\ w \in Int /\ z + w = 1
          BY <1>10
        <5>3. n \in Int
          BY <1>2
        <5>4. w <= n - x /\ (n + 1) - x <= s
          BY <2>1, <2>3, <2>4, <3>1, <4>1
        <5> QED
          BY <5>1, <5>2, <5>3, <5>4
      <4>3. n - (x - z) \in 1..(s - w) /\ n - (x - z) + w = (n + 1) - x
        BY <4>2
      <4> QED
        <5>1. h[n] = x - z /\ h[p] = x - z /\ g[k] = x /\ j = n - (x - z) /\ Len(K2) = s - w
          BY <1>11, <2>2, <2>5, <3>1, <4>1
        <5> QED
          BY <2>1, <4>3, <5>1
    <3>3. K2[j] = K[k - g[k]]
      BY <1>9, <1>10, <3>2
    <3> QED
      BY <2>1, <2>2, <2>5, <2>7, <3>1, <3>2, <3>3
  <2> QED
    BY <2>6, <2>7
<1>17. Split(Q, S2, K2, h)
  BY <1>2, <1>11, <1>13, <1>14, <1>15, <1>16 DEF Split
<1>18. Merged(Q, S2, K2)
  BY <1>17 DEF Merged
<1> QED
  BY <1>2, <1>8, <1>18 DEF Taken, Q

LEMMA MergedLen ==
  ASSUME NEW C, NEW S, NEW K, Merged(C, S, K)
  PROVE  Len(C) = Len(S) + Len(K)
BY DEF Merged, Split

\* What the steps below do at the ends of two sequences in a row.
EndLaws(T) ==
  \A s, t \in Seq(T) : \A x \in T :
    /\ Append(s \o t, x) = s \o Append(t, x)
    /\ s \o <<x>> = Append(s, x)
    /\ s \o << >> = s
    /\ SubSeq(Append(s, x), 1, Len(Append(s, x)) - 1) = s

GrowLaws(T) ==
  \A s \in Seq(T) : \A x \in T : Append(s, x) \in Seq(T) /\ Len(Append(s, x)) = Len(s) + 1

FrontLaws(T) ==
  \A s, t \in Seq(T) :
    /\ s # << >> => s \o t # << >> /\ Head(s \o t) = Head(s) /\ Tail(s \o t) = Tail(s) \o t
    /\ t # << >> => /\ Append(s, Head(t)) \o Tail(t) = s \o t
                    /\ Len(s) + 1 \in 1..Len(s \o t) /\ (s \o t)[Len(s) + 1] = Head(t)

LEMMA EndLawsHold == \A T : EndLaws(T)
<1> TAKE T
<1> SUFFICES ASSUME NEW s \in Seq(T), NEW t \in Seq(T), NEW x \in T
             PROVE  /\ Append(s \o t, x) = s \o Append(t, x)
                    /\ s \o <<x>> = Append(s, x)
                    /\ s \o << >> = s
                    /\ SubSeq(Append(s, x), 1, Len(Append(s, x)) - 1) = s
  BY DEF EndLaws
<1>1. /\ Append(s \o t, x) = s \o Append(t, x)
      /\ s \o <<x>> = Append(s, x)
      /\ s \o << >> = s
  OBVIOUS
<1>2. PICK v : v = SubSeq(Append(s, x), 1, Len(s))
  OBVIOUS
<1>3. v \in Seq(T) /\ Len(v) = Len(s) /\ \A i \in 1..Len(s) : v[i] = s[i]
  BY <1>2
<1>4. v = s
  BY <1>3, SameSeq
<1>5. Len(Append(s, x)) - 1 = Len(s)
  OBVIOUS
<1> QED
  BY <1>1, <1>2, <1>4, <1>5

LEMMA FrontLawsHold == \A T : FrontLaws(T)
<1> TAKE T
<1>1. ASSUME NEW s \in Seq(T), NEW t \in Seq(T), s # << >>
      PROVE  s \o t # << >> /\ Head(s \o t) = Head(s) /\ Tail(s \o t) = Tail(s) \o t
  BY <1>1
<1>2. ASSUME NEW s \in Seq(T), NEW t \in Seq(T), t # << >>
      PROVE  /\ Append(s, Head(t)) \o Tail(t) = s \o t
             /\ Len(s) + 1 \in 1..Len(s \o t) /\ (s \o t)[Len(s) + 1] = Head(t)
  BY <1>2
<1> QED
  BY <1>1, <1>2, Zenon DEF FrontLaws

LEMMA GrowLawsHold == \A T : GrowLaws(T)
<1> TAKE T
<1> QED
  BY DEF GrowLaws

LEMMA NatLaws == EndLaws(Nat) /\ GrowLaws(Nat) /\ FrontLaws(Nat)
BY EndLawsHold, GrowLawsHold, FrontLawsHold, Zenon
-----------------------------------------------------------------------------
\* The character in the UART.
Coming == IF rx \in {NoByte, 0} THEN << >> ELSE <<rx>>

\* What is owed is in the ring and the UART, what is due is in the ring and in
\* the bytes that the keyboard has sent.
Sources(S, K, d, e) ==
  /\ Merged(Contents, S, K) /\ Ahead(d, e)
  /\ owed = S \o Coming /\ due = K \o d

\* The inductive invariant of getchar and the two devices.
ConsInv ==
  /\ RingInv /\ KbdTypes /\ doubled = FALSE
  /\ rx \in SerialByte \cup {NoByte}
  /\ owed \in Seq(Nat) /\ due \in Seq(Char \ SerialByte)
  /\ Outstanding <= CONSBUFSIZE - 1
  /\ \E S, K, d \in Seq(Nat), e \in SUBSET Flag : Sources(S, K, d, e)

\* The steps of the ring that a step may be: none, or one of the queue's.
RingStep == [PacedNext]_ringVars

LEMMA CharIsNat ==
  /\ \A c \in Char : c \in Nat /\ c # 0
  /\ \A b \in SerialByte : b \in Nat /\ b # NoByte /\ (b # 0 => b \in Char)
  /\ Seq(Char \ SerialByte) \subseteq Seq(Nat)
<1>1. \A c \in Char : c \in Nat /\ c # 0
  BY CharAssumption
<1>2. \A b \in SerialByte : b \in Nat /\ b # NoByte /\ (b # 0 => b \in Char)
  BY SerialByteAssumption, SourcesAssumption DEF NoByte
<1>3. ASSUME NEW s \in Seq(Char \ SerialByte) PROVE s \in Seq(Nat)
  BY <1>1
<1> QED
  BY <1>1, <1>2, <1>3

\* How many characters wait in the ring.
LEMMA RingCount ==
  ASSUME RingInv, NEW S, NEW K, Merged(Contents, S, K)
  PROVE  Waiting = Len(S) + Len(K) /\ Contents \in Seq(Char)
BY ContentsIsSeq, MergedLen DEF ContentsOK

LEMMA RingSame ==
  ASSUME RingInv, UNCHANGED ringVars
  PROVE  RingInv' /\ Contents' = Contents
BY DEF RingInv, RingTypeOK, SlotsFilled, ringVars, Waiting, Slot, Contents

LEMMA RingStores ==
  ASSUME RingInv, NEW c \in Char, Store(c), Room
  PROVE  RingInv' /\ Contents' = Append(Contents, c) /\ RingStep
<1>1. RingInv'
  BY RingStepInv DEF RingNext
<1>2. ContentsOK /\ ContentsOK'
  BY <1>1, ContentsIsSeq, PTL
<1>3. Contents' = Append(Contents, c)
  BY <1>2, StoreIsFeed DEF Queue!Feed
<1> QED
  BY <1>1, <1>3 DEF RingStep, PacedNext

LEMMA RingFetches ==
  ASSUME RingInv, Fetch
  PROVE  /\ RingInv' /\ Contents # << >> /\ ret' = Head(Contents)
         /\ Contents' = Tail(Contents) /\ RingStep
<1>1. RingInv'
  BY RingStepInv DEF RingNext
<1>2. ContentsOK /\ ContentsOK'
  BY <1>1, ContentsIsSeq, PTL
<1>3. Queue!Return
  BY <1>2, FetchIsReturn
<1> QED
  BY <1>1, <1>3 DEF RingStep, PacedNext, Queue!Return

\* A step that leaves the ring, the UART and the owed characters alone.
LEMMA KeySteps ==
  ASSUME ConsInv, KeyEvent
  PROVE  ConsInv' /\ RingStep
<1>1. PICK S \in Seq(Nat), K \in Seq(Nat), d \in Seq(Nat), e \in SUBSET Flag : Sources(S, K, d, e)
  BY DEF ConsInv
<1>2. RingInv /\ KbdTypes /\ doubled = FALSE /\ owed \in Seq(Nat) /\ due \in Seq(Char \ SerialByte)
  BY DEF ConsInv
<1>3. UNCHANGED <<ringVars, rx, owed>> /\ Outstanding < CONSBUFSIZE - 1
  BY DEF KeyEvent, MaySend
<1>4. RingInv' /\ Contents' = Contents /\ RingStep
  BY <1>2, <1>3, RingSame DEF RingStep
<1>5. Merged(Contents, S, K) /\ Ahead(d, e) /\ owed = S \o Coming /\ due = K \o d
  BY <1>1 DEF Sources
<1>6. Coming' = Coming
  BY <1>3 DEF Coming
<1>7. CASE \E k \in Key : PressKey(k)
  <2>1. PICK k \in Key : PressKey(k)
    BY <1>7
  <2>2. PICK ch : ch = Types(k)
    OBVIOUS
  <2>3. KbdTypes' /\ ch \in Nat /\ Grown(d, ch)
    BY <1>2, <1>5, <2>1, <2>2, PressAhead
  <2>4. ch \in (Char \ SerialByte) \cup {0}
    <3>1. held \cup {k} \in SUBSET Key /\ (IF k = 58 THEN ~caps ELSE caps) \in BOOLEAN
      BY <1>2 DEF KbdTypes
    <3> QED
      BY <2>2, <3>1, SourcesAssumption DEF Types
  <2>5. /\ due' = (IF ch = 0 THEN due ELSE Append(due, ch))
        /\ doubled' = (doubled \/ Down(shiftcode(k), held \ {k}))
    BY <2>1, <2>2 DEF PressKey, Types
  <2>6. doubled' = FALSE
    <3>1. ~doubled' /\ doubled' \in BOOLEAN
      BY <1>2, <2>5 DEF KeyEvent, Down
    <3> QED
      BY <3>1
  <2>7. PICK d2 \in Seq(Nat), u \in SUBSET Flag :
          Ahead(d2, u)' /\ (~doubled' => d2 = (IF ch = 0 THEN d ELSE Append(d, ch)))
    BY <2>3 DEF Grown
  <2>8. due' \in Seq(Char \ SerialByte) /\ Len(due') <= Len(due) + 1 /\ Len(due') \in Nat
    BY <1>2, <2>4, <2>5
  <2>9. due' = K \o d2
    <3>1. CASE ch = 0
      BY <1>5, <2>5, <2>6, <2>7, <3>1
    <3>2. CASE ch # 0
      <4>1. ch \in Nat
        BY <2>3
      <4>2. Append(K \o d, ch) = K \o Append(d, ch)
        BY <4>1, NatLaws, Zenon DEF EndLaws
      <4> QED
        BY <1>5, <2>5, <2>6, <2>7, <3>2, <4>2
    <3> QED
      BY <3>1, <3>2
  <2>10. Sources(S, K, d2, u)'
    BY <1>3, <1>4, <1>5, <1>6, <2>7, <2>9 DEF Sources
  <2>11. (Outstanding <= CONSBUFSIZE - 1)'
    <3>1. PICK a, b, m, n : a = Len(due) /\ b = Len(due') /\ m = Len(owed) /\ n = CONSBUFSIZE
      OBVIOUS
    <3>2. a \in Nat /\ b \in Nat /\ m \in Nat /\ n \in Nat /\ b <= a + 1 /\ a + m < n - 1
      BY <1>2, <1>3, <2>8, <3>1, ConsBufSizeAssumption DEF Outstanding
    <3>3. b + m <= n - 1
      BY <3>2
    <3> QED
      BY <1>3, <3>1, <3>3 DEF Outstanding
  <2> QED
    BY <1>2, <1>3, <1>4, <2>3, <2>6, <2>7, <2>8, <2>10, <2>11 DEF ConsInv
<1>8. CASE \E k \in Key : ReleaseKey(k)
  <2>1. PICK k \in Key : ReleaseKey(k)
    BY <1>8
  <2>2. KbdTypes' /\ \E u \in SUBSET Flag : Ahead(d, u)'
    BY <1>2, <1>5, <2>1, ReleaseAhead
  <2>3. PICK u \in SUBSET Flag : Ahead(d, u)'
    BY <2>2
  <2>4. UNCHANGED <<due, doubled>>
    BY <2>1 DEF ReleaseKey
  <2>5. Sources(S, K, d, u)'
    BY <1>3, <1>4, <1>5, <1>6, <2>3, <2>4 DEF Sources
  <2>6. (Outstanding <= CONSBUFSIZE - 1)'
    BY <1>3, <2>4 DEF ConsInv, Outstanding
  <2> QED
    BY <1>2, <1>3, <1>4, <2>2, <2>3, <2>4, <2>5, <2>6 DEF ConsInv
<1> QED
  BY <1>7, <1>8 DEF KeyEvent

LEMMA KeyTransferInv ==
  ASSUME ConsInv, KeyTransfer
  PROVE  ConsInv' /\ RingStep
<1>1. PICK S \in Seq(Nat), K \in Seq(Nat), d \in Seq(Nat), e \in SUBSET Flag : Sources(S, K, d, e)
  BY DEF ConsInv
<1>2. RingInv /\ KbdTypes
  BY DEF ConsInv
<1>3. UNCHANGED <<ringVars, rx, owed>> /\ UNCHANGED <<due, doubled>>
  BY DEF KeyTransfer, Transfer
<1>4. RingInv' /\ Contents' = Contents /\ RingStep
  BY <1>2, <1>3, RingSame DEF RingStep
<1>5. Merged(Contents, S, K) /\ Ahead(d, e) /\ owed = S \o Coming /\ due = K \o d
  BY <1>1 DEF Sources
<1>6. KbdTypes' /\ Ahead(d, e)'
  BY <1>2, <1>5, TransferAhead DEF KeyTransfer
<1>7. Sources(S, K, d, e)'
  BY <1>3, <1>4, <1>5, <1>6 DEF Sources, Coming
<1>8. (Outstanding <= CONSBUFSIZE - 1)'
  BY <1>3 DEF ConsInv, Outstanding
<1> QED
  BY <1>3, <1>4, <1>6, <1>7, <1>8 DEF ConsInv

\* A step of neither device and not of the ring.
LEMMA OtherSteps ==
  ASSUME ConsInv, UNCHANGED <<ringVars, kbdVars, rx, owed>>
  PROVE  ConsInv' /\ RingStep
<1>1. PICK S \in Seq(Nat), K \in Seq(Nat), d \in Seq(Nat), e \in SUBSET Flag : Sources(S, K, d, e)
  BY DEF ConsInv
<1>2. UNCHANGED <<held, caps, wire, obf, shift, due, chord, doubled, rebooted>>
  BY DEF kbdVars
<1>3. RingInv' /\ Contents' = Contents /\ RingStep
  BY RingSame DEF RingStep, ConsInv
<1>4. Ahead(d, e) => Ahead(d, e)'
  BY <1>2 DEF Ahead, Backed, Exact, Pending
<1>5. Sources(S, K, d, e)'
  BY <1>1, <1>2, <1>3, <1>4 DEF Sources, Coming
<1>6. KbdTypes'
  BY <1>2, Zenon DEF KbdTypes, ConsInv
<1>7. (Outstanding <= CONSBUFSIZE - 1)'
  BY <1>2 DEF ConsInv, Outstanding
<1> QED
  BY <1>2, <1>3, <1>5, <1>6, <1>7 DEF ConsInv

LEMMA SerialArriveInv ==
  ASSUME ConsInv, NEW b \in SerialByte, SerialArrive(b)
  PROVE  ConsInv' /\ RingStep
<1>1. PICK S \in Seq(Nat), K \in Seq(Nat), d \in Seq(Nat), e \in SUBSET Flag : Sources(S, K, d, e)
  BY DEF ConsInv
<1>2. RingInv /\ KbdTypes /\ rx \in SerialByte \cup {NoByte} /\ owed \in Seq(Nat)
  BY DEF ConsInv
<1>3. /\ UNCHANGED <<ringVars, kbdVars>> /\ rx' = b /\ Outstanding < CONSBUFSIZE - 1
      /\ owed' = (IF b = 0 THEN IF rx \in {NoByte, 0} THEN owed ELSE SubSeq(owed, 1, Len(owed) - 1)
                  ELSE Append(IF rx \in {NoByte, 0} THEN owed
                              ELSE SubSeq(owed, 1, Len(owed) - 1), b))
  BY DEF SerialArrive, MaySend
<1>4. UNCHANGED <<held, caps, wire, obf, shift, due, chord, doubled, rebooted>>
  BY <1>3 DEF kbdVars
<1>5. RingInv' /\ Contents' = Contents /\ RingStep
  BY <1>2, <1>3, RingSame DEF RingStep
<1>6. Merged(Contents, S, K) /\ Ahead(d, e) /\ owed = S \o Coming /\ due = K \o d
  BY <1>1 DEF Sources
<1>7. b \in Nat /\ b # NoByte
  BY CharIsNat
<1>8. (IF rx \in {NoByte, 0} THEN owed ELSE SubSeq(owed, 1, Len(owed) - 1)) = S
  <2>1. CASE rx \in {NoByte, 0}
    BY <1>6, <2>1, NatLaws, Zenon DEF EndLaws, Coming
  <2>2. CASE rx \notin {NoByte, 0}
    <3>1. rx \in Nat
      BY <1>2, <2>2, CharIsNat
    <3>2. owed = S \o <<rx>>
      BY <1>6, <2>2 DEF Coming
    <3>3. owed = Append(S, rx)
      BY <3>1, <3>2, NatLaws, Zenon DEF EndLaws
    <3> QED
      BY <2>2, <3>1, <3>3, NatLaws, Zenon DEF EndLaws
  <2> QED
    BY <2>1, <2>2
<1>9. owed' = S \o Coming'
  <2>1. CASE b = 0
    <3>1. Coming' = << >>
      BY <1>3, <2>1 DEF Coming
    <3> QED
      BY <1>3, <1>8, <2>1, <3>1, NatLaws, Zenon DEF EndLaws
  <2>2. CASE b # 0
    <3>1. Coming' = <<b>> /\ owed' = Append(S, b)
      BY <1>3, <1>7, <1>8, <2>2 DEF Coming
    <3> QED
      BY <1>7, <3>1, NatLaws, Zenon DEF EndLaws
  <2> QED
    BY <2>1, <2>2
<1>10. Ahead(d, e)'
  BY <1>4, <1>6 DEF Ahead, Backed, Exact, Pending
<1>11. Sources(S, K, d, e)'
  BY <1>4, <1>5, <1>6, <1>9, <1>10 DEF Sources
<1>12. KbdTypes'
  BY <1>2, <1>4, Zenon DEF KbdTypes
<1>13. owed' \in Seq(Nat) /\ (Outstanding <= CONSBUFSIZE - 1)'
  <2>1. owed' = S \/ owed' = Append(S, b)
    BY <1>3, <1>8
  <2>2. owed' \in Seq(Nat) /\ Len(owed') <= Len(S) + 1
    <3>1. Append(S, b) \in Seq(Nat) /\ Len(Append(S, b)) = Len(S) + 1
      BY <1>7, NatLaws, Zenon DEF GrowLaws
    <3>2. Len(S) <= Len(S) + 1 /\ Len(S) + 1 <= Len(S) + 1
      OBVIOUS
    <3> QED
      BY <2>1, <3>1, <3>2, Zenon
  <2>3. Len(S) <= Len(owed)
    BY <1>6 DEF Coming
  <2>4. PICK a, m, l, n, o : a = Len(due) /\ l = Len(S) /\ m = Len(owed') /\ n = CONSBUFSIZE /\ o = Len(owed)
    OBVIOUS
  <2>5. /\ a \in Nat /\ m \in Nat /\ l \in Nat /\ n \in Nat /\ o \in Nat
        /\ m <= l + 1 /\ a + o < n - 1 /\ l <= o
    BY <1>2, <1>3, <2>2, <2>3, <2>4, ConsBufSizeAssumption DEF Outstanding, ConsInv
  <2>6. a + m <= n - 1
    BY <2>5
  <2> QED
    BY <1>4, <2>2, <2>4, <2>6 DEF Outstanding
<1> QED
  BY <1>3, <1>4, <1>5, <1>11, <1>12, <1>13 DEF ConsInv

\* There is a free slot for a character that is still to come.
LEMMA RoomForOne ==
  ASSUME ConsInv, NEW S \in Seq(Nat), NEW K \in Seq(Nat), NEW d \in Seq(Nat), NEW e,
         Sources(S, K, d, e), Coming # << >> \/ d # << >>
  PROVE  Room
<1>1. Waiting = Len(S) + Len(K)
  BY RingCount DEF Sources, ConsInv
<1>2. owed = S \o Coming /\ due = K \o d /\ Len(due) + Len(owed) <= CONSBUFSIZE - 1
  BY DEF Sources, ConsInv, Outstanding
<1>3. Coming \in Seq(Nat)
  BY CharIsNat DEF Coming, ConsInv
<1>4. Len(owed) = Len(S) + Len(Coming) /\ Len(due) = Len(K) + Len(d)
  BY <1>2, <1>3
<1>5. PICK s, k, c, l, n : s = Len(S) /\ k = Len(K) /\ c = Len(Coming) /\ l = Len(d) /\ n = CONSBUFSIZE
  OBVIOUS
<1>6. s \in Nat /\ k \in Nat /\ c \in Nat /\ l \in Nat /\ n \in Nat /\ (c > 0 \/ l > 0)
  BY <1>3, <1>5, ConsBufSizeAssumption
<1>7. k + l + s + c <= n - 1
  BY <1>2, <1>4, <1>5, <1>6
<1>8. s + k < n - 1
  BY <1>6, <1>7
<1> QED
  BY <1>1, <1>5, <1>8 DEF Room

LEMMA SerialDataInv ==
  ASSUME ConsInv, SerialData
  PROVE  ConsInv' /\ RingStep
<1>1. PICK S \in Seq(Nat), K \in Seq(Nat), d \in Seq(Nat), e \in SUBSET Flag : Sources(S, K, d, e)
  BY DEF ConsInv
<1>2. RingInv /\ KbdTypes /\ rx \in SerialByte \cup {NoByte} /\ owed \in Seq(Nat)
  BY DEF ConsInv
<1>3. /\ UNCHANGED <<kbdVars, owed>> /\ rx # NoByte /\ rx' = NoByte
      /\ IF rx = 0 THEN UNCHANGED ringVars ELSE Store(rx)
  BY DEF SerialData
<1>4. UNCHANGED <<held, caps, wire, obf, shift, due, chord, doubled, rebooted>>
  BY <1>3 DEF kbdVars
<1>5. Merged(Contents, S, K) /\ Ahead(d, e) /\ owed = S \o Coming /\ due = K \o d
  BY <1>1 DEF Sources
<1>6. Coming' = << >>
  BY <1>3 DEF Coming
<1>7. Ahead(d, e)' /\ KbdTypes'
  <2>1. Ahead(d, e)'
    BY <1>4, <1>5 DEF Ahead, Backed, Exact, Pending
  <2>2. KbdTypes'
    BY <1>2, <1>4, Zenon DEF KbdTypes
  <2> QED
    BY <2>1, <2>2
<1>8. (Outstanding <= CONSBUFSIZE - 1)'
  BY <1>3, <1>4 DEF ConsInv, Outstanding
<1>9. CASE rx = 0
  <2>1. RingInv' /\ Contents' = Contents /\ RingStep
    BY <1>2, <1>3, <1>9, RingSame DEF RingStep
  <2>2. Coming = << >>
    BY <1>9 DEF Coming
  <2>3. Sources(S, K, d, e)'
    BY <1>3, <1>4, <1>5, <1>6, <1>7, <2>1, <2>2 DEF Sources
  <2> QED
    BY <1>3, <1>4, <1>7, <1>8, <2>1, <2>3 DEF ConsInv
<1>10. CASE rx # 0
  <2>1. Coming = <<rx>> /\ rx \in Char /\ rx \in SerialByte /\ rx \in Nat
    BY <1>2, <1>3, <1>10, CharIsNat DEF Coming
  <2>2. Room
    BY <1>1, <2>1, RoomForOne
  <2>3. RingInv' /\ Contents' = Append(Contents, rx) /\ RingStep
    <3>1. Store(rx)
      BY <1>3, <1>10
    <3> QED
      BY <1>2, <2>1, <2>2, <3>1, RingStores, Zenon
  <2>4. PICK S2 \in Seq(Nat) : S2 = Append(S, rx)
    BY <2>1, NatLaws, Zenon DEF GrowLaws
  <2>5. Contents \in Seq(Char)
    BY <1>2, <1>5, RingCount
  <2>6. Merged(Append(Contents, rx), S2, K)
    BY <1>5, <2>1, <2>4, <2>5, MergeAdd
  <2>7. owed' = S2 \o Coming'
    <3>1. S \o <<rx>> = Append(S, rx) /\ S2 \o << >> = S2
      BY <2>1, NatLaws, Zenon DEF EndLaws
    <3> QED
      BY <1>3, <1>5, <1>6, <2>1, <2>4, <3>1
  <2>8. Sources(S2, K, d, e)'
    BY <1>4, <1>5, <1>7, <2>3, <2>6, <2>7 DEF Sources
  <2> QED
    BY <1>3, <1>4, <1>7, <1>8, <2>3, <2>8 DEF ConsInv
<1> QED
  BY <1>9, <1>10

LEMMA KbdDataInv ==
  ASSUME ConsInv, KbdData
  PROVE  ConsInv' /\ RingStep
<1>1. PICK S \in Seq(Nat), K \in Seq(Nat), d \in Seq(Nat), e \in SUBSET Flag : Sources(S, K, d, e)
  BY DEF ConsInv
<1>2. RingInv /\ KbdTypes /\ due \in Seq(Char \ SerialByte)
  BY DEF ConsInv
<1>3. /\ UNCHANGED <<rx, owed, due>> /\ ProcData
      /\ IF kc' = 0 THEN UNCHANGED ringVars ELSE Store(kc')
  BY DEF KbdData
<1>4. UNCHANGED doubled
  BY <1>3 DEF ProcData
<1>5. Merged(Contents, S, K) /\ Ahead(d, e) /\ owed = S \o Coming /\ due = K \o d
  BY <1>1 DEF Sources
<1>6. Coming' = Coming
  BY <1>3 DEF Coming
<1>7. /\ KbdTypes' /\ kc' \in Nat
      /\ kc' # 0 => d # << >> /\ kc' = Head(d)
      /\ \E d2 \in Seq(Nat) : d2 = (IF kc' = 0 THEN d ELSE Tail(d)) /\ Ahead(d2, e)'
  BY <1>2, <1>3, <1>5, DecodeAhead
<1>8. PICK d2 \in Seq(Nat) : d2 = (IF kc' = 0 THEN d ELSE Tail(d)) /\ Ahead(d2, e)'
  BY <1>7
<1>9. (Outstanding <= CONSBUFSIZE - 1)'
  BY <1>3 DEF ConsInv, Outstanding
<1>10. CASE kc' = 0
  <2>1. RingInv' /\ Contents' = Contents /\ RingStep
    BY <1>2, <1>3, <1>10, RingSame DEF RingStep
  <2>2. Sources(S, K, d2, e)'
    BY <1>3, <1>5, <1>6, <1>8, <1>10, <2>1 DEF Sources
  <2> QED
    BY <1>3, <1>4, <1>7, <1>9, <2>1, <2>2 DEF ConsInv
<1>11. CASE kc' # 0
  <2>1. PICK c \in Nat : c = kc'
    BY <1>7
  <2>2. d # << >> /\ c = Head(d) /\ d2 = Tail(d) /\ Store(c)
    BY <1>3, <1>7, <1>8, <1>11, <2>1
  <2>3. /\ Append(K, c) \o d2 = due
        /\ Len(K) + 1 \in 1..Len(due) /\ due[Len(K) + 1] = c
    BY <1>5, <2>2, NatLaws, Zenon DEF FrontLaws
  <2>4. c \in Char \ SerialByte
    BY <1>2, <2>3
  <2>5. Room
    BY <1>1, <2>2, RoomForOne
  <2>6. RingInv' /\ Contents' = Append(Contents, c) /\ RingStep
    BY <1>2, <2>2, <2>4, <2>5, RingStores, Zenon
  <2>7. PICK K2 \in Seq(Nat) : K2 = Append(K, c)
    BY <2>1, NatLaws, Zenon DEF GrowLaws
  <2>8. Contents \in Seq(Char)
    BY <1>2, <1>5, RingCount
  <2>9. Merged(Append(Contents, c), S, K2)
    BY <1>5, <2>4, <2>7, <2>8, MergeAdd
  <2>10. Sources(S, K2, d2, e)'
    BY <1>3, <1>5, <1>6, <1>8, <2>3, <2>6, <2>7, <2>9 DEF Sources
  <2> QED
    BY <1>3, <1>4, <1>7, <1>9, <2>6, <2>10 DEF ConsInv
<1> QED
  BY <1>10, <1>11

\* The oldest character waiting is the oldest of its source.
InOrder ==
  \/ owed # << >> /\ ret' = Head(owed) /\ owed' = Tail(owed)
  \/ due # << >> /\ ret' = Head(due) /\ due' = Tail(due)

LEMMA GetcCharInv ==
  ASSUME ConsInv, GetcChar
  PROVE  ConsInv' /\ RingStep /\ InOrder
<1>1. PICK S \in Seq(Nat), K \in Seq(Nat), d \in Seq(Nat), e \in SUBSET Flag : Sources(S, K, d, e)
  BY DEF ConsInv
<1>2. RingInv /\ KbdTypes /\ owed \in Seq(Nat) /\ due \in Seq(Char \ SerialByte)
  BY DEF ConsInv
<1>3. /\ UNCHANGED <<held, caps, wire, obf, shift, chord, doubled, rebooted, rx>> /\ Fetch
      /\ ret' \in SerialByte => owed' = (IF owed = << >> THEN owed ELSE Tail(owed)) /\ due' = due
      /\ ret' \notin SerialByte => due' = (IF due = << >> THEN due ELSE Tail(due)) /\ owed' = owed
  BY DEF GetcChar
<1>4. Merged(Contents, S, K) /\ Ahead(d, e) /\ owed = S \o Coming /\ due = K \o d
  BY <1>1 DEF Sources
<1>5. Coming' = Coming /\ Coming \in Seq(Nat)
  BY <1>3, CharIsNat DEF Coming, ConsInv
<1>6. /\ RingInv' /\ Contents # << >> /\ ret' = Head(Contents)
      /\ Contents' = Tail(Contents) /\ RingStep
  BY <1>2, <1>3, RingFetches, Zenon
<1>7. Ahead(d, e)' /\ KbdTypes'
  <2>1. Ahead(d, e)'
    BY <1>3, <1>4 DEF Ahead, Backed, Exact, Pending
  <2>2. KbdTypes'
    BY <1>2, <1>3, Zenon DEF KbdTypes
  <2> QED
    BY <2>1, <2>2
<1>8. PICK C : C = Contents
  OBVIOUS
<1>9. C \in Seq(Char) /\ C # << >> /\ Merged(C, S, K) /\ ret' = Head(C)
  BY <1>2, <1>4, <1>6, <1>8, RingCount
<1>10. CASE ret' \in SerialByte
  <2>1. PICK S2 : S2 = Tail(S)
    OBVIOUS
  <2>2. Taken(C, S, K, S2, K)
    BY <1>9, <1>10, <2>1, MergeTake
  <2>3. S # << >> /\ Head(S) = ret' /\ Merged(Tail(C), S2, K)
    BY <1>9, <1>10, <2>2 DEF Taken
  <2>4. S2 \in Seq(Nat)
    BY <2>1, <2>3
  <2>5. owed # << >> /\ Head(owed) = ret' /\ Tail(owed) = S2 \o Coming
    BY <1>4, <1>5, <2>1, <2>3, NatLaws, Zenon DEF FrontLaws
  <2>6. owed' = Tail(owed) /\ due' = due
    BY <1>3, <1>10, <2>5
  <2>7. owed' \in Seq(Nat) /\ Len(owed') <= Len(owed)
    BY <1>2, <2>5, <2>6
  <2>8. Sources(S2, K, d, e)'
    BY <1>4, <1>5, <1>6, <1>7, <1>8, <2>3, <2>5, <2>6 DEF Sources
  <2>9. (Outstanding <= CONSBUFSIZE - 1)'
    <3>1. PICK a, m, n, o : a = Len(due) /\ m = Len(owed') /\ n = CONSBUFSIZE /\ o = Len(owed)
      OBVIOUS
    <3>2. a \in Nat /\ m \in Nat /\ n \in Nat /\ o \in Nat /\ m <= o /\ a + o <= n - 1
      BY <1>2, <2>7, <3>1, ConsBufSizeAssumption DEF ConsInv, Outstanding
    <3>3. a + m <= n - 1
      BY <3>2
    <3> QED
      BY <2>6, <3>1, <3>3 DEF Outstanding
  <2>10. ConsInv'
    BY <1>3, <1>6, <1>7, <2>4, <2>6, <2>7, <2>8, <2>9 DEF ConsInv
  <2>11. InOrder
    BY <2>5, <2>6 DEF InOrder
  <2> QED
    BY <1>6, <2>10, <2>11
<1>11. CASE ret' \notin SerialByte
  <2>1. PICK K2 : K2 = Tail(K)
    OBVIOUS
  <2>2. Taken(C, S, K, S, K2)
    BY <1>9, <1>11, <2>1, MergeTake
  <2>3. K # << >> /\ Head(K) = ret' /\ Merged(Tail(C), S, K2)
    BY <1>9, <1>11, <2>2 DEF Taken
  <2>4. K2 \in Seq(Nat)
    BY <2>1, <2>3
  <2>5. due # << >> /\ Head(due) = ret' /\ Tail(due) = K2 \o d
    BY <1>4, <2>1, <2>3, NatLaws, Zenon DEF FrontLaws
  <2>6. due' = Tail(due) /\ owed' = owed
    BY <1>3, <1>11, <2>5
  <2>7. due' \in Seq(Char \ SerialByte) /\ Len(due') <= Len(due) /\ Len(due') \in Nat
    BY <1>2, <2>5, <2>6
  <2>8. Sources(S, K2, d, e)'
    BY <1>4, <1>5, <1>6, <1>7, <1>8, <2>3, <2>5, <2>6 DEF Sources
  <2>9. (Outstanding <= CONSBUFSIZE - 1)'
    <3>1. PICK a, m, n, o : a = Len(due) /\ m = Len(due') /\ n = CONSBUFSIZE /\ o = Len(owed)
      OBVIOUS
    <3>2. a \in Nat /\ m \in Nat /\ n \in Nat /\ o \in Nat /\ m <= a /\ a + o <= n - 1
      BY <1>2, <2>7, <3>1, ConsBufSizeAssumption DEF ConsInv, Outstanding
    <3>3. m + o <= n - 1
      BY <3>2
    <3> QED
      BY <2>6, <3>1, <3>3 DEF Outstanding
  <2>10. ConsInv'
    BY <1>2, <1>3, <1>6, <1>7, <2>4, <2>6, <2>7, <2>8, <2>9 DEF ConsInv
  <2>11. InOrder
    BY <2>5, <2>6 DEF InOrder
  <2> QED
    BY <1>6, <2>10, <2>11
<1> QED
  BY <1>10, <1>11

LEMMA GetcNoneInv ==
  ASSUME ConsInv, GetcNone
  PROVE  ConsInv' /\ RingStep
<1>1. PICK S \in Seq(Nat), K \in Seq(Nat), d \in Seq(Nat), e \in SUBSET Flag : Sources(S, K, d, e)
  BY DEF ConsInv
<1>2. /\ UNCHANGED <<held, caps, wire, obf, shift, due, chord, doubled, rebooted, rx, owed>>
      /\ UNCHANGED <<buf, rpos, wpos>> /\ FetchNone
  BY DEF GetcNone, kbdVars, FetchNone
<1>3. RingInv /\ KbdTypes
  BY DEF ConsInv
<1>4. RingInv' /\ RingStep
  BY <1>2, <1>3, RingStepInv DEF RingNext, RingStep, PacedNext
<1>5. Contents' = Contents
  BY <1>2 DEF Contents, Waiting, Slot
<1>6. Ahead(d, e) => Ahead(d, e)'
  BY <1>2 DEF Ahead, Backed, Exact, Pending
<1>7. Sources(S, K, d, e)'
  BY <1>1, <1>2, <1>5, <1>6 DEF Sources, Coming
<1>8. KbdTypes'
  BY <1>2, <1>3, Zenon DEF KbdTypes
<1>9. (Outstanding <= CONSBUFSIZE - 1)'
  BY <1>2 DEF ConsInv, Outstanding
<1> QED
  BY <1>2, <1>4, <1>7, <1>8, <1>9 DEF ConsInv

LEMMA ConsInitInv ==
  ConsInit => ConsInv
<1> SUFFICES ASSUME ConsInit PROVE ConsInv
  OBVIOUS
<1>1. RingInit /\ KbdInit /\ rx = NoByte /\ owed = << >>
  BY DEF ConsInit
<1>2. RingInv /\ KbdTypes /\ Ahead(<< >>, {})
  BY <1>1, RingInitInv, KbdInitAhead
<1>3. due = << >> /\ doubled = FALSE
  BY <1>1 DEF KbdInit
<1>4. Contents = << >>
  <2>1. Waiting = 0
    BY <1>1 DEF RingInit, Waiting
  <2> QED
    BY <1>2, <2>1, ContentsIsSeq DEF ContentsOK
<1>5. Merged(<< >>, << >>, << >>)
  <2>1. Split(<< >>, << >>, << >>, [n \in 0..0 |-> 0])
    BY DEF Split
  <2> QED
    BY <2>1 DEF Merged
<1>6. Sources(<< >>, << >>, << >>, {})
  BY <1>1, <1>2, <1>3, <1>4, <1>5 DEF Sources, Coming
<1>7. \E S, K, d \in Seq(Nat), e \in SUBSET Flag : Sources(S, K, d, e)
  <2>1. << >> \in Seq(Nat) /\ {} \in SUBSET Flag
    OBVIOUS
  <2> QED
    BY <1>6, <2>1, Zenon
<1>8. Outstanding <= CONSBUFSIZE - 1
  BY <1>1, <1>3, ConsBufSizeAssumption DEF Outstanding
<1> QED
  BY <1>1, <1>2, <1>3, <1>7, <1>8 DEF ConsInv

LEMMA ConsStep ==
  ASSUME ConsInv, [ConsNext]_inVars
  PROVE  ConsInv' /\ RingStep
<1>1. CASE KeyEvent
  BY <1>1, KeySteps
<1>2. CASE KeyTransfer
  BY <1>2, KeyTransferInv
<1>3. CASE \E b \in SerialByte : SerialArrive(b)
  BY <1>3, SerialArriveInv
<1>4. CASE SerialData
  BY <1>4, SerialDataInv
<1>5. CASE KbdData
  BY <1>5, KbdDataInv
<1>6. CASE GetcChar
  BY <1>6, GetcCharInv
<1>7. CASE GetcNone
  BY <1>7, GetcNoneInv
<1>8. CASE GoQuiet \/ Getchar \/ SerialNone \/ KbdNone \/ UNCHANGED inVars
  <2>1. UNCHANGED <<ringVars, kbdVars, rx, owed>>
    BY <1>8 DEF GoQuiet, Getchar, SerialNone, KbdNone, inVars
  <2> QED
    BY <2>1, OtherSteps
<1> QED
  BY <1>1, <1>2, <1>3, <1>4, <1>5, <1>6, <1>7, <1>8 DEF ConsNext, Kernel, Devices

\* For every size of the buffer and all sets of keys and serial bytes, getchar
\* returns the characters of each device in the order in which they were typed
\* or received, however the events of the devices and the polls interleave.
THEOREM ReturnsInOrderCorrect == ConsSpec => ReturnsInOrder
<1>1. ConsInv /\ [ConsNext]_inVars => ConsInv'
  BY ConsStep
<1>2. ConsInv /\ [ConsNext]_inVars => [GetcChar => InOrder]_inVars
  BY GetcCharInv
<1>3. ConsSpec => [][GetcChar => InOrder]_inVars
  BY <1>1, <1>2, ConsInitInv, PTL DEF ConsSpec
<1>4. [GetcChar => InOrder]_inVars
        => [GetcChar => \/ owed # << >> /\ ret' = Head(owed) /\ owed' = Tail(owed)
                        \/ due # << >> /\ ret' = Head(due) /\ due' = Tail(due)]_inVars
  BY DEF InOrder
<1> QED
  BY <1>3, <1>4, PTL DEF ReturnsInOrder

\* The whole input path keeps the promise made above cons_getc: the users that
\* MaySend and KeyEvent restrain never make cons_intr overwrite a character, so the buffer
\* that both devices feed is a first-in first-out queue.
THEOREM InputImplementsQueue == ConsSpec => ImplementsQueue
<1>1. ConsInv /\ [ConsNext]_inVars => ConsInv' /\ [PacedNext]_ringVars
  BY ConsStep DEF RingStep
<1>2. ConsInit => RingInit
  BY DEF ConsInit
<1>3. ConsSpec => PacedSpec
  BY <1>1, <1>2, ConsInitInv, PTL DEF ConsSpec, PacedSpec
<1> QED
  BY <1>3, RingImplementsQueue, PTL
=============================================================================
