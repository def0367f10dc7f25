--------------------------- MODULE MonitorProofs ---------------------------
(***************************************************************************)
(* Theorems about readline and the monitor, for every screen, buffer and   *)
(* argv size that satisfy the assumptions, any prompt, any input and any   *)
(* number of panics.  The monitor shares readline's static buffer: it      *)
(* splits the line in place, so what readline guarantees has to survive    *)
(* it.  ConsOutProofs is extended for its theorems about the screen.       *)
(***************************************************************************)
EXTENDS Monitor, ConsOutProofs, FiniteSetTheorems, FunctionTheorems

(***************************************************************************)
(* readline alone.                                                         *)
(***************************************************************************)

\* The places of the screen before the cursor show the buffer.
Mirrors ==
  /\ i <= crt_pos
  /\ \A n \in 0..i-1 : crt_buf[crt_pos - i + n].glyph = buf[n]

\* The characters of the line are input, never 0.
Filled == \A n \in 0..i-1 : buf[n] \in Input

\* The inductive invariant.
LineInv ==
  /\ LineTypeOK
  /\ at = "loop" => Mirrors
  /\ at \in {"loop", "returned"} => Filled
  /\ at = "returned" => buf[i] = 0

\* The constants in the form the steps use.
LEMMA LineSizes ==
  /\ BUFLEN \in Nat \ {0} /\ CRT_SIZE \in Nat /\ CRT_COLS \in Nat \ {0}
  /\ BUFLEN - 1 <= CRT_SIZE - CRT_COLS /\ CRT_COLS <= CRT_SIZE
  /\ Input \subseteq 1..255 /\ PromptLen \in Nat /\ PromptGlyph \in Glyph
BY Sizes, BuflenAssumption, InputAssumption, PromptAssumption,
   PromptGlyphAssumption, LineFitsAssumption DEF PromptGlyph

\* What PutGlyph does to the screen: the glyph is written at the cursor, and
\* when the screen scrolls everything moves with the cursor.
LEMMA GlyphShifts ==
  ASSUME CgaTypeOK, NEW c, PutGlyph(Grey, c),
         NEW w, w = [crt_buf EXCEPT ![crt_pos] = CellOf(Grey, c)]
  PROVE  \/ crt_pos' = crt_pos + 1 /\ crt_buf' = w
         \/ /\ crt_pos + 1 = CRT_SIZE
            /\ crt_pos' = CRT_SIZE - CRT_COLS
            /\ \A p \in CRT_COLS..CRT_SIZE-1 : crt_buf'[p - CRT_COLS] = w[p]
<1>1. /\ crt_pos \in 0..CRT_SIZE-1
      /\ crt_buf' = SettledBuf(w, crt_pos + 1)
      /\ crt_pos' = SettledPos(crt_pos + 1)
      /\ CRT_SIZE \in Nat /\ CRT_COLS \in Nat \ {0} /\ CRT_COLS <= CRT_SIZE
  BY LineSizes DEF CgaTypeOK, PutGlyph, Settle
<1>2. CASE crt_pos + 1 < CRT_SIZE
  BY <1>1, <1>2 DEF SettledBuf, SettledPos
<1>3. CASE crt_pos + 1 >= CRT_SIZE
  <2>1. crt_pos + 1 = CRT_SIZE /\ crt_pos' = CRT_SIZE - CRT_COLS
          /\ crt_buf' = ScrollUp(w)
    BY <1>1, <1>3 DEF SettledBuf, SettledPos
  <2>2. ASSUME NEW p \in CRT_COLS..CRT_SIZE-1
        PROVE  ScrollUp(w)[p - CRT_COLS] = w[p]
    <3>1. p - CRT_COLS \in 0..CRT_SIZE-1 /\ ~(p - CRT_COLS >= CRT_SIZE - CRT_COLS)
            /\ (p - CRT_COLS) + CRT_COLS = p
      BY <1>1
    <3> QED
      BY <3>1 DEF ScrollUp
  <2> QED
    BY <2>1, <2>2
<1>4. crt_pos + 1 < CRT_SIZE \/ crt_pos + 1 >= CRT_SIZE
  BY <1>1
<1> QED
  BY <1>2, <1>3, <1>4

\* The line stays mirrored when a character is inserted and echoed.
LEMMA InsertMirrors ==
  ASSUME LineTypeOK, Mirrors, NEW c, PutGlyph(Grey, c), i < BUFLEN - 1,
         i' = i + 1, buf' = [buf EXCEPT ![i] = c]
  PROVE  Mirrors'
<1> DEFINE w == [crt_buf EXCEPT ![crt_pos] = CellOf(Grey, c)]
<1>1. /\ crt_pos \in 0..CRT_SIZE-1 /\ crt_buf \in [0..CRT_SIZE-1 -> Cell]
      /\ i \in Nat /\ i <= crt_pos /\ i + 1 <= CRT_SIZE - CRT_COLS
      /\ CRT_SIZE \in Nat /\ CRT_COLS \in Nat \ {0}
      /\ i \in 0..BUFLEN-1 /\ buf \in [0..BUFLEN-1 -> Input \cup {0}]
  BY LineSizes DEF LineTypeOK, CgaTypeOK, Mirrors
<1>2. w[crt_pos].glyph = c
  BY <1>1 DEF CellOf
<1>3. \A p \in 0..CRT_SIZE-1 : p # crt_pos => w[p] = crt_buf[p]
  BY <1>1
<1>4. ASSUME NEW n \in 0..i
      PROVE  w[crt_pos - i + n].glyph = buf'[n]
  <2>1. CASE n = i
    <3>1. crt_pos - i + n = crt_pos /\ buf'[n] = c
      BY <1>1, <2>1
    <3> QED
      BY <1>2, <3>1
  <2>2. CASE n # i
    <3>1. n \in 0..i-1 /\ crt_pos - i + n \in 0..CRT_SIZE-1
            /\ crt_pos - i + n # crt_pos /\ buf'[n] = buf[n]
      BY <1>1, <2>2
    <3> QED
      BY <1>3, <3>1 DEF Mirrors
  <2> QED
    BY <2>1, <2>2
<1>5. \/ crt_pos' = crt_pos + 1 /\ crt_buf' = w
      \/ /\ crt_pos + 1 = CRT_SIZE
         /\ crt_pos' = CRT_SIZE - CRT_COLS
         /\ \A p \in CRT_COLS..CRT_SIZE-1 : crt_buf'[p - CRT_COLS] = w[p]
  BY GlyphShifts DEF LineTypeOK
<1> HIDE DEF w
<1>6. CASE crt_pos' = crt_pos + 1 /\ crt_buf' = w
  <2>1. i' <= crt_pos' /\ i'-1 = i
    BY <1>1, <1>6
  <2>2. ASSUME NEW n \in 0..i'-1
        PROVE  crt_buf'[crt_pos' - i' + n].glyph = buf'[n]
    <3>1. n \in 0..i /\ crt_pos' - i' + n = crt_pos - i + n
      BY <1>1, <1>6
    <3> QED
      BY <1>4, <1>6, <3>1
  <2> QED
    BY <2>1, <2>2 DEF Mirrors
<1>7. CASE /\ crt_pos + 1 = CRT_SIZE
           /\ crt_pos' = CRT_SIZE - CRT_COLS
           /\ \A p \in CRT_COLS..CRT_SIZE-1 : crt_buf'[p - CRT_COLS] = w[p]
  <2>1. i' <= crt_pos'
    BY <1>1, <1>7
  <2>2. ASSUME NEW n \in 0..i'-1
        PROVE  crt_buf'[crt_pos' - i' + n].glyph = buf'[n]
    <3> DEFINE p == crt_pos - i + n
    <3>1. n \in 0..i /\ p \in CRT_COLS..CRT_SIZE-1
            /\ crt_pos' - i' + n = p - CRT_COLS
      BY <1>1, <1>7
    <3>2. w[p].glyph = buf'[n]
      BY <1>4, <3>1
    <3> HIDE DEF p
    <3>3. crt_buf'[p - CRT_COLS] = w[p]
      BY <1>7, <3>1
    <3> QED
      BY <3>1, <3>2, <3>3
  <2> QED
    BY <2>1, <2>2 DEF Mirrors
<1> QED
  BY <1>5, <1>6, <1>7

\* The line stays mirrored when its last character is deleted: the cursor is
\* not at the start of the screen, and only the erased place changes.
LEMMA DeleteMirrors ==
  ASSUME LineTypeOK, Mirrors, PutBackspace(Grey), i > 0, i' = i - 1, buf' = buf
  PROVE  Mirrors'
<1>1. /\ crt_pos \in 1..CRT_SIZE-1 /\ crt_buf \in [0..CRT_SIZE-1 -> Cell]
      /\ i \in Nat /\ i <= crt_pos /\ CRT_SIZE \in Nat
  BY LineSizes DEF LineTypeOK, CgaTypeOK, Mirrors
<1>2. /\ crt_pos' = crt_pos - 1
      /\ crt_buf' = [crt_buf EXCEPT ![crt_pos - 1] = CellOf(Grey, Space)]
  BY <1>1 DEF PutBackspace, Settle, SettledBuf, SettledPos
<1>3. ASSUME NEW n \in 0..i'-1
      PROVE  crt_buf'[crt_pos' - i' + n].glyph = buf'[n]
  <2>1. n \in 0..i-1 /\ crt_pos' - i' + n = crt_pos - i + n
          /\ crt_pos - i + n \in 0..CRT_SIZE-1 /\ crt_pos - i + n # crt_pos - 1
    BY <1>1, <1>2
  <2>2. crt_buf'[crt_pos - i + n] = crt_buf[crt_pos - i + n]
    BY <1>1, <1>2, <2>1
  <2> QED
    BY <2>1, <2>2 DEF Mirrors
<1> QED
  BY <1>1, <1>2, <1>3 DEF Mirrors

\* The code after the switch keeps blank what is blank from the position on: a
\* line that scrolls in is blank.
LEMMA SettleBlank ==
  ASSUME NEW b, NEW p \in Nat, Settle(b, p),
         \A q \in p..CRT_SIZE-1 : b[q].glyph = Space
  PROVE  NothingAfterCursor'
<1>1. /\ crt_buf' = SettledBuf(b, p) /\ crt_pos' = SettledPos(p)
      /\ CRT_SIZE \in Nat /\ CRT_COLS \in Nat /\ CRT_COLS <= CRT_SIZE
  BY LineSizes DEF Settle
<1>2. CASE p >= CRT_SIZE
  <2>1. crt_buf' = ScrollUp(b) /\ crt_pos' = p - CRT_COLS
    BY <1>1, <1>2 DEF SettledBuf, SettledPos
  <2>2. ASSUME NEW q \in crt_pos'..CRT_SIZE-1 PROVE ScrollUp(b)[q] = Blank
    <3>1. q \in 0..CRT_SIZE-1 /\ q >= CRT_SIZE - CRT_COLS
      BY <1>1, <1>2, <2>1
    <3> QED
      BY <3>1 DEF ScrollUp
  <2>3. Blank.glyph = Space
    BY DEF Blank, CellOf
  <2> QED
    BY <2>1, <2>2, <2>3 DEF NothingAfterCursor
<1>3. CASE ~(p >= CRT_SIZE)
  BY <1>1, <1>3 DEF SettledBuf, SettledPos, NothingAfterCursor
<1> QED
  BY <1>2, <1>3

\* Nothing stands after the cursor when a character is echoed, a character is
\* deleted or a line ends.
LEMMA EchoBlank ==
  ASSUME CgaTypeOK, NothingAfterCursor,
         \/ \E c : PutGlyph(Grey, c)
         \/ PutBackspace(Grey)
         \/ PutNewline
  PROVE  NothingAfterCursor'
<1>1. /\ crt_pos \in 0..CRT_SIZE-1 /\ crt_buf \in [0..CRT_SIZE-1 -> Cell]
      /\ CRT_SIZE \in Nat /\ CRT_COLS \in Nat \ {0}
      /\ \A q \in crt_pos..CRT_SIZE-1 : crt_buf[q].glyph = Space
  BY LineSizes DEF CgaTypeOK, NothingAfterCursor
<1>2. ASSUME NEW c, PutGlyph(Grey, c) PROVE NothingAfterCursor'
  <2> DEFINE w == [crt_buf EXCEPT ![crt_pos] = CellOf(Grey, c)]
  <2>1. crt_pos + 1 \in Nat /\ \A q \in crt_pos+1..CRT_SIZE-1 : w[q].glyph = Space
    BY <1>1
  <2>2. Settle(w, crt_pos + 1)
    BY <1>2 DEF PutGlyph
  <2> HIDE DEF w
  <2> QED
    BY <2>1, <2>2, SettleBlank
<1>3. CASE PutBackspace(Grey)
  <2>1. CASE crt_pos > 0
    <3> DEFINE w == [crt_buf EXCEPT ![crt_pos - 1] = CellOf(Grey, Space)]
    <3>1. w[crt_pos - 1].glyph = Space
      BY <1>1, <2>1 DEF CellOf
    <3>2. crt_pos - 1 \in Nat /\ \A q \in crt_pos-1..CRT_SIZE-1 : w[q].glyph = Space
      BY <1>1, <2>1, <3>1
    <3>3. Settle(w, crt_pos - 1)
      BY <1>3, <2>1 DEF PutBackspace
    <3> HIDE DEF w
    <3> QED
      BY <3>2, <3>3, SettleBlank
  <2>2. CASE ~(crt_pos > 0)
    BY <1>1, <1>3, <2>2, SettleBlank DEF PutBackspace
  <2> QED
    BY <2>1, <2>2
<1>4. CASE PutNewline
  <2> DEFINE p == crt_pos + CRT_COLS
  <2>1. p \in Nat /\ p % CRT_COLS \in 0..CRT_COLS-1
    BY <1>1, DivMod
  <2>2. p - (p % CRT_COLS) \in Nat /\ p - (p % CRT_COLS) > crt_pos
    BY <1>1, <2>1
  <2>3. Settle(crt_buf, p - (p % CRT_COLS))
    BY <1>4 DEF PutNewline
  <2>4. \A q \in (p - (p % CRT_COLS))..CRT_SIZE-1 : crt_buf[q].glyph = Space
    BY <1>1, <2>2
  <2> HIDE DEF p
  <2> QED
    BY <2>2, <2>3, <2>4, SettleBlank
<1> QED
  BY <1>2, <1>3, <1>4
-----------------------------------------------------------------------------
LEMMA LineInitInv == LineInit => LineInv
BY LineSizes, CgaInitTypeOK DEF LineInit, LineInv, LineTypeOK

LEMMA LineStepInv == LineInv /\ [LineNext]_lineVars => LineInv'
<1> SUFFICES ASSUME LineInv, [LineNext]_lineVars PROVE LineInv'
  OBVIOUS
<1>0. LineTypeOK /\ CgaTypeOK
  BY DEF LineInv, LineTypeOK
<1>1. [CgaNext]_cgaVars => CgaTypeOK'
  BY <1>0, StepCorrect
<1>2. CASE PrintPrompt
  <2>1. CgaTypeOK'
    BY <1>1, <1>2, LineSizes, AttrAssumption DEF PrintPrompt, CgaNext, Grey
  <2> QED
    BY <1>0, <1>2, <2>1, LineSizes DEF LineInv, LineTypeOK, PrintPrompt
<1>3. CASE StartLine
  <2>1. CgaTypeOK' /\ crt_pos' \in Nat
    BY <1>0, <1>3, LineSizes DEF StartLine, CgaTypeOK, cgaVars
  <2>2. i' = 0 /\ Mirrors' /\ Filled'
    BY <1>3, <2>1 DEF StartLine, Mirrors, Filled
  <2> QED
    BY <1>0, <1>3, <2>1, <2>2, LineSizes DEF LineInv, LineTypeOK, StartLine
<1>4. ASSUME NEW c \in Input, DeleteChar(c) PROVE LineInv'
  <2>1. CgaTypeOK'
    BY <1>1, <1>4, AttrAssumption DEF DeleteChar, CgaNext, Grey
  <2>2. i' \in 0..BUFLEN-1 /\ buf' = buf /\ at' = "loop"
    BY <1>0, <1>4, LineSizes DEF DeleteChar, LineTypeOK
  <2>3. Mirrors'
    BY <1>0, <1>4, DeleteMirrors DEF LineInv, DeleteChar
  <2>4. Filled'
    BY <1>0, <1>4, LineSizes DEF LineInv, LineTypeOK, DeleteChar, Filled
  <2> QED
    BY <1>0, <1>4, <2>1, <2>2, <2>3, <2>4 DEF LineInv, LineTypeOK, DeleteChar
<1>5. ASSUME NEW c \in Input, InsertChar(c) PROVE LineInv'
  <2>1. CgaTypeOK'
    BY <1>1, <1>5, AttrAssumption, InputAssumption DEF InsertChar, CgaNext, Grey
  <2>2. /\ i \in 0..BUFLEN-1 /\ i < BUFLEN - 1 /\ i' = i + 1 /\ at' = "loop"
        /\ buf \in [0..BUFLEN-1 -> Input \cup {0}] /\ BUFLEN \in Nat
        /\ buf' = [buf EXCEPT ![i] = c]
    BY <1>0, <1>5, LineSizes DEF InsertChar, LineTypeOK
  <2>3. Mirrors'
    BY <1>0, <1>5, <2>2, InsertMirrors DEF LineInv, InsertChar
  <2>4. Filled'
    BY <1>5, <2>2 DEF LineInv, InsertChar, Filled
  <2>5. i' \in 0..BUFLEN-1 /\ buf' \in [0..BUFLEN-1 -> Input \cup {0}]
    BY <2>2
  <2> QED
    BY <1>0, <1>5, <2>1, <2>2, <2>3, <2>4, <2>5 DEF LineInv, LineTypeOK, InsertChar
<1>6. ASSUME NEW c \in Input, EndLine(c) PROVE LineInv'
  <2>1. CgaTypeOK'
    BY <1>1, <1>6 DEF EndLine, CgaNext
  <2>2. /\ i \in 0..BUFLEN-1 /\ i' = i /\ at' = "returned" /\ BUFLEN \in Nat
        /\ buf \in [0..BUFLEN-1 -> Input \cup {0}]
        /\ buf' = [buf EXCEPT ![i] = 0]
    BY <1>0, <1>6, LineSizes DEF EndLine, LineTypeOK
  <2>3. Filled' /\ buf'[i'] = 0 /\ buf' \in [0..BUFLEN-1 -> Input \cup {0}]
    BY <1>6, <2>2 DEF LineInv, EndLine, Filled
  <2> QED
    BY <1>0, <1>6, <2>1, <2>2, <2>3 DEF LineInv, LineTypeOK, EndLine
<1>7. ASSUME NEW c \in Input, DropChar(c) PROVE LineInv'
  BY <1>0, <1>7 DEF LineInv, LineTypeOK, CgaTypeOK, Mirrors, Filled, DropChar,
                    lineVars, cgaVars
<1>8. CASE NextCall
  BY <1>0, <1>8, LineSizes DEF LineInv, LineTypeOK, CgaTypeOK, NextCall, cgaVars
<1>9. CASE UNCHANGED lineVars
  BY <1>0, <1>9 DEF LineInv, LineTypeOK, CgaTypeOK, Mirrors, Filled, lineVars,
                    cgaVars
<1> QED
  BY <1>2, <1>3, <1>4, <1>5, <1>6, <1>7, <1>8, <1>9 DEF LineNext, GetChar

LEMMA LineInitBlank == LineInit => NothingAfterCursor
BY LineSizes DEF LineInit, CgaInit, NothingAfterCursor, Blank, CellOf

LEMMA LineStepBlank ==
  CgaTypeOK /\ NothingAfterCursor /\ [LineNext]_lineVars => NothingAfterCursor'
<1>1. [LineNext]_lineVars => \/ \E c : PutGlyph(Grey, c)
                            \/ PutBackspace(Grey)
                            \/ PutNewline
                            \/ UNCHANGED cgaVars
  BY DEF LineNext, PrintPrompt, StartLine, GetChar, DeleteChar, InsertChar,
         EndLine, DropChar, NextCall, lineVars
<1>2. NothingAfterCursor /\ UNCHANGED cgaVars => NothingAfterCursor'
  BY DEF cgaVars, NothingAfterCursor
<1> QED
  BY <1>1, <1>2, EchoBlank

\* readline's index never leaves its buffer and the screen position never
\* leaves the screen.
THEOREM LineTypeCorrect == LineSpec => []LineTypeOK
<1>1. LineInv => LineTypeOK
  BY DEF LineInv
<1> QED
  BY <1>1, LineInitInv, LineStepInv, PTL DEF LineSpec

\* The screen shows the line that readline holds, for every screen on which a
\* full line fits.
THEOREM LineMirrored == LineSpec => []EchoMirrorsLine
<1>1. LineInv => EchoMirrorsLine
  BY DEF LineInv, Mirrors, EchoMirrorsLine
<1> QED
  BY <1>1, LineInitInv, LineStepInv, PTL DEF LineSpec

\* readline returns a C string of exactly i characters.
THEOREM LineIsCString == LineSpec => []ReturnsCString
<1>1. LineInv => ReturnsCString
  BY LineSizes DEF LineInv, LineTypeOK, Filled, ReturnsCString
<1> QED
  BY <1>1, LineInitInv, LineStepInv, PTL DEF LineSpec

\* A deleted character is gone from the screen, and no character of an earlier
\* screen stands after the cursor, whatever scrolled.
THEOREM LineNothingAfter == LineSpec => []NothingAfterCursor
<1>1. LineInv => CgaTypeOK
  BY DEF LineInv, LineTypeOK
<1> QED
  BY <1>1, LineInitInv, LineStepInv, LineInitBlank, LineStepBlank, PTL DEF LineSpec

(***************************************************************************)
(* The monitor around readline.                                            *)
(***************************************************************************)

\* runcmd's moving pointer and the buffer it writes into: behind the pointer the
\* blanks are 0, before it the line is untouched, and its end is there.
Splitting ==
  /\ line \in Seq(Input) /\ Len(line) <= BUFLEN - 1
  /\ pos \in 0..Len(line)
  /\ buf[Len(line)] = 0
  /\ \A n \in pos..Len(line)-1 : buf[n] = line[n + 1]
  /\ \A n \in 0..pos-1 : buf[n] = IF line[n + 1] = White THEN 0 ELSE line[n + 1]

\* The line up to here was searched for words.
Searched == IF cmd_at = "scan" THEN pos + 1 ELSE pos

\* argv lists the words found so far, in order.
Found ==
  /\ argv \in Seq(Nat) /\ argc = Len(argv) /\ argc <= MAXARGS - 1
  /\ \A j, k \in 1..argc : j < k => argv[j] < argv[k]
  /\ \A k \in 1..argc : argv[k] + 1 \in WordStarts(line) /\ argv[k] + 1 <= Searched
  /\ \A n \in WordStarts(line) : n <= Searched => \E k \in 1..argc : argv[k] = n - 1

\* Between two words the pointer is at a word's start or outside every word,
\* in a word it is behind the word's first character.
Placed ==
  /\ cmd_at = "split" => \/ pos = 0 \/ pos = Len(line)
                         \/ line[pos] = White \/ line[pos + 1] = White
  /\ cmd_at = "scan" => pos + 1 \in WordStarts(line) \/ (pos > 0 /\ line[pos] # White)
  /\ cmd_at \in {"lookup", "command"} => pos = Len(line)

\* The inductive invariant.
RunInv ==
  /\ LineInv /\ NothingAfterCursor
  /\ cmd_at \in {"readline", "split", "scan", "toomany", "lookup", "command"}
  /\ cmd_at # "readline" => at = "prompt" /\ Splitting /\ Found /\ Placed

PanicInv ==
  /\ depth \in Nat
  /\ panicstr = IF depth = 0 THEN 0 ELSE 1
  /\ FirstPanicOnly
-----------------------------------------------------------------------------
(* Strings and words. *)

\* The C string at p is what stands before the first 0.
LEMMA StringAtIs ==
  ASSUME NEW p \in Nat, NEW e \in p..BUFLEN-1, BUFLEN \in Nat,
         buf[e] = 0, \A m \in p..e-1 : buf[m] # 0
  PROVE  StringAt(p) = [k \in 1..(e - p) |-> buf[p + k - 1]]
<1> DEFINE P(n) == buf[n] = 0 /\ \A m \in p..n-1 : buf[m] # 0
<1> DEFINE c == CHOOSE n \in p..BUFLEN-1 : P(n)
<1>1. c \in p..BUFLEN-1 /\ P(c)
  <2>1. \E n \in p..BUFLEN-1 : P(n)
    OBVIOUS
  <2> QED
    BY <2>1
<1>2. c = e
  <2> HIDE DEF c
  <2>1. ~(c < e) /\ ~(e < c)
    BY <1>1
  <2> QED
    BY <1>1, <2>1
<1>3. StringAt(p) = [k \in 1..(c - p) |-> buf[p + k - 1]]
  BY DEF StringAt
<1> QED
  BY <1>2, <1>3

\* A word ends before the next blank or with the line.
LEMMA WordEndIs ==
  ASSUME NEW S, NEW l \in Seq(S), NEW n \in 1..Len(l), NEW e \in n..Len(l),
         \A m \in n..e : l[m] # White, e = Len(l) \/ l[e + 1] = White
  PROVE  WordEnd(l, n) = e
<1> DEFINE P(x) == (\A m \in n..x : l[m] # White) /\ (x = Len(l) \/ l[x + 1] = White)
<1> DEFINE c == CHOOSE x \in n..Len(l) : P(x)
<1>1. c \in n..Len(l) /\ P(c)
  <2>1. \E x \in n..Len(l) : P(x)
    OBVIOUS
  <2> QED
    BY <2>1
<1>2. c = e
  <2> HIDE DEF c
  <2>1. ~(c < e) /\ ~(e < c)
    BY <1>1
  <2> QED
    BY <1>1, <2>1
<1> QED
  BY <1>2 DEF WordEnd

\* Every word has an end.
LEMMA WordEnds ==
  ASSUME NEW S, NEW l \in Seq(S), NEW n \in WordStarts(l)
  PROVE  \E e \in n..Len(l) : /\ \A m \in n..e : l[m] # White
                              /\ e = Len(l) \/ l[e + 1] = White
<1> DEFINE E == {x \in n..Len(l) : x = Len(l) \/ l[x + 1] = White}
<1>1. n \in 1..Len(l) /\ l[n] # White /\ Len(l) \in Nat
  BY DEF WordStarts
<1>2. Len(l) \in E /\ E \in SUBSET Nat
  BY <1>1
<1>3. PICK e \in E : \A y \in E : e <= y
  BY <1>2, LeastNat
<1>4. ASSUME NEW m \in n..e PROVE l[m] # White
  <2>1. CASE m = n
    BY <1>1, <2>1
  <2>2. CASE m # n
    <3>1. m - 1 \in n..Len(l) /\ m - 1 < e /\ (m - 1) + 1 = m
      BY <1>1, <2>2
    <3>2. m - 1 \notin E
      BY <1>3, <3>1
    <3> QED
      BY <3>1, <3>2
  <2> QED
    BY <2>1, <2>2
<1> QED
  BY <1>3, <1>4

\* The elements of an ascending sequence are counted by their indices.
LEMMA Counted ==
  ASSUME NEW S, NEW n \in Nat, NEW f \in [1..n -> S],
         \A j, k \in 1..n : j # k => f[j] # f[k],
         \A x \in S : \E k \in 1..n : f[k] = x
  PROVE  Cardinality(S) = n
<1>1. f \in Bijection(1..n, S)
  BY Fun_IsBij
<1>2. ExistsBijection(1..n, S)
  BY <1>1 DEF ExistsBijection
<1>3. IsFiniteSet(1..n) /\ Cardinality(1..n) = n
  BY FS_Interval
<1> QED
  BY <1>2, <1>3, FS_Bijection

\* An ascending list of all word starts gives the k-th word at its k-th place.
LEMMA ListedWords ==
  ASSUME NEW S, NEW l \in Seq(S), NEW n \in Nat, NEW f \in [1..n -> WordStarts(l)],
         \A j, k \in 1..n : j < k => f[j] < f[k],
         \A x \in WordStarts(l) : \E k \in 1..n : f[k] = x
  PROVE  /\ NumWords(l) = n
         /\ \A k \in 1..n : Word(l, k) = SubSeq(l, f[k], WordEnd(l, f[k]))
<1>0. WordStarts(l) \subseteq Nat
  BY DEF WordStarts
<1>1. ASSUME NEW j \in 1..n, NEW k \in 1..n, j # k PROVE f[j] # f[k]
  <2>1. f[j] \in Nat /\ f[k] \in Nat /\ (j < k \/ k < j)
    BY <1>0, <1>1
  <2> QED
    BY <2>1
<1>2. NumWords(l) = n
  BY <1>1, Counted DEF NumWords
<1>3. ASSUME NEW k \in 1..n
      PROVE  Cardinality({x \in WordStarts(l) : x <= f[k]}) = k
  <2> DEFINE Upto == {x \in WordStarts(l) : x <= f[k]}
  <2> DEFINE g == [j \in 1..k |-> f[j]]
  <2>1. ASSUME NEW j \in 1..k PROVE f[j] \in Upto
    <3>1. j \in 1..n /\ (j = k \/ j < k) /\ f[j] \in Nat /\ f[k] \in Nat
      BY <1>0
    <3> QED
      BY <3>1
  <2>2. g \in [1..k -> Upto]
    BY <2>1
  <2>3. \A a, b \in 1..k : a # b => g[a] # g[b]
    BY <1>1
  <2>4. ASSUME NEW x \in Upto PROVE \E j \in 1..k : g[j] = x
    <3>1. PICK j \in 1..n : f[j] = x
      OBVIOUS
    <3>2. ~(k < j)
      <4>1. k < j => f[k] < f[j]
        OBVIOUS
      <4>2. f[k] \in Nat /\ f[j] \in Nat /\ f[j] <= f[k]
        BY <1>0, <3>1
      <4> QED
        BY <4>1, <4>2
    <3> QED
      BY <3>1, <3>2
  <2> HIDE DEF Upto, g
  <2>5. Cardinality(Upto) = k
    BY <2>2, <2>3, <2>4, Counted
  <2> QED
    BY <2>5 DEF Upto
<1>4. ASSUME NEW k \in 1..n
      PROVE  Word(l, k) = SubSeq(l, f[k], WordEnd(l, f[k]))
  <2> DEFINE P(m) == Cardinality({x \in WordStarts(l) : x <= m}) = k
  <2> DEFINE c == CHOOSE m \in WordStarts(l) : P(m)
  <2>1. f[k] \in WordStarts(l) /\ P(f[k])
    BY <1>3
  <2>2. c \in WordStarts(l) /\ P(c)
    <3>1. \E m \in WordStarts(l) : P(m)
      BY <2>1
    <3> HIDE DEF P
    <3> QED
      BY <3>1
  <2>3. Word(l, k) = SubSeq(l, c, WordEnd(l, c))
    BY DEF Word
  <2>4. PICK j \in 1..n : f[j] = c
    BY <2>2
  <2>5. Cardinality({x \in WordStarts(l) : x <= c}) = j
    BY <1>3, <2>4
  <2> HIDE DEF c
  <2>6. j = k
    BY <2>2, <2>5
  <2> QED
    BY <2>3, <2>4, <2>6
<1> QED
  BY <1>2, <1>4

\* The invariant at the end of runcmd's loop is what a command relies on.
LEMMA ArgsFromInv == RunInv => ArgsAreWords
<1> SUFFICES ASSUME RunInv, cmd_at \in {"lookup", "command"}
             PROVE  /\ argc = NumWords(line) /\ argc < MAXARGS
                    /\ \A k \in 1..argc : StringAt(argv[k]) = Word(line, k)
  BY DEF ArgsAreWords
<1> DEFINE L == Len(line)
<1>1. /\ line \in Seq(Input) /\ L \in Nat /\ L <= BUFLEN - 1 /\ BUFLEN \in Nat
      /\ buf[L] = 0 /\ pos = L
      /\ \A n \in 0..L-1 : buf[n] = IF line[n + 1] = White THEN 0 ELSE line[n + 1]
  BY LineSizes DEF RunInv, Splitting, Placed
<1>2. /\ argv \in Seq(Nat) /\ argc = Len(argv) /\ argc \in Nat /\ argc <= MAXARGS - 1
      /\ \A j, k \in 1..argc : j < k => argv[j] < argv[k]
      /\ \A k \in 1..argc : argv[k] + 1 \in WordStarts(line)
      /\ \A n \in WordStarts(line) : n <= L => \E k \in 1..argc : argv[k] = n - 1
  BY <1>1 DEF RunInv, Found, Searched
<1>3. argc < MAXARGS
  BY <1>2, MaxArgsAssumption
<1>4. \A n \in 1..L : line[n] \in Input /\ line[n] # 0
  BY <1>1, LineSizes
<1> DEFINE f == [k \in 1..argc |-> argv[k] + 1]
<1>5. /\ f \in [1..argc -> WordStarts(line)]
      /\ \A j, k \in 1..argc : j < k => f[j] < f[k]
      /\ \A x \in WordStarts(line) : \E k \in 1..argc : f[k] = x
  <2>1. \A k \in 1..argc : argv[k] \in Nat
    BY <1>2
  <2>2. \A x \in WordStarts(line) : x \in Nat /\ x <= L
    BY <1>1 DEF WordStarts
  <2>3. ASSUME NEW x \in WordStarts(line) PROVE \E k \in 1..argc : f[k] = x
    <3>1. PICK k \in 1..argc : argv[k] = x - 1
      BY <1>2, <2>2
    <3> QED
      BY <2>2, <3>1
  <2>4. \A j, k \in 1..argc : j < k => f[j] < f[k]
    BY <1>2, <2>1
  <2>5. f \in [1..argc -> WordStarts(line)]
    BY <1>2
  <2> QED
    BY <2>3, <2>4, <2>5
<1> HIDE DEF L
<1>6. /\ NumWords(line) = argc
      /\ \A k \in 1..argc : Word(line, k) = SubSeq(line, f[k], WordEnd(line, f[k]))
  <2>1. line \in Seq(Input) /\ argc \in Nat
    BY <1>1, <1>2
  <2> HIDE DEF f
  <2> QED
    BY <1>5, <2>1, ListedWords
<1>7. ASSUME NEW k \in 1..argc PROVE StringAt(argv[k]) = Word(line, k)
  <2> DEFINE n == argv[k] + 1
  <2>1. n \in WordStarts(line) /\ argv[k] \in Nat /\ n \in 1..L
    BY <1>1, <1>2 DEF WordStarts, L
  <2>2. PICK e \in n..L : /\ \A m \in n..e : line[m] # White
                          /\ e = L \/ line[e + 1] = White
    BY <1>1, <2>1, WordEnds DEF L
  <2>3. WordEnd(line, n) = e
    BY <1>1, <2>1, <2>2, WordEndIs DEF L
  <2>4. /\ e \in argv[k]..BUFLEN-1 /\ e \in Nat /\ buf[e] = 0
        /\ \A m \in argv[k]..e-1 : buf[m] = line[m + 1] /\ buf[m] # 0
    <3>1. e \in argv[k]..BUFLEN-1 /\ e \in Nat
      BY <1>1, <2>1
    <3>2. buf[e] = 0
      BY <1>1, <2>1, <2>2
    <3>3. ASSUME NEW m \in argv[k]..e-1 PROVE buf[m] = line[m + 1] /\ buf[m] # 0
      <4>1. m \in 0..L-1 /\ m + 1 \in n..e /\ m + 1 \in 1..L
        BY <1>1, <2>1
      <4> QED
        BY <1>1, <1>4, <2>2, <4>1
    <3> QED
      BY <3>1, <3>2, <3>3
  <2>5. StringAt(argv[k]) = [j \in 1..(e - argv[k]) |-> buf[argv[k] + j - 1]]
    BY <1>1, <2>1, <2>4, StringAtIs
  <2>6. Word(line, k) = SubSeq(line, n, e)
    BY <1>6, <2>3
  <2>7. \A j \in 1..(e - argv[k]) : buf[argv[k] + j - 1] = line[n + j - 1]
    <3> SUFFICES ASSUME NEW j \in 1..(e - argv[k])
                 PROVE  buf[argv[k] + j - 1] = line[n + j - 1]
      OBVIOUS
    <3>1. argv[k] + j - 1 \in argv[k]..e-1 /\ (argv[k] + j - 1) + 1 = n + j - 1
      BY <2>1, <2>4
    <3> QED
      BY <2>4, <3>1
  <2>8. SubSeq(line, n, e) = [j \in 1..(e - argv[k]) |-> line[n + j - 1]]
    <3>1. e - n + 1 = e - argv[k] /\ n \in Int /\ e \in Int
      BY <2>1, <2>4
    <3> QED
      BY <3>1
  <2> QED
    BY <2>5, <2>6, <2>7, <2>8
<1> QED
  BY <1>3, <1>6, <1>7
-----------------------------------------------------------------------------
(* Every step. *)

LEMMA MonInitInv == MonInit => RunInv /\ PanicInv
<1> SUFFICES ASSUME MonInit PROVE RunInv /\ PanicInv
  OBVIOUS
<1>1. LineInv /\ NothingAfterCursor
  BY LineInitInv, LineInitBlank DEF MonInit
<1> QED
  BY <1>1 DEF MonInit, RunInv, PanicInv, FirstPanicOnly

\* A message of the monitor between two calls of readline.
LEMMA MessageInv ==
  ASSUME LineInv, NothingAfterCursor, at = "prompt", PutNewline \/ UNCHANGED cgaVars,
         UNCHANGED <<buf, i, prompt, at>>
  PROVE  LineInv' /\ NothingAfterCursor'
<1>1. LineTypeOK /\ CgaTypeOK
  BY DEF LineInv, LineTypeOK
<1>2. CgaTypeOK'
  BY <1>1, StepCorrect DEF CgaNext
<1>3. LineTypeOK'
  BY <1>1, <1>2 DEF LineTypeOK
<1>4. NothingAfterCursor'
  BY <1>1, EchoBlank DEF NothingAfterCursor, cgaVars
<1> QED
  BY <1>3, <1>4 DEF LineInv

\* runcmd writes only 0 into the buffer, and nothing else of readline's.
LEMMA WriteInv ==
  ASSUME LineInv, NothingAfterCursor, at = "prompt",
         buf' = buf \/ \E p : buf' = [buf EXCEPT ![p] = 0],
         UNCHANGED editVars
  PROVE  LineInv' /\ NothingAfterCursor' /\ at' = "prompt"
<1>1. LineTypeOK /\ CgaTypeOK /\ buf \in [0..BUFLEN-1 -> Input \cup {0}]
  BY DEF LineInv, LineTypeOK
<1>2. buf' \in [0..BUFLEN-1 -> Input \cup {0}]
  BY <1>1
<1>3. LineTypeOK' /\ at' = "prompt"
  BY <1>1, <1>2 DEF LineTypeOK, CgaTypeOK, editVars, cgaVars
<1> QED
  BY <1>3 DEF LineInv, NothingAfterCursor, editVars, cgaVars

\* readline returns, and runcmd starts with the string it returned.
LEMMA RunCmdInv ==
  ASSUME RunInv, RunCmd
  PROVE  RunInv'
<1>1. LineInv /\ NothingAfterCursor /\ LineTypeOK /\ CgaTypeOK /\ at = "returned"
  BY DEF RunInv, RunCmd, NextCall, LineInv, LineTypeOK
<1>2. LineInv' /\ NothingAfterCursor'
  BY <1>1, LineStepInv, LineStepBlank DEF RunCmd, LineNext
<1>3. /\ i \in 0..BUFLEN-1 /\ buf[i] = 0 /\ BUFLEN \in Nat
      /\ \A n \in 0..i-1 : buf[n] \in Input /\ buf[n] # 0
  BY <1>1, LineSizes DEF LineInv, LineTypeOK, Filled
<1>4. line' = [k \in 1..i |-> buf[k - 1]]
  <2>1. StringAt(0) = [k \in 1..(i - 0) |-> buf[0 + k - 1]]
    BY <1>3, StringAtIs
  <2>2. i - 0 = i /\ \A k \in 1..i : 0 + k - 1 = k - 1
    BY <1>3
  <2> QED
    BY <2>1, <2>2 DEF RunCmd
<1>5. line' \in Seq(Input) /\ Len(line') = i
  BY <1>3, <1>4
<1>6. pos' = 0 /\ argc' = 0 /\ argv' = << >> /\ cmd_at' = "split" /\ buf' = buf
        /\ at' = "prompt"
  BY DEF RunCmd, NextCall
<1>7. Splitting'
  <2>1. \A n \in 0..i-1 : n + 1 \in 1..i /\ (n + 1) - 1 = n
    BY <1>3
  <2> QED
    BY <1>3, <1>4, <1>5, <1>6, <2>1 DEF Splitting
<1>8. Found' /\ Placed'
  <2>1. \A n \in WordStarts(line') : ~(n <= 0)
    BY DEF WordStarts
  <2>2. Searched' = 0
    BY <1>6 DEF Searched
  <2>3. argv' \in Seq(Nat) /\ argc' = Len(argv') /\ argc' <= MAXARGS - 1
    BY <1>6, MaxArgsAssumption
  <2> QED
    BY <1>6, <2>1, <2>2, <2>3 DEF Found, Placed
<1> QED
  BY <1>2, <1>6, <1>7, <1>8 DEF RunInv

\* The buffer at runcmd's pointer.
LEMMA AtPos ==
  ASSUME Splitting
  PROVE  /\ Len(line) \in Nat /\ pos \in Nat /\ pos <= Len(line)
         /\ \A n \in 1..Len(line) : line[n] \in Input /\ line[n] # 0
         /\ buf[pos] = 0 <=> pos = Len(line)
         /\ pos < Len(line) => buf[pos] = line[pos + 1] /\ pos + 1 \in 1..Len(line)
<1>1. /\ line \in Seq(Input) /\ Len(line) \in Nat /\ pos \in 0..Len(line)
      /\ buf[Len(line)] = 0 /\ \A n \in pos..Len(line)-1 : buf[n] = line[n + 1]
  BY DEF Splitting
<1>2. \A n \in 1..Len(line) : line[n] \in Input /\ line[n] # 0
  BY <1>1, LineSizes
<1> QED
  BY <1>1, <1>2

\* The pointer moves over one character of the line, which becomes 0 if it is
\* a blank and stays otherwise.
LEMMA StepOver ==
  ASSUME Splitting, buf \in [0..BUFLEN-1 -> Input \cup {0}], pos < Len(line),
         pos' = pos + 1, line' = line,
         buf' = IF line[pos + 1] = White THEN [buf EXCEPT ![pos] = 0] ELSE buf
  PROVE  Splitting'
<1>1. /\ line \in Seq(Input) /\ Len(line) \in Nat /\ Len(line) <= BUFLEN - 1
      /\ pos \in 0..Len(line)-1 /\ BUFLEN \in Nat
      /\ buf[Len(line)] = 0
      /\ \A n \in pos..Len(line)-1 : buf[n] = line[n + 1]
      /\ \A n \in 0..pos-1 : buf[n] = IF line[n + 1] = White THEN 0 ELSE line[n + 1]
  BY LineSizes DEF Splitting
<1>2. \A n \in 0..BUFLEN-1 : n # pos => buf'[n] = buf[n]
  OBVIOUS
<1>3. buf'[pos] = IF line[pos + 1] = White THEN 0 ELSE line[pos + 1]
  BY <1>1
<1>4. pos' \in 0..Len(line) /\ buf'[Len(line)] = 0
  BY <1>1, <1>2
<1>5. \A n \in pos'..Len(line)-1 : buf'[n] = line[n + 1]
  BY <1>1, <1>2
<1>6. ASSUME NEW n \in 0..pos'-1
      PROVE  buf'[n] = IF line[n + 1] = White THEN 0 ELSE line[n + 1]
  <2>1. CASE n = pos
    BY <1>3, <2>1
  <2>2. CASE n # pos
    <3>1. n \in 0..pos-1 /\ n \in 0..BUFLEN-1
      BY <1>1, <2>2
    <3> QED
      BY <1>1, <1>2, <2>2, <3>1
  <2> QED
    BY <2>1, <2>2
<1> QED
  BY <1>1, <1>4, <1>5, <1>6 DEF Splitting

\* The words found are still all words found when the search moves over a
\* place where no word starts.
LEMMA FoundStays ==
  ASSUME Found, line' = line, argc' = argc, argv' = argv, Searched \in Nat,
         \/ Searched' = Searched
         \/ /\ Searched' = Searched + 1
            /\ Searched + 1 \notin WordStarts(line)
  PROVE  Found'
<1>1. \A n \in WordStarts(line) : n \in Nat
  BY DEF WordStarts
<1>2. \A n \in WordStarts(line) : n <= Searched => n <= Searched'
  BY <1>1
<1>3. \A n \in WordStarts(line) : n <= Searched' => n <= Searched
  BY <1>1
<1>4. /\ argv' \in Seq(Nat) /\ argc' = Len(argv') /\ argc' <= MAXARGS - 1
      /\ \A j, k \in 1..argc' : j < k => argv'[j] < argv'[k]
  BY DEF Found
<1>5. \A k \in 1..argc' : /\ argv'[k] + 1 \in WordStarts(line')
                           /\ argv'[k] + 1 <= Searched'
  BY <1>2 DEF Found
<1>6. \A n \in WordStarts(line') : n <= Searched' => \E k \in 1..argc' : argv'[k] = n - 1
  BY <1>3 DEF Found
<1> QED
  BY <1>4, <1>5, <1>6 DEF Found

LEMMA GobbleInv == ASSUME RunInv, Gobble PROVE RunInv'
<1>1. /\ LineInv /\ NothingAfterCursor /\ at = "prompt" /\ Splitting /\ Found /\ Placed
      /\ cmd_at = "split" /\ cmd_at' = "split" /\ buf[pos] = White
      /\ pos' = pos + 1 /\ line' = line /\ argc' = argc /\ argv' = argv
      /\ buf' = [buf EXCEPT ![pos] = 0] /\ UNCHANGED editVars
  BY DEF RunInv, Gobble
<1>2. LineInv' /\ NothingAfterCursor' /\ at' = "prompt"
  BY <1>1, WriteInv
<1>3. /\ pos \in Nat /\ Len(line) \in Nat /\ pos < Len(line) /\ line[pos + 1] = White
  BY <1>1, AtPos DEF White
<1>4. Splitting'
  BY <1>1, <1>3, StepOver DEF LineInv, LineTypeOK
<1>5. Found'
  BY <1>1, <1>3, FoundStays DEF Searched, WordStarts
<1>6. Placed'
  BY <1>1, <1>3 DEF Placed
<1> QED
  BY <1>1, <1>2, <1>4, <1>5, <1>6 DEF RunInv

LEMMA ScanInv == ASSUME RunInv, Scan PROVE RunInv'
<1>1. /\ LineInv /\ NothingAfterCursor /\ at = "prompt" /\ Splitting /\ Found /\ Placed
      /\ cmd_at = "scan" /\ cmd_at' = "scan" /\ buf[pos] \notin {0, White}
      /\ pos' = pos + 1 /\ line' = line /\ argc' = argc /\ argv' = argv
      /\ buf' = buf /\ UNCHANGED editVars
  BY DEF RunInv, Scan
<1>2. LineInv' /\ NothingAfterCursor' /\ at' = "prompt"
  BY <1>1, WriteInv
<1>3. /\ pos \in Nat /\ Len(line) \in Nat /\ pos < Len(line) /\ line[pos + 1] # White
  BY <1>1, AtPos
<1>4. Splitting'
  BY <1>1, <1>3, StepOver DEF LineInv, LineTypeOK
<1>5. pos + 2 \notin WordStarts(line)
  BY <1>3 DEF WordStarts
<1>6. Found'
  BY <1>1, <1>3, <1>5, FoundStays DEF Searched
<1>7. Placed'
  BY <1>1, <1>3 DEF Placed
<1> QED
  BY <1>1, <1>2, <1>4, <1>6, <1>7 DEF RunInv

LEMMA ScanEndInv == ASSUME RunInv, ScanEnd PROVE RunInv'
<1>1. /\ LineInv /\ NothingAfterCursor /\ at = "prompt" /\ Splitting /\ Found /\ Placed
      /\ cmd_at = "scan" /\ cmd_at' = "split" /\ buf[pos] \in {0, White}
      /\ pos' = pos /\ line' = line /\ argc' = argc /\ argv' = argv
      /\ buf' = buf /\ UNCHANGED editVars
  BY DEF RunInv, ScanEnd, cmdVars
<1>2. LineInv' /\ NothingAfterCursor' /\ at' = "prompt"
  BY <1>1, WriteInv
<1>3. /\ pos \in Nat /\ Len(line) \in Nat /\ pos <= Len(line)
      /\ pos = Len(line) \/ line[pos + 1] = White
  BY <1>1, AtPos
<1>4. pos + 1 \notin WordStarts(line)
  BY <1>3 DEF WordStarts
<1>5. Splitting' /\ Placed'
  BY <1>1, <1>3 DEF Splitting, Placed
<1>6. Found'
  <2>1. /\ \A k \in 1..argc : argv[k] + 1 <= pos + 1 /\ argv[k] + 1 \in WordStarts(line)
        /\ \A n \in WordStarts(line) : n <= pos + 1 => \E k \in 1..argc : argv[k] = n - 1
        /\ argv \in Seq(Nat) /\ argc = Len(argv)
    BY <1>1 DEF Found, Searched
  <2>2. \A n \in WordStarts(line) : n \in Nat /\ n # pos + 1
    BY <1>4 DEF WordStarts
  <2>3. \A k \in 1..argc : argv[k] + 1 <= pos
    BY <1>3, <2>1, <2>2
  <2>4. \A n \in WordStarts(line) : n <= pos => \E k \in 1..argc : argv[k] = n - 1
    BY <1>3, <2>1, <2>2
  <2>5. Searched' = pos
    BY <1>1 DEF Searched
  <2> QED
    BY <1>1, <2>1, <2>3, <2>4, <2>5 DEF Found
<1> QED
  BY <1>1, <1>2, <1>5, <1>6 DEF RunInv

LEMMA SaveArgInv == ASSUME RunInv, SaveArg PROVE RunInv'
<1>1. /\ LineInv /\ NothingAfterCursor /\ at = "prompt" /\ Splitting /\ Found /\ Placed
      /\ cmd_at = "split" /\ cmd_at' = "scan" /\ buf[pos] \notin {0, White}
      /\ pos' = pos /\ line' = line /\ argc # MAXARGS - 1
      /\ argc' = argc + 1 /\ argv' = Append(argv, pos)
      /\ buf' = buf /\ UNCHANGED editVars
  BY DEF RunInv, SaveArg
<1>2. LineInv' /\ NothingAfterCursor' /\ at' = "prompt"
  BY <1>1, WriteInv
<1>3. /\ pos \in Nat /\ Len(line) \in Nat /\ pos < Len(line) /\ line[pos + 1] # White
      /\ pos + 1 \in 1..Len(line)
  BY <1>1, AtPos
<1>4. pos + 1 \in WordStarts(line)
  BY <1>1, <1>3 DEF Placed, WordStarts
<1>5. Splitting' /\ Placed'
  BY <1>1, <1>4 DEF Splitting, Placed
<1>6. /\ argv \in Seq(Nat) /\ argc = Len(argv) /\ argc \in Nat /\ argc <= MAXARGS - 1
      /\ \A j, k \in 1..argc : j < k => argv[j] < argv[k]
      /\ \A k \in 1..argc : argv[k] + 1 \in WordStarts(line) /\ argv[k] + 1 <= pos
      /\ \A n \in WordStarts(line) : n <= pos => \E k \in 1..argc : argv[k] = n - 1
  BY <1>1 DEF Found, Searched
<1>7. /\ argv' \in Seq(Nat) /\ argc' = Len(argv') /\ argv'[argc + 1] = pos
      /\ \A k \in 1..argc : argv'[k] = argv[k] /\ argv[k] \in Nat
      /\ argc' <= MAXARGS - 1
  BY <1>1, <1>3, <1>6, MaxArgsAssumption
<1>8. \A k \in 1..argc' : k \in 1..argc \/ k = argc + 1
  BY <1>1, <1>6
<1>9. Found'
  <2>1. ASSUME NEW j \in 1..argc', NEW k \in 1..argc', j < k
        PROVE  argv'[j] < argv'[k]
    <3>1. j \in 1..argc /\ argv'[j] = argv[j] /\ argv[j] \in Nat /\ argv[j] + 1 <= pos
      BY <1>1, <1>6, <1>7, <2>1
    <3>2. CASE k = argc + 1
      BY <1>3, <1>7, <3>1, <3>2
    <3>3. CASE k \in 1..argc
      BY <1>6, <1>7, <2>1, <3>1, <3>3
    <3> QED
      BY <1>8, <3>2, <3>3
  <2>2. ASSUME NEW k \in 1..argc'
        PROVE  argv'[k] + 1 \in WordStarts(line) /\ argv'[k] + 1 <= pos + 1
    <3>1. CASE k = argc + 1
      BY <1>3, <1>4, <1>7, <3>1
    <3>2. CASE k \in 1..argc
      <4>1. argv'[k] = argv[k] /\ argv[k] \in Nat
        BY <1>7, <3>2
      <4>2. argv[k] + 1 \in WordStarts(line) /\ argv[k] + 1 <= pos
        BY <1>6, <3>2
      <4> QED
        BY <1>3, <4>1, <4>2
    <3> QED
      BY <1>8, <3>1, <3>2
  <2>3. ASSUME NEW n \in WordStarts(line), n <= pos + 1
        PROVE  \E k \in 1..argc' : argv'[k] = n - 1
    <3>1. n \in Nat
      BY DEF WordStarts
    <3>2. CASE n = pos + 1
      <4>1. argc + 1 \in 1..argc' /\ n - 1 = pos
        BY <1>1, <1>3, <1>6, <3>2
      <4> QED
        BY <1>7, <4>1
    <3>3. CASE n <= pos
      <4>1. PICK k \in 1..argc : argv[k] = n - 1
        BY <1>6, <3>3
      <4>2. k \in 1..argc' /\ argv'[k] = n - 1
        BY <1>1, <1>6, <1>7, <4>1
      <4> QED
        BY <4>2
    <3> QED
      BY <1>3, <2>3, <3>1, <3>2, <3>3
  <2>4. Searched' = pos + 1
    BY <1>1 DEF Searched
  <2> QED
    BY <1>1, <1>7, <2>1, <2>2, <2>3, <2>4 DEF Found
<1> QED
  BY <1>1, <1>2, <1>5, <1>9 DEF RunInv

\* The steps that only change where runcmd is.
LEMMA TurnInv ==
  ASSUME RunInv, SplitEnd \/ TooMany \/ Invoke
  PROVE  RunInv'
<1>1. /\ LineInv /\ NothingAfterCursor /\ at = "prompt" /\ Splitting /\ Found /\ Placed
      /\ cmd_at \in {"split", "lookup"} /\ cmd_at' \in {"lookup", "toomany", "command"}
      /\ UNCHANGED <<editVars, buf, cmdVars>>
      /\ cmd_at' # "toomany" => cmd_at = "lookup" \/ buf[pos] = 0
  BY DEF RunInv, SplitEnd, TooMany, Invoke
<1>2. LineInv' /\ NothingAfterCursor' /\ at' = "prompt"
  BY <1>1, WriteInv
<1>3. Splitting'
  BY <1>1 DEF Splitting, cmdVars
<1>4. Searched' = Searched
  BY <1>1 DEF Searched, cmdVars
<1>5. Found'
  BY <1>1, <1>4 DEF Found, cmdVars
<1>6. Placed'
  BY <1>1, AtPos DEF Placed, cmdVars
<1> QED
  BY <1>1, <1>2, <1>3, <1>5, <1>6 DEF RunInv

\* runcmd returns, or a panic inside a command enters the monitor anew.
LEMMA ReturnInv ==
  ASSUME RunInv, TooManyEnd \/ Unknown \/ CommandEnd \/ _panic
  PROVE  RunInv'
<1>1. /\ LineInv /\ NothingAfterCursor /\ at = "prompt" /\ ToReadline
      /\ PutNewline \/ UNCHANGED cgaVars
  BY DEF RunInv, TooManyEnd, Unknown, CommandEnd, _panic
<1>2. LineInv' /\ NothingAfterCursor'
  BY <1>1, MessageInv DEF ToReadline
<1> QED
  BY <1>1, <1>2 DEF ToReadline, RunInv

LEMMA MonStepInv == RunInv /\ [MonNext]_monVars => RunInv'
<1> SUFFICES ASSUME RunInv, [MonNext]_monVars PROVE RunInv'
  OBVIOUS
<1>1. CASE Edit
  <2>1. LineNext /\ cmd_at = "readline" /\ cmd_at' = "readline"
    BY <1>1 DEF Edit, LineNext
  <2>2. LineInv' /\ NothingAfterCursor'
    BY <2>1, LineStepInv, LineStepBlank DEF RunInv, LineInv, LineTypeOK
  <2> QED
    BY <2>1, <2>2 DEF RunInv
<1>2. CASE UNCHANGED monVars
  <2>1. UNCHANGED <<lineVars, cmd_at, line, pos, argc, argv>>
    BY <1>2 DEF monVars
  <2>2. LineInv' /\ NothingAfterCursor'
    BY <2>1, LineStepInv, LineStepBlank DEF RunInv, LineInv, LineTypeOK
  <2>3. Searched' = Searched
    BY <2>1 DEF Searched
  <2>4. /\ Splitting => Splitting'
        /\ Found => Found'
        /\ Placed => Placed'
    BY <2>1, <2>3 DEF Splitting, Found, Placed, lineVars
  <2> QED
    BY <2>1, <2>2, <2>4 DEF RunInv, lineVars
<1> QED
  BY <1>1, <1>2, RunCmdInv, GobbleInv, ScanInv, ScanEndInv, SaveArgInv, TurnInv,
     ReturnInv DEF MonNext

LEMMA PanicStepInv == PanicInv /\ [MonNext]_monVars => PanicInv'
<1> SUFFICES ASSUME PanicInv, [MonNext]_monVars PROVE PanicInv'
  OBVIOUS
<1>1. CASE _panic
  <2>1. CASE depth = 0
    <3>1. panicstr' = 1 /\ depth' = 1 /\ said' = Append(<< >>, 1)
      BY <1>1, <2>1 DEF _panic, PanicInv, FirstPanicOnly
    <3>2. Append(<< >>, 1) = <<1>>
      OBVIOUS
    <3> QED
      BY <3>1, <3>2 DEF PanicInv, FirstPanicOnly
  <2>2. CASE depth # 0
    BY <1>1, <2>2 DEF _panic, PanicInv, FirstPanicOnly
  <2> QED
    BY <2>1, <2>2
<1>2. CASE UNCHANGED panicVars
  BY <1>2 DEF PanicInv, FirstPanicOnly, panicVars
<1> QED
  BY <1>1, <1>2 DEF MonNext, monVars, panicVars, Edit, RunCmd, Gobble, SplitEnd, TooMany,
       SaveArg, Scan, ScanEnd, TooManyEnd, Unknown, Invoke, CommandEnd
-----------------------------------------------------------------------------
\* Every command gets exactly the words of the line that was typed, each as a C
\* string of its own, and argv never overflows: for every buffer length, every
\* MAXARGS and every line, and although the words stay in readline's buffer.
THEOREM ArgsAreWordsCorrect == MonSpec => []ArgsAreWords
BY MonInitInv, MonStepInv, ArgsFromInv, PTL DEF MonSpec

\* However often commands panic inside panics, only the first panic is
\* announced and panicstr keeps its message.
THEOREM FirstPanicOnlyCorrect == MonSpec => []FirstPanicOnly
<1>1. PanicInv => FirstPanicOnly
  BY DEF PanicInv
<1> QED
  BY <1>1, MonInitInv, PanicStepInv, PTL DEF MonSpec

\* What readline promises holds in the monitor too, which prints between two
\* calls and writes into readline's buffer: the screen shows the line, the line
\* returned is a C string, nothing stands after the cursor.
THEOREM MonitorKeepsLine ==
  MonSpec => [](LineTypeOK /\ EchoMirrorsLine /\ ReturnsCString /\ NothingAfterCursor)
<1>1. RunInv => LineTypeOK /\ EchoMirrorsLine /\ ReturnsCString /\ NothingAfterCursor
  BY LineSizes DEF RunInv, LineInv, LineTypeOK, Mirrors, EchoMirrorsLine, Filled,
       ReturnsCString
<1> QED
  BY <1>1, MonInitInv, MonStepInv, PTL DEF MonSpec
=============================================================================
