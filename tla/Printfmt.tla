------------------------------ MODULE Printfmt ------------------------------
(***************************************************************************)
(* snprintf of lib/printfmt.c: vprintfmt's reading of the format and the   *)
(* arguments, and sprintputch, which stores what fits.  One action per     *)
(* case of the switch; `goto reswitch' stays in the "flags" state.  The    *)
(* escapes that set colours are ConsOut's.                                 *)
(*                                                                         *)
(* Characters are one-letter strings, "NUL" the terminator, "TAB" a        *)
(* character that is not printable.  An argument is its 64-bit slot, an    *)
(* integer of LongWidth bits, or a string.  The caller (external) puts an  *)
(* int into the lower IntWidth bits of a slot and clears the others: that  *)
(* is what the instructions of a build without optimisation do.            *)
(***************************************************************************)
EXTENDS Integers, SequencesExt

CONSTANTS IntWidth, LongWidth,
          Calls,        \* the calls of snprintf: what is asked, and the room
          BufSize       \* the memory around the buffer, to see stores beyond it

ASSUME FmtWidthAssumption ==
  /\ IntWidth \in Nat \ {0} /\ LongWidth \in Nat /\ IntWidth < LongWidth
  /\ BufSize \in Nat

VARIABLES call, fmt, ap,        \* the call; the rest of the format, the arguments left
          since,                \* the format after the last '%'
          flags,                \* padc, width, precision, altflag
          fmt_at,               \* "call", "text", "flags" or "returned"
          b,                    \* struct sprintbuf, with the memory
          rc

fmtVars == <<call, fmt, ap, since, flags, fmt_at, b, rc>>

DigitOf == <<"0", "1", "2", "3", "4", "5", "6", "7", "8", "9", "a", "b", "c", "d", "e", "f">>
Digit(d) == DigitOf[d + 1]
IsDigit(c) == \E d \in 0..9 : c = Digit(d)

NoFlags == [padc |-> " ", width |-> -1, precision |-> -1, altflag |-> FALSE]

\* The caller (external): the slot of an argument, and the format's text.
SlotOf(item) ==
  CASE item.type = "str" -> item.s
    [] item.type = "char" -> item.s[1]
    [] OTHER -> item.v % 2^(IF item.type = "int" THEN IntWidth ELSE LongWidth)

ArgsOf(item) == (IF item.star THEN <<item.width % 2^IntWidth>> ELSE << >>)
                \o (IF item.pstar THEN <<item.prec % 2^IntWidth>> ELSE << >>)
                \o (IF item.type = "none" THEN << >> ELSE <<SlotOf(item)>>)

FormatOf(c) == FlattenSeq([k \in 1..Len(c.items) |-> c.items[k].text]) \o <<"NUL">>
SlotsOf(c) == FlattenSeq([k \in 1..Len(c.items) |-> ArgsOf(c.items[k])])

\* The null pointer, for a string.
NullStr == <<"NULL">>
NullText == <<"(", "n", "u", "l", "l", ")">>

\* What the conversions take, and the characters that a directive goes on after.
KindOf == [d |-> "number", o |-> "number", u |-> "number", x |-> "number", p |-> "number",
           e |-> "number", c |-> "char", s |-> "string"]
Goes == {"-", "0", "#", "l", "."} \cup {Digit(d) : d \in 1..9}
Known == Goes \cup {"*", "%"} \cup DOMAIN KindOf

\* The kinds of the arguments that a format takes, from within a text and from
\* within a directive, if it starts with c and its rest takes r.
Before(c, r) ==
  IF c = "NUL" THEN [text |-> << >>, flags |-> << >>]
  ELSE [text |-> IF c = "%" THEN r.flags ELSE r.text,
        flags |-> CASE c \in Goes -> r.flags
                    [] c = "*" -> <<"number">> \o r.flags
                    [] c \in DOMAIN KindOf -> <<KindOf[c]>> \o r.text
                    [] OTHER -> r.text]

\* What a caller has to know of a format: the last m characters, one more each time.
Takes(f) ==
  LET rest[m \in 0..Len(f)] == IF m = 0 THEN [text |-> << >>, flags |-> << >>]
                               ELSE Before(f[Len(f) - m + 1], rest[m - 1])
  IN rest[Len(f)]

\* An argument is what its kind says.
OfKind(x, kind) ==
  CASE kind = "number" -> x \in Nat
    [] kind = "char" -> x \in STRING
    [] OTHER -> x \in Seq(STRING)

Fits(args, kinds) == /\ Len(kinds) <= Len(args)
                     /\ \A k \in 1..Len(kinds) : OfKind(args[k], kinds[k])

\* A call that C allows: the buffer is there, and the arguments are those that the
\* format takes.
FmtLegal(c) == /\ c.n \in Int /\ c.n <= BufSize
               /\ Len(c.items) \in Nat
               /\ \A k \in 1..Len(c.items) : c.items[k].text \in Seq(STRING)
               /\ Fits(SlotsOf(c), Takes(FormatOf(c)).text)

ASSUME CallsAssumption == \A c \in Calls : FmtLegal(c)

\* snprintf is called.
FmtInit(c) ==
  /\ call = c
  /\ fmt = FormatOf(c)
  /\ ap = SlotsOf(c)
  /\ since = << >> /\ flags = NoFlags
  /\ fmt_at = "call"
  /\ b = [mem |-> [i \in 0..BufSize |-> "old"], buf |-> 0, cnt |-> 0]
  /\ rc = 0

FmtStep(label, f, args) ==
  /\ fmt_at' = label /\ fmt' = f /\ ap' = args
  /\ UNCHANGED <<call, rc>>

\* Seeded fault: no room is left for the terminator.
RoomFull == call.n - b.buf

\* ebuf - buf
Room == call.n - 1 - b.buf

\* sprintputch for each of the characters: what does not fit is counted but not
\* stored.
Put(chars) ==
  LET k == Min({Room, Len(chars)})
  IN b' = [mem |-> [i \in DOMAIN b.mem |->
                      IF i \in b.buf..b.buf+k-1 THEN chars[i - b.buf + 1] ELSE b.mem[i]],
           buf |-> b.buf + k, cnt |-> b.cnt + Len(chars)]

\* n copies of a character; none for n <= 0.
Pad(n, c) == [i \in 1..(IF n > 0 THEN n ELSE 0) |-> c]

\* printnum: the width goes down by one for each digit that follows the first.
printnum(num, base, width, padc) ==
  LET digits[n \in Nat] ==
        [w \in Int |-> IF n >= base THEN Append(digits[n \div base][w - 1], Digit(n % base))
                                   ELSE Append(Pad(w - 1, padc), Digit(n))]
  IN digits[num][width]

\* A slot as a signed integer of w bits.
Signed(x, w) == LET y == x % 2^w IN IF y >= 2^(w-1) THEN y - 2^w ELSE y
-----------------------------------------------------------------------------
\* vsnprintf, before and after vprintfmt.
Einval ==
  /\ fmt_at = "call" /\ (call.null \/ call.n < 1)
  /\ fmt_at' = "returned" /\ rc' = -3
  /\ UNCHANGED <<call, fmt, ap, since, flags, b>>

Start ==
  /\ fmt_at = "call" /\ ~call.null /\ call.n >= 1
  /\ FmtStep("text", fmt, ap)
  /\ UNCHANGED <<since, flags, b>>

End ==
  /\ fmt_at = "text" /\ Head(fmt) = "NUL"
  /\ b' = [b EXCEPT !.mem[b.buf] = "NUL"]
  /\ fmt_at' = "returned" /\ rc' = b.cnt
  /\ UNCHANGED <<call, fmt, ap, since, flags>>

Text ==
  /\ fmt_at = "text" /\ Head(fmt) \notin {"NUL", "%"}
  /\ Put(<<Head(fmt)>>)
  /\ FmtStep("text", Tail(fmt), ap)
  /\ UNCHANGED <<since, flags>>

Directive ==
  /\ fmt_at = "text" /\ Head(fmt) = "%"
  /\ since' = Tail(fmt) /\ flags' = NoFlags
  /\ FmtStep("flags", Tail(fmt), ap)
  /\ UNCHANGED b

\* goto reswitch, having changed the flags.
Reswitch(f, rest, args) ==
  /\ flags' = f
  /\ FmtStep("flags", rest, args)
  /\ UNCHANGED <<since, b>>

At(chars) == fmt_at = "flags" /\ Head(fmt) \in chars

PadFlag == At({"-", "0"}) /\ Reswitch([flags EXCEPT !.padc = Head(fmt)], Tail(fmt), ap)
Alternate == At({"#"}) /\ Reswitch([flags EXCEPT !.altflag = TRUE], Tail(fmt), ap)
\* Seeded fault: the flag is not stepped over.
LongStuck == At({"l"}) /\ UNCHANGED fmtVars

Long == At({"l"}) /\ Reswitch(flags, Tail(fmt), ap)

Point ==
  /\ At({"."})
  /\ Reswitch([flags EXCEPT !.width = IF @ < 0 THEN 0 ELSE @], Tail(fmt), ap)

\* Seeded fault: the second number of a directive is a width again.
ProcessPrecisionOver(p) == [flags EXCEPT !.width = p, !.precision = -1]

\* process_precision: the first number is the width.
ProcessPrecision(p) ==
  IF flags.width < 0 THEN [flags EXCEPT !.width = p, !.precision = -1]
                     ELSE [flags EXCEPT !.precision = p]

Number ==
  LET len == CHOOSE k \in 1..Len(fmt) :
               ~IsDigit(fmt[k + 1]) /\ \A j \in 1..k : IsDigit(fmt[j])
      value[k \in 0..len] ==
        IF k = 0 THEN 0 ELSE value[k - 1] * 10 + (CHOOSE d \in 0..9 : Digit(d) = fmt[k])
  IN /\ At({Digit(d) : d \in 1..9})
     /\ Reswitch(ProcessPrecision(value[len]), SubSeq(fmt, len + 1, Len(fmt)), ap)

Star == At({"*"}) /\ Reswitch(ProcessPrecision(Signed(Head(ap), IntWidth)), Tail(fmt), Tail(ap))

\* The directive ends: its text goes out and its argument is used.
Prints(chars, args) ==
  /\ Put(chars)
  /\ FmtStep("text", Tail(fmt), args)
  /\ UNCHANGED <<since, flags>>

Char == At({"c"}) /\ Prints(<<Head(ap)>>, Tail(ap))
Percent == At({"%"}) /\ Prints(<<"%">>, ap)

\* error_string has a text for each code below MAXERROR but E_NO_SYS; the texts
\* are not told apart further than by their code.
E_NO_SYS == 7
MAXERROR == 8
Described == 1..MAXERROR-1 \ {E_NO_SYS}
ErrorName(err) == <<"m", Digit(err)>>

ErrorText ==
  LET x == Signed(Head(ap), IntWidth)
      err == IF x < 0 THEN -x ELSE x
  IN /\ At({"e"})
     /\ Prints(IF err >= MAXERROR \/ err \notin Described
               THEN <<"e", "r", "r", "o", "r", " ">> \o printnum(err, 10, -1, " ")
               ELSE ErrorName(err), Tail(ap))

\* strnlen of lib/string.c, for the characters of a string without its terminator.
strnlen(s, size) == IF size < 0 \/ Len(s) < size THEN Len(s) ELSE size

StringArg ==
  LET p == IF Head(ap) = NullStr THEN NullText ELSE Head(ap)
      len == strnlen(p, flags.precision)
      shown == [k \in 1..len |-> IF flags.altflag /\ p[k] = "TAB" THEN "?" ELSE p[k]]
      left == IF flags.padc # "-" THEN flags.width - len ELSE 0
      right == IF flags.padc # "-" THEN 0 ELSE flags.width - len
  IN /\ At({"s"})
     /\ Prints(Pad(left, flags.padc) \o shown \o Pad(right, " "), Tail(ap))

Num(num, base, prefix) ==
  Prints(prefix \o printnum(num, base, flags.width, flags.padc), Tail(ap))

\* getint(&aq, 3) reads the whole slot.  The octal case is signed as well.
SignedNum(base) ==
  LET x == Signed(Head(ap), LongWidth)
  IN IF x < 0 THEN Num(-x, base, <<"-">>) ELSE Num(x, base, << >>)

Dec == At({"d"}) /\ SignedNum(10)
Oct == At({"o"}) /\ SignedNum(8)
Uns == At({"u"}) /\ Num(Head(ap), 10, << >>)
Hex == At({"x"}) /\ Num(Head(ap), 16, << >>)
Ptr == At({"p"}) /\ Num(Head(ap), 16, <<"0", "x">>)

\* An unknown directive: its text is taken again, as text, from after the '%'.
Default ==
  /\ fmt_at = "flags" /\ Head(fmt) \notin Known
  /\ Put(<<"%">>)
  /\ FmtStep("text", since, ap)
  /\ UNCHANGED <<since, flags>>

FmtNext ==
  \/ Einval \/ Start \/ End \/ Text \/ Directive
  \/ PadFlag \/ Alternate \/ Long \/ Point \/ Number \/ Star
  \/ Char \/ Percent \/ ErrorText \/ StringArg
  \/ Dec \/ Oct \/ Uns \/ Hex \/ Ptr \/ Default
-----------------------------------------------------------------------------
(***************************************************************************)
(* What a directive asks for, from its parts and not from its text.        *)
(***************************************************************************)
\* The digits of v: the one at a position is what is left after dividing.
Digits(v, base) ==
  LET left[k \in 0..v+1] == IF k = 0 THEN v ELSE left[k - 1] \div base
      n == CHOOSE k \in 1..v+1 : left[k] = 0 /\ (k > 1 => left[k - 1] # 0)
  IN [k \in 1..n |-> Digit(left[n - k] % base)]

BaseOf(conv) == CASE conv = "o" -> 8 [] conv \in {"d", "u"} -> 10 [] OTHER -> 16

Justify(item, chars) ==
  LET fill == item.width - Len(chars)
  IN IF item.pad = "-" THEN chars \o Pad(fill, " ") ELSE Pad(fill, item.pad) \o chars

Rendered(item) ==
  CASE item.conv \in {"d", "u", "o", "x", "p"} ->
         (CASE item.conv = "p" -> <<"0", "x">> [] item.v < 0 -> <<"-">> [] OTHER -> << >>)
         \o Justify(item, Digits(IF item.v < 0 THEN -item.v ELSE item.v, BaseOf(item.conv)))
    [] item.conv = "s" ->
         LET s == IF item.s = NullStr THEN NullText ELSE item.s
             cut == IF item.prec >= 0 /\ item.prec < Len(s) THEN SubSeq(s, 1, item.prec) ELSE s
         IN [k \in 1..Len(cut) |-> IF item.alt /\ cut[k] = "TAB" THEN "?" ELSE cut[k]]
    [] item.conv = "c" -> item.s
    [] item.conv = "e" ->
         LET e == IF item.v < 0 THEN -item.v ELSE item.v
         IN IF e \in 1..MAXERROR-1 THEN ErrorName(e)
            ELSE <<"e", "r", "r", "o", "r", " ">> \o Digits(e, 10)
    [] item.conv = "%" -> <<"%">>
    [] OTHER -> item.text

\* The text of a directive, from its parts.
Maybe(there, chars) == IF there THEN chars ELSE << >>
TextOf(item) ==
  <<"%">> \o Maybe(item.pad # " ", <<item.pad>>) \o Maybe(item.alt, <<"#">>)
  \o (IF item.star THEN <<"*">> ELSE Maybe(item.width > 0, Digits(item.width, 10)))
  \o Maybe(item.pstar \/ item.prec > 0, <<".">>)
  \o (IF item.pstar THEN <<"*">> ELSE Maybe(item.prec > 0, Digits(item.prec, 10)))
  \o Maybe(item.long, <<"l">>) \o <<item.conv>>

\* What a variable of w bits holds.
SignedIn(w) == -(2^(w-1))..2^(w-1)-1

\* A directive takes an argument of its type; %d and %o read it as a signed long,
\* and the negation of an error code is an int.
Takable(item) ==
  LET width == IF item.type = "int" THEN IntWidth ELSE LongWidth
  IN CASE item.conv \in {"d", "u", "o", "x", "p"} ->
            /\ item.type \in {"int", "long"}
            /\ item.v \in SignedIn(width) \cup 0..2^width-1
            /\ item.conv \in {"d", "o"} => item.v < 2^(LongWidth-1)
       [] item.conv = "e" -> item.type = "int" /\ item.v \in SignedIn(IntWidth) \ {-(2^(IntWidth-1))}
       [] item.conv = "c" -> item.type = "char" /\ item.s \in Seq(STRING) /\ Len(item.s) = 1
       [] item.conv = "s" -> item.type = "str" /\ item.s \in Seq(STRING)
       [] OTHER -> item.type = "none"

\* Characters between the directives.
PlainText(chars) == chars \in Seq(STRING) /\ \A k \in 1..Len(chars) : chars[k] \notin {"%", "NUL"}

\* An item is plain text or a directive written as C says, or a '%' at the end of
\* the format.  A precision of 0 takes a '*', since '0' is a flag.
Literal(item, last) ==
  /\ item.conv = "lit" /\ item.type = "none" /\ ~item.star /\ ~item.pstar
  /\ item.text # << >>
  /\ PlainText(item.text) \/ (last /\ item.text = <<"%">>)

Written(item) ==
  /\ item.conv \in STRING \ (Goes \cup {"*", "NUL", "lit"})
  /\ item.text = TextOf(item)
  /\ item.pad \in {" ", "-", "0"} /\ {item.alt, item.star, item.pstar, item.long} \subseteq BOOLEAN
  /\ item.width \in Int /\ (item.star => item.width \in SignedIn(IntWidth))
  /\ item.prec \in Int /\ IF item.pstar THEN item.prec \in SignedIn(IntWidth) ELSE item.prec # 0
  /\ Takable(item)

WellWritten(item, last) == Literal(item, last) \/ Written(item)

\* What the comments promise.  "Space or zero padding and a field width are
\* supported for the numeric formats only": a value there is not negative, or,
\* without a width, any long.  %e has a text for each error code; it does not have
\* the one of E_NO_SYS.
Promised(item) ==
  /\ item.conv \in {"d", "u", "o", "x", "p"} =>
       /\ item.width > 0 => item.pad # "-"
       /\ item.v >= 0 \/ (item.conv = "d" /\ item.type = "long" /\ item.width <= 0)
  /\ item.conv \in {"c", "s", "e", "%"} => item.width <= 0
  /\ item.conv = "e" => item.v \notin {E_NO_SYS, -E_NO_SYS}

AskedText == FlattenSeq([k \in 1..Len(call.items) |-> Rendered(call.items[k])])

\* The characters in the buffer up to the terminator.
Stored == SubSeq([i \in 1..BufSize+1 |-> b.mem[i - 1]], 1, b.buf)

\* snprintf returns the length of the text that its format asks for, and leaves
\* in the buffer as much of it as fits: for every combination of flags, width,
\* precision, star and conversion, one after the other, each taking its own
\* arguments, and for directives it does not know, which it prints as they are.
FormatsAsAsked ==
  fmt_at = "returned" /\ rc # -3
    /\ (\A k \in 1..Len(call.items) :
          WellWritten(call.items[k], k = Len(call.items)) /\ Promised(call.items[k])) =>
    /\ rc = Len(AskedText)
    /\ Stored = SubSeq(AskedText, 1, IF rc < call.n - 1 THEN rc ELSE call.n - 1)

\* Whatever the format, snprintf stores nothing at or beyond the n-th place, and
\* a call that succeeds leaves a terminated string.
SnprintfBounded ==
  /\ \A i \in 0..BufSize : i >= call.n => b.mem[i] = "old"
  /\ fmt_at = "returned" /\ rc # -3 => b.mem[b.buf] = "NUL"

\* The comment on case 'd': "(signed) decimal".  An int, which is what the
\* directive is written for, is printed with its sign.
SignedDecimal ==
  fmt_at = "returned" /\ rc # -3
    /\ (\A k \in 1..Len(call.items) : call.items[k].conv = "d" /\ call.items[k].width <= 0) =>
    rc = Len(AskedText) /\ Stored = SubSeq(AskedText, 1, rc)
=============================================================================
