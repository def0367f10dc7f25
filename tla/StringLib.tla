----------------------------- MODULE StringLib -----------------------------
(***************************************************************************)
(* lib/string.c on a small memory of bytes: memset and memmove, whose      *)
(* string instructions are run a unit at a time, and the loops over C      *)
(* strings, which are taken in one step each.  Pointers are addresses; the *)
(* null pointer is -1, which no object of the instances has.               *)
(***************************************************************************)
EXTENDS Integers, SequencesExt

CONSTANTS StrCalls,     \* records of a function f, its arguments and the memory
          LONG_MAX      \* the largest number that a long holds

VARIABLES op, mem,      \* the call, the memory
          str_at,       \* "call", "rep" or "returned"
          si, di, cx,   \* registers of the string instructions
          unit, df,     \* bytes moved at a time; the direction flag
          res           \* what the call returns

strVars == <<op, mem, str_at, si, di, cx, unit, df, res>>
repVars == <<si, di, cx, unit, df>>

Null == -1
NUL == 0

StrInit(o) ==
  /\ op = o
  /\ mem = op.mem
  /\ str_at = "call"
  /\ si = 0 /\ di = 0 /\ cx = 0 /\ unit = 1 /\ df = FALSE
  /\ res = [val |-> 0, end |-> Null]

\* The first place from p on at which a loop stops, S being where it would.
First(p, S) == LET at[i \in Nat] == IF i \in S THEN i ELSE at[i + 1] IN at[p]

Returns(m, v, e) ==
  /\ mem' = m /\ res' = [val |-> v, end |-> e]
  /\ str_at' = "returned"
  /\ UNCHANGED <<op, repVars>>
-----------------------------------------------------------------------------
Calling(f) == str_at = "call" /\ op.f = f

\* A string instruction is set up: cld or std, and rep with n units of u bytes.
Rep(u, s, d, n, down) ==
  /\ unit' = u /\ si' = s /\ di' = d /\ cx' = n \div u /\ df' = down
  /\ str_at' = "rep"
  /\ UNCHANGED <<op, mem, res>>

Words(ps) == \A p \in ps : p % 4 = 0

memset ==
  /\ Calling("memset")
  /\ IF op.n = 0 THEN Returns(mem, op.dst, Null)
     ELSE Rep(IF Words({op.dst, op.n}) THEN 4 ELSE 1, 0, op.dst, op.n, FALSE)

\* Seeded fault: the overlap is not looked for.
memmoveForward ==
  /\ Calling("memmove")
  /\ Rep(IF Words({op.src, op.dst, op.n}) THEN 4 ELSE 1, op.src, op.dst, op.n, FALSE)

\* Backwards when the destination starts inside the source.
memmove ==
  LET u(s, d) == IF Words({s, d, op.n}) THEN 4 ELSE 1
  IN /\ Calling("memmove")
     /\ IF op.src < op.dst /\ op.src + op.n > op.dst
        THEN LET s == op.src + op.n
                 d == op.dst + op.n
             IN Rep(u(s, d), s - u(s, d), d - u(s, d), op.n, TRUE)
        ELSE Rep(u(op.src, op.dst), op.src, op.dst, op.n, FALSE)

\* One unit of rep movs or rep stos; the unit is read before it is written.
RepUnit ==
  LET byte(k) == IF op.f = "memset" THEN op.c % 256 ELSE mem[si + k]
      next(p) == IF df THEN p - unit ELSE p + unit
  IN /\ str_at = "rep" /\ cx > 0
     /\ mem' = [p \in DOMAIN mem |-> IF p \in di..di+unit-1 THEN byte(p - di) ELSE mem[p]]
     /\ si' = (IF op.f = "memset" THEN si ELSE next(si)) /\ di' = next(di)
     /\ cx' = cx - 1
     /\ UNCHANGED <<op, str_at, unit, df, res>>

\* memmove clears the direction flag that it set.
RepEnd ==
  /\ str_at = "rep" /\ cx = 0
  /\ str_at' = "returned" /\ res' = [res EXCEPT !.val = op.dst]
  /\ df' = FALSE
  /\ UNCHANGED <<op, mem, si, di, cx, unit>>
-----------------------------------------------------------------------------
strlenOf(m, s) == First(s, {i \in Nat : m[i] = NUL}) - s

\* The bytes from s on, up to k of them, at d.
CopyTo(m, d, s, k) ==
  [p \in DOMAIN m |-> IF p \in d..d+k-1 THEN m[s + p - d] ELSE m[p]]

strlen == Calling("strlen") /\ Returns(mem, strlenOf(mem, op.src), Null)

strcpy == /\ Calling("strcpy")
          /\ Returns(CopyTo(mem, op.dst, op.src, strlenOf(mem, op.src) + 1), op.dst, Null)

strcat ==
  /\ Calling("strcat")
  /\ Returns(CopyTo(mem, op.dst + strlenOf(mem, op.dst), op.src, strlenOf(mem, op.src) + 1),
             op.dst, Null)

\* Null-padded to n bytes; not terminated if the source is longer.
strncpy ==
  LET len == strlenOf(mem, op.src)
      byte(k) == IF k < len THEN mem[op.src + k] ELSE NUL
  IN /\ Calling("strncpy")
     /\ Returns([p \in DOMAIN mem |->
                   IF p \in op.dst..op.dst+op.n-1 THEN byte(p - op.dst) ELSE mem[p]], op.dst, Null)

\* The result is the number of bytes copied.
strlcpy ==
  LET k == First(0, {i \in Nat : i = op.n - 1 \/ mem[op.src + i] = NUL})
  IN /\ Calling("strlcpy")
     /\ IF op.n = 0 THEN Returns(mem, 0, Null)
        ELSE Returns([CopyTo(mem, op.dst, op.src, k) EXCEPT ![op.dst + k] = NUL], k, Null)

strcmp ==
  LET k == First(0, {i \in Nat : mem[op.src + i] = NUL \/ mem[op.src + i] # mem[op.dst + i]})
  IN Calling("strcmp") /\ Returns(mem, mem[op.src + k] - mem[op.dst + k], Null)

strncmpOf(m, p, q, n) ==
  LET k == First(0, {i \in Nat : i = n \/ m[p + i] = NUL \/ m[p + i] # m[q + i]})
  IN IF k = n THEN 0 ELSE m[p + k] - m[q + k]

strncmp == Calling("strncmp") /\ Returns(mem, strncmpOf(mem, op.src, op.dst, op.n), Null)

memcmp ==
  LET k == First(0, {i \in Nat : i = op.n \/ mem[op.src + i] # mem[op.dst + i]})
  IN /\ Calling("memcmp")
     /\ Returns(mem, IF k = op.n THEN 0 ELSE mem[op.src + k] - mem[op.dst + k], Null)

strchr ==
  LET i == First(op.src, {p \in Nat : mem[p] \in {NUL, op.c}})
  IN Calling("strchr") /\ Returns(mem, IF mem[i] = NUL THEN Null ELSE i, Null)

strfind ==
  Calling("strfind") /\ Returns(mem, First(op.src, {p \in Nat : mem[p] \in {NUL, op.c}}), Null)

\* c is an int of which (unsigned char) c is sought.
memfind ==
  /\ Calling("memfind")
  /\ Returns(mem, First(op.src, {p \in Nat : p = op.src + op.n \/ mem[p] = op.c % 256}), Null)

\* Seeded fault: the search goes on after the mismatch, not after its first letter.
MatchesSkipping(m, i, in, str) ==
  /\ m[i] = m[str]
  /\ strncmpOf(m, i + 1, str + 1, strlenOf(m, str + 1)) = 0
  /\ (i > in /\ m[i - 1] = m[str] => m[str + 1] = NUL)

\* strstr's test at a place of the text: its letter is the first of str, and
\* strncmp finds the rest after it.
Matches(m, i, in, str) ==
  /\ m[i] = m[str]
  /\ strncmpOf(m, i + 1, str + 1, strlenOf(m, str + 1)) = 0

strstr ==
  LET i == First(op.src, {p \in Nat : mem[p] = NUL \/ Matches(mem, p, op.src, op.dst)})
  IN /\ Calling("strstr")
     /\ Returns(mem, IF mem[op.dst] = NUL THEN op.src
                     ELSE IF mem[i] = NUL THEN Null ELSE i, Null)

\* The value of a digit, 36 for a character that is none.
DigitValue(c) ==
  CASE c \in 48..57 -> c - 48
    [] c \in 97..122 -> c - 97 + 10
    [] c \in 65..90 -> c - 65 + 10
    [] OTHER -> 36

\* Seeded fault: a prefix is only looked for when the base is not given.
PrefixBase0(m, p, base) ==
  CASE base = 0 /\ m[p] = 48 /\ m[p + 1] = 120 -> <<p + 2, 16>>
    [] base = 0 /\ m[p] = 48 /\ m[p + 1] # 120 -> <<p + 1, 8>>
    [] base = 0 /\ m[p] # 48 -> <<p, 10>>
    [] OTHER -> <<p, base>>

\* "hex or octal base prefix": where the digits start, and the base.
Prefix(m, p, base) ==
  CASE base \in {0, 16} /\ m[p] = 48 /\ m[p + 1] = 120 -> <<p + 2, 16>>
    [] base = 0 /\ m[p] = 48 /\ m[p + 1] # 120 -> <<p + 1, 8>>
    [] base = 0 /\ m[p] # 48 -> <<p, 10>>
    [] OTHER -> <<p, base>>

\* The n digits from first on, read in a base.
ReadDigits(m, first, n, base) ==
  LET val[k \in 0..n] ==
        IF k = 0 THEN 0 ELSE val[k - 1] * base + DigitValue(m[first + k - 1])
  IN val[n]

\* The value and the end come out of *endptr and the result.
strtol ==
  LET s == First(op.src, {p \in Nat : mem[p] \notin {32, 9}})
      start == Prefix(mem, IF mem[s] \in {43, 45} THEN s + 1 ELSE s, op.base)
      end == First(start[1], {p \in Nat : DigitValue(mem[p]) >= start[2]})
      val == ReadDigits(mem, start[1], end - start[1], start[2])
  IN Calling("strtol") /\ Returns(mem, IF mem[s] = 45 THEN -val ELSE val, end)

StrNext ==
  \/ memset \/ memmove \/ RepUnit \/ RepEnd
  \/ strlen \/ strcpy \/ strcat \/ strncpy \/ strlcpy
  \/ strcmp \/ strncmp \/ memcmp \/ strchr \/ strfind \/ memfind \/ strstr \/ strtol
-----------------------------------------------------------------------------
(* What C asks of a caller: strings that end, room for what is written, and  *)
(* no overlap but for memmove.                                               *)

\* The string at p ends at e.
Ends(m, p, e) == p <= e /\ m[e] = NUL /\ \A k \in p..e-1 : m[k] # NUL

InMemory(m, p, n) == p \in Nat /\ n \in Nat /\ p + n <= Max(DOMAIN m) + 1

Reads(o, p) == p \in Nat /\ \E e \in DOMAIN o.mem : Ends(o.mem, p, e)

\* o copies the string that ends at e to the place d.
Copies(o, e, d) ==
  LET room == IF o.f \in {"strncpy", "strlcpy"} THEN o.n ELSE e - o.src + 1
  IN /\ Ends(o.mem, o.src, e)
     /\ IF o.f = "strcat" THEN Ends(o.mem, o.dst, d) ELSE d = o.dst
     /\ InMemory(o.mem, d, room)
     /\ d + room <= o.src \/ e < o.dst

\* The n digits of v in a base, which end before the place end.
Numeral(m, end, n, base, v) ==
  LET left[k \in 0..n] == IF k = 0 THEN v ELSE left[k - 1] \div base
  IN left[n] = 0 /\ \A k \in 1..n : DigitValue(m[end - k]) = left[k - 1] % base

\* A number's digits start at first, after the prefix at p of its base; the base
\* asked for is 0 if the prefix is to tell.
Prefixed(m, p, asked, base, first) ==
  LET hex == m[p] = 48 /\ m[p + 1] = 120
  IN \/ asked \in {0, 16} /\ hex /\ base = 16 /\ first = p + 2
     \/ asked = 0 /\ m[p] = 48 /\ ~hex /\ base = 8 /\ first = p + 1
     \/ asked = 0 /\ m[p] # 48 /\ base = 10 /\ first = p
     \/ asked \in 2..36 /\ ~(asked = 16 /\ hex) /\ base = asked /\ first = p

\* Spaces, a sign, the prefix and the digits of a number that a long holds, whose
\* text ends at o.end: the code does not "properly detect overflow".
WritesNumber(o) ==
  \E s, first \in DOMAIN o.mem, base \in 2..36 :
    LET v == IF o.mem[s] = 45 THEN -o.value ELSE o.value
    IN /\ o.src \in 0..s /\ o.mem[s] \notin {32, 9} /\ \A p \in o.src..s-1 : o.mem[p] \in {32, 9}
       /\ Prefixed(o.mem, IF o.mem[s] \in {43, 45} THEN s + 1 ELSE s, o.base, base, first)
       /\ o.end \in DOMAIN o.mem /\ first <= o.end /\ DigitValue(o.mem[o.end]) >= base
       /\ o.value \in Int /\ v \in 0..LONG_MAX /\ Numeral(o.mem, o.end, o.end - first, base, v)

Legal(o) ==
  /\ Max(DOMAIN o.mem) \in Nat /\ o.mem \in [0..Max(DOMAIN o.mem) -> 0..255]
  /\ o.f \in {"memset", "memmove", "memcmp", "memfind", "strncpy", "strlcpy", "strncmp"} =>
       o.n \in Nat
  /\ o.f \in {"memset", "memfind"} => o.c \in Int
  /\ o.f \in {"strchr", "strfind"} => o.c \in 0..255     \* a char
  /\ o.f \in {"memset", "memmove", "memcmp"} => InMemory(o.mem, o.dst, o.n)
  /\ o.f \in {"memmove", "memcmp", "memfind"} => InMemory(o.mem, o.src, o.n)
  /\ o.f \in {"strcpy", "strcat", "strncpy", "strlcpy"} =>
       /\ o.src \in Nat /\ o.dst \in Nat
       /\ \E e, d \in DOMAIN o.mem : Copies(o, e, d)
  /\ o.f \in {"strlen", "strcmp", "strncmp", "strchr", "strfind", "strstr"} => Reads(o, o.src)
  /\ o.f \in {"strcmp", "strncmp", "strstr"} => Reads(o, o.dst)
  /\ o.f = "strtol" => WritesNumber(o)

ASSUME StrCallsAssumption == \A o \in StrCalls : Legal(o)
-----------------------------------------------------------------------------
(* The string at a place, as a sequence without its terminator.              *)
Str(m, p) ==
  LET n == CHOOSE k \in p..Max(DOMAIN m) : m[k] = NUL /\ \A j \in p..k-1 : m[j] # NUL
  IN [k \in 1..(n - p) |-> m[p + k - 1]]

Done(fs) == str_at = "returned" /\ op.f \in fs
Outside(d, n) == \A p \in DOMAIN mem \ (d..d+n-1) : mem[p] = op.mem[p]

BlocksMoved ==
  Done({"memset", "memmove"}) =>
    /\ Outside(op.dst, op.n) /\ ~df /\ res.val = op.dst
    /\ \A k \in 0..op.n-1 :
         mem[op.dst + k] = IF op.f = "memset" THEN op.c % 256 ELSE op.mem[op.src + k]

StringsCopied ==
  LET s == Str(op.mem, op.src)
      cut == SubSeq(s, 1, IF op.n - 1 < Len(s) THEN op.n - 1 ELSE Len(s))
  IN /\ Done({"strcpy"}) => Str(mem, op.dst) = s /\ Outside(op.dst, Len(s) + 1)
     /\ Done({"strcat"}) =>
          LET t == Str(op.mem, op.dst) \o s
          IN Str(mem, op.dst) = t /\ Outside(op.dst, Len(t) + 1)
     /\ Done({"strlcpy"}) /\ op.n > 0 =>
          Str(mem, op.dst) = cut /\ res.val = Len(cut) /\ Outside(op.dst, op.n)
     /\ Done({"strncpy"}) =>
          /\ Outside(op.dst, op.n)
          /\ \A k \in 1..op.n : mem[op.dst + k - 1] = IF k <= Len(s) THEN s[k] ELSE NUL

\* memmove leaves at the destination what the source was before, however the two
\* overlap and whether or not words can be moved, and memset fills just its n
\* bytes; the direction flag, which compiled code relies on, is clear again.
\* strcpy and strcat leave the whole string, strlcpy one that is terminated
\* within n bytes, strncpy n bytes, padded with nulls.  None of them touches a
\* byte beyond.
CopiesExact == BlocksMoved /\ StringsCopied

Sign(x) == IF x < 0 THEN -1 ELSE IF x = 0 THEN 0 ELSE 1

\* s before, at or after t in the order of the dictionary.
Compare(s, t) ==
  IF s = t THEN 0
  ELSE LET k == Min({j \in 1..Len(s)+1 : j > Len(s) \/ j > Len(t) \/ s[j] # t[j]})
       IN IF k > Len(s) \/ (k <= Len(t) /\ s[k] < t[k]) THEN -1 ELSE 1

\* The searches find the first place, also where a partial match overlaps the
\* real one, and the comparisons have the sign of the order of the strings.
SearchesFind ==
  LET s == Str(op.mem, op.src)
      t == Str(op.mem, op.dst)
      FirstOr(S, none) == IF S = {} THEN none ELSE op.src + Min(S) - 1
      hits == {k \in 1..Len(s) : IsPrefix(t, SubSeq(s, k, Len(s)))}
      letters == {k \in 1..Len(s) : s[k] = op.c}
      cut(x) == SubSeq(x, 1, Min({op.n, Len(x)}))
      bytes(p) == [k \in 1..op.n |-> op.mem[p + k - 1]]
  IN /\ Done({"strstr"}) => res.val = IF t = << >> THEN op.src ELSE FirstOr(hits, Null)
     /\ Done({"strchr"}) => res.val = FirstOr(letters, Null)
     /\ Done({"strfind"}) => res.val = FirstOr(letters, op.src + Len(s))
     /\ Done({"memfind"}) =>
          res.val = FirstOr({k \in 1..op.n : bytes(op.src)[k] = op.c % 256}, op.src + op.n)
     /\ Done({"strlen"}) => res.val = Len(s)
     /\ Done({"strcmp"}) => Sign(res.val) = Compare(s, t)
     /\ Done({"strncmp"}) => Sign(res.val) = Compare(cut(s), cut(t))
     /\ Done({"memcmp"}) => Sign(res.val) = Compare(bytes(op.src), bytes(op.dst))

\* strtol reads back a number written with spaces before it, a sign and the
\* prefix of its base, and stops at the first character that is no digit of the
\* base.
StrtolReadsBack == Done({"strtol"}) => res.val = op.value /\ res.end = op.end
=============================================================================
