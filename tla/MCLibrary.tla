------------------------------ MODULE MCLibrary ------------------------------
(* Narrow integers: 5 bits to an int and 8 to a long for the formats; 3 payload  *)
(* bits to a LEB128 byte, 8 bits to an int and 32 to a 64-bit word for readers.  *)
EXTENDS Library

\* A directive: its parts, and the text that the programmer writes for them.
Item(conv, type, v, pad, width, star, prec, pstar, alt, long) ==
  LET parts == [conv |-> conv, type |-> type, v |-> IF type \in {"int", "long"} THEN v ELSE 0,
                s |-> IF type \in {"str", "char"} THEN v ELSE << >>, pad |-> pad, width |-> width,
                star |-> star, prec |-> prec, pstar |-> pstar, alt |-> alt, long |-> long,
                text |-> << >>]
  IN [parts EXCEPT !.text = TextOf(parts)]

Lit(text) == [Item("lit", "none", 0, " ", -1, FALSE, -1, FALSE, FALSE, FALSE)
                EXCEPT !.text = text]

Values == {0, 1, 7, 8, 10, 15, 16, 127}
Convs == {"d", "u", "o", "x", "p"}
Numbers ==
  {Item(c, "long", v, p, w, FALSE, -1, FALSE, FALSE, l) :
     c \in Convs, v \in Values, p \in {" ", "0", "-"}, w \in {-1, 1, 3, 10}, l \in BOOLEAN}
  \cup {Item(c, "int", v, " ", w, TRUE, -1, FALSE, FALSE, FALSE) :
     c \in Convs, v \in {0, 9, 31}, w \in {-2, 0, 4}}
  \cup {Item("d", "long", v, " ", -1, FALSE, -1, FALSE, FALSE, TRUE) : v \in {-1, -10, -128}}
Texts == {NullStr, << >>, <<"a">>, <<"a", "TAB", "c">>}
Strings ==
  {Item("s", "str", s, p, w, st, pr, ps, a, FALSE) :
     s \in Texts, p \in {" ", "0", "-"}, w \in {-1, 2, 4}, st \in BOOLEAN,
     pr \in {-1, 2}, ps \in BOOLEAN, a \in BOOLEAN}
Others ==
  {Item("c", "char", <<"z">>, " ", -1, FALSE, -1, FALSE, FALSE, FALSE),
   Item("%", "none", 0, " ", -1, FALSE, -1, FALSE, FALSE, FALSE),
   Item("q", "none", 0, "0", 3, FALSE, -1, FALSE, FALSE, TRUE), Lit(<<"h", "i">>), Lit(<<"%">>)}
  \cup {Item("e", "int", v, " ", -1, FALSE, -1, FALSE, FALSE, FALSE) : v \in -8..8}
Plain == {Item("s", "str", <<"a">>, "-", -1, FALSE, -1, FALSE, FALSE, FALSE),
          Item("x", "long", 10, "0", 3, FALSE, -1, FALSE, FALSE, FALSE),
          Item("s", "str", <<"b", "b">>, " ", -1, TRUE, 1, TRUE, FALSE, FALSE)}

AllItems == Numbers \cup Strings \cup Others

Snprintf(items, n, null) == [items |-> items, n |-> n, null |-> null]
MCCalls ==
  {Snprintf(<<i>>, n, FALSE) : i \in AllItems, n \in {1, 3, 12}}
  \cup {Snprintf(<<i, j>>, 12, FALSE) : i \in Plain, j \in Plain \cup Others}
  \cup {Snprintf(<<j>> \o <<i>>, 8, FALSE) : i \in Plain, j \in {x \in Others : x.text # <<"%">>}}
  \cup {Snprintf(<<Lit(<<"h">>)>>, n, x) : n \in {0, 4}, x \in BOOLEAN}
MCPlainCall == Snprintf(<< >>, 1, TRUE)

\* Ints of either sign, with and without a field.
DecimalCalls ==
  {Snprintf(<<Item("d", "int", v, " ", w, FALSE, -1, FALSE, FALSE, FALSE)>>, 12, FALSE) :
     v \in -16..15, w \in {-1, 5}}
  \cup {Snprintf(<<Item("d", "long", v, " ", -1, FALSE, -1, FALSE, FALSE, TRUE)>>, 12, FALSE) :
     v \in -128..127}
-----------------------------------------------------------------------------
Memory(s) == [p \in 0..Len(s)-1 |-> s[p + 1]]
Numbered == Memory([k \in 1..20 |-> k])

Op(f, dst, src, n, c, m) == [f |-> f, dst |-> dst, src |-> src, n |-> n, c |-> c, mem |-> m]

\* Blocks of up to nine bytes at every distance, on words and off them.
Blocks == {Op("memmove", d, s, n, 0, Numbered) : d \in 0..10, s \in 0..10, n \in {0, 1, 4, 5, 8, 9}}
     \cup {Op("memset", d, 0, n, c, Numbered) : d \in 0..5, n \in {0, 3, 4, 8}, c \in {7, 263, -1}}

\* Two strings over two letters, each with room behind it for more.
Letters == {1, 2}
StringsUpTo(n) == UNION {[1..k -> Letters] : k \in 0..n}
Roomy(s) == s \o <<0, 9, 9, 9, 9, 9, 9>>
TwoStrings(f, n, c, s, t) ==
  Op(f, Len(Roomy(s)), 0, n, c, Memory(Roomy(s) \o Roomy(t) \o <<0>>))
StringCalls ==
  {TwoStrings(f, n, 2, s, t) :
     f \in {"strncpy", "strlcpy", "strncmp", "memcmp"}, n \in 0..3,
     s \in StringsUpTo(3), t \in StringsUpTo(2)}
  \cup {TwoStrings("memfind", n, c, s, << >>) :
     n \in 0..3, c \in {2, 258, -254}, s \in StringsUpTo(3)}
  \cup {TwoStrings(f, 0, 2, s, t) :
     f \in {"strlen", "strcpy", "strcat", "strcmp", "strchr", "strfind", "strstr"},
     s \in StringsUpTo(4), t \in StringsUpTo(3)}

\* Numbers as text: spaces, a sign, a prefix, digits, and a letter that ends them.
Code(d) == IF d < 10 THEN 48 + d ELSE 97 + d - 10
NumeralText(v, base) ==
  LET n == CHOOSE k \in 1..10 : base^k > v /\ (k > 1 => base^(k-1) <= v)
  IN [k \in 1..n |-> Code((v \div base^(n - k)) % base)]
StrtolOp(ws, sign, prefix, base, asked, v, rest) ==
  LET text == ws \o sign \o prefix \o NumeralText(v, base)
  IN [f |-> "strtol", src |-> 0, dst |-> 0, n |-> 0, c |-> 0, base |-> asked,
      mem |-> Memory(text \o rest \o <<0, 0>>),
      value |-> IF sign = <<45>> THEN -v ELSE v, end |-> Len(text)]
StrtolCalls ==
  {StrtolOp(ws, sg, << >>, base, base, v, r) :
     ws \in {<< >>, <<32, 9>>}, sg \in {<< >>, <<43>>, <<45>>}, base \in {8, 10, 16},
     v \in {0, 7, 8, 35, 255, 4000}, r \in {<< >>, <<45>>, <<103>>}}
  \cup {StrtolOp(<< >>, sg, pb[1], pb[2], pb[3], v, << >>) :
     sg \in {<< >>, <<45>>}, v \in {1, 10, 255},
     pb \in {<<<<48, 120>>, 16, 16>>, <<<<48, 120>>, 16, 0>>, <<<<48>>, 8, 0>>, << << >>, 10, 0>>}}
MCStrCalls == Blocks \cup StringCalls \cup StrtolCalls
MCPlainOp == TwoStrings("strlen", 0, 2, << >>, << >>)
-----------------------------------------------------------------------------
MinGroups(v, signed) ==
  CHOOSE n \in 1..3 :
    LET w == IF signed THEN 3 * n - 1 ELSE 3 * n
    IN /\ (v < 2^w /\ v >= -(2^w))
       /\ \A m \in 1..n-1 : LET x == IF signed THEN 3 * m - 1 ELSE 3 * m IN ~(v < 2^x /\ v >= -(2^x))
Leb(kind, v, pad) == 
  [kind |-> kind, int |-> v, word |-> {}, bytes |-> << >>, n |-> MinGroups(v, kind = "sleb") + pad]
Fixed(kind, n, w) == [kind |-> kind, int |-> 0, word |-> w, bytes |-> << >>, n |-> n]
Blob(kind, bytes) == [kind |-> kind, int |-> 0, word |-> {}, bytes |-> bytes, n |-> 0]

Lebs == {Leb("sleb", v, pad) : v \in {-128, -127, -65, -64, -33, -32, -5, -4, -1, 0, 3, 4, 31, 32, 127}, pad \in 0..1}
   \cup {Leb("uleb", v, pad) : v \in {0, 1, 7, 8, 63, 64, 127}, pad \in 0..2}
Fixeds == {Fixed(k, n, w) : k \in {"lsb", "msb"}, n \in {1, 2, 4, 8},
                            w \in {{}, {0}, {1, 3}, 0..3}}
     \cup {Fixed(k, n, {0, 4 * n - 1, 2 * n}) : k \in {"lsb", "msb"}, n \in {1, 2, 4, 8}}
Blobs == {Blob("string", s) : s \in {<< >>, <<{1}, {0}>>}}
    \cup {Blob("block", <<{}, {2}>>)}
Second == {Leb("sleb", -5, 0), Leb("uleb", 64, 0), Fixed("lsb", 2, {0, 5}), Fixed("lsb", 3, {1})}
MCStreams == {<< >>} \cup {<<f, g>> : f \in Lebs \cup Fixeds \cup Blobs, g \in Second \cup Blobs}
               \cup {<<f, g, h>> : f \in Blobs, g \in Second, h \in Second}
=============================================================================
