----------------------------- MODULE DwarfRead -----------------------------
(***************************************************************************)
(* The readers at the head of kern/libdwarf_rw.c: fixed-size integers of   *)
(* either byte order, LEB128 numbers, strings and blocks, each of which    *)
(* moves the caller's offset past what it read.  A section is read field   *)
(* by field, as the callers in libdwarf_frame.c and libdwarf_lineno.c do.  *)
(*                                                                         *)
(* A byte or a word is the set of the positions of its one bits.  The      *)
(* widths are constants: GROUP payload bits and one continuation bit to a  *)
(* byte, INT bits to an int and LLONG to a 64-bit integer.                 *)
(***************************************************************************)
EXTENDS Integers, SequencesExt

CONSTANTS GROUP, INT, LLONG,
          Streams               \* the sequences of fields that are read

ASSUME WidthAssumption ==
  /\ GROUP \in Nat \ {0} /\ INT \in Nat \ {0}
  /\ GROUP < INT /\ INT < LLONG /\ LLONG = 8 * (GROUP + 1)

VARIABLES fields,       \* what the assembler wrote
          data,         \* the section, a sequence of bytes
          offset,       \* *offsetp
          got,          \* the values returned so far
          byte, shift, ret      \* locals of a LEB128 reader; shift = -1 outside one

readVars == <<fields, data, offset, got, byte, shift, ret>>

ByteBits == GROUP + 1
-----------------------------------------------------------------------------
(***************************************************************************)
(* The assembler (external): the bytes of a field.                         *)
(***************************************************************************)
\* Bit p of an integer, in two's complement.
Bit(v, p) == IF p < INT THEN (v \div 2^p) % 2 = 1 ELSE v < 0

Groups(v, n) ==
  [i \in 1..n |-> {j \in 0..GROUP-1 : Bit(v, GROUP * (i - 1) + j)}
                  \cup (IF i < n THEN {GROUP} ELSE {})]

\* Byte i of a word, from the least significant.
ByteOf(w, i) == {j \in 0..ByteBits-1 : ByteBits * i + j \in w}

Encode(f) ==
  CASE f.kind \in {"sleb", "uleb"} -> Groups(f.int, f.n)
    [] f.kind = "lsb" -> [i \in 1..f.n |-> ByteOf(f.word, i - 1)]
    [] f.kind = "msb" -> [i \in 1..f.n |-> ByteOf(f.word, f.n - i)]
    [] f.kind = "string" -> Append(f.bytes, {})
    [] f.kind = "block" -> f.bytes

\* The first k fields.
EncodeAll(fs, k) == FlattenSeq([j \in 1..k |-> Encode(fs[j])])

\* The value of a field as the 64-bit integer, string or block that it is.
Value(f) ==
  CASE f.kind \in {"sleb", "uleb"} -> {p \in 0..LLONG-1 : Bit(f.int, p)}
    [] f.kind \in {"lsb", "msb"} -> f.word
    [] OTHER -> f.bytes

\* What it writes: the groups hold all of a number but its sign, the word fits its
\* bytes, and no byte of a string is the terminator.
Encodable(f) ==
  LET top == GROUP * f.n - (IF f.kind = "sleb" THEN 1 ELSE 0)
  IN /\ f.kind \in {"sleb", "uleb", "lsb", "msb", "string", "block"}
     /\ f.kind \in {"sleb", "uleb"} =>
          /\ f.int \in (IF f.kind = "sleb" THEN Int ELSE Nat) /\ f.n \in Nat \ {0}
          /\ \A p \in top..LLONG-1 : Bit(f.int, p) <=> f.int < 0
     /\ f.kind \in {"lsb", "msb"} => f.n \in Nat /\ f.word \subseteq 0..ByteBits*f.n-1
     /\ f.kind \in {"string", "block"} => f.bytes \in Seq(SUBSET (0..ByteBits-1))
     /\ f.kind = "string" => \A k \in 1..Len(f.bytes) : f.bytes[k] # {}

StreamLegal(fs) == Len(fs) \in Nat /\ \A k \in 1..Len(fs) : Encodable(fs[k])

ASSUME StreamsAssumption == \A fs \in Streams : StreamLegal(fs)
-----------------------------------------------------------------------------
\* A section with the fields fs is about to be read.
ReadInit(fs) ==
  /\ fields = fs
  /\ data = EncodeAll(fields, Len(fields))
  /\ offset = 0 /\ got = << >>
  /\ byte = {} /\ shift = -1 /\ ret = {}

\* The caller knows from the format what the next field is.
Expects(kinds) ==
  /\ shift = -1 /\ Len(got) < Len(fields)
  /\ fields[Len(got) + 1].kind \in kinds

Field == fields[Len(got) + 1]
Src(i) == data[offset + i + 1]

Yields(v, off) == got' = Append(got, v) /\ offset' = off

\* Byte i of an integer, at its place in the word.
Place(i, n) == {ByteBits * i + j : j \in Src(IF Field.kind = "msb" THEN n - 1 - i ELSE i)}

\* _dwarf_read_lsb, _dwarf_decode_lsb, _dwarf_read_msb, _dwarf_decode_msb: a size
\* they do not know returns 0 and leaves the offset where it is.
ReadFixed ==
  LET n == Field.n
  IN /\ Expects({"lsb", "msb"})
     /\ IF n \in {1, 2, 4, 8}
        THEN Yields(UNION {Place(i, n) : i \in 0..n-1}, offset + n)
        ELSE Yields({}, offset)
     /\ UNCHANGED <<fields, data, byte, shift, ret>>

\* An int, shifted left as the processor does it, and widened to 64 bits.
Widen(w) == IF INT - 1 \in w THEN w \cup INT..LLONG-1 ELSE w
Shl(w, n) == Widen({p \in {j + (n % INT) : j \in w} : p < INT})

LebCall ==
  /\ Expects({"sleb", "uleb"})
  /\ shift' = 0 /\ ret' = {}
  /\ UNCHANGED <<fields, data, offset, got, byte>>

\* One round of the loop of the LEB128 readers.
LebByte ==
  /\ shift >= 0 /\ (shift > 0 => GROUP \in byte)
  /\ byte' = Src(0)
  /\ ret' = ret \cup Shl(Src(0) \ {GROUP}, shift)
  /\ offset' = offset + 1
  /\ shift' = shift + GROUP
  /\ UNCHANGED <<fields, data, got>>

\* Seeded fault: the sign is not extended.
SignBitsNone == {}

\* The rest of a negative signed number: -1 << shift.
SignBits ==
  IF Field.kind = "sleb" /\ shift < INT /\ GROUP - 1 \in byte
  THEN Shl(0..INT-1, shift) ELSE {}

LebReturn ==
  /\ shift > 0 /\ GROUP \notin byte
  /\ Yields(ret \cup SignBits, offset)
  /\ shift' = -1
  /\ UNCHANGED <<fields, data, byte, ret>>

\* _dwarf_read_string, for a section whose size is that of data.
ReadString ==
  LET size == Len(data)
      stop == Min({i \in offset..size : i < size => data[i + 1] = {}})
  IN /\ Expects({"string"})
     /\ Yields(SubSeq(data, offset + 1, stop), IF stop < size THEN stop + 1 ELSE stop)
     /\ UNCHANGED <<fields, data, byte, shift, ret>>

\* _dwarf_read_block, for a length that the caller read before.
ReadBlock ==
  /\ Expects({"block"})
  /\ Yields(SubSeq(data, offset + 1, offset + Len(Field.bytes)), offset + Len(Field.bytes))
  /\ UNCHANGED <<fields, data, byte, shift, ret>>

ReadNext == ReadFixed \/ LebCall \/ LebByte \/ LebReturn \/ ReadString \/ ReadBlock
-----------------------------------------------------------------------------
\* Fields that the readers cover: integers of their sizes, and numbers that are
\* an int, in no more groups than an int has unless only zeros follow.
Covered(f) ==
  /\ f.kind \in {"lsb", "msb"} => f.n \in {1, 2, 4, 8}
  /\ f.kind \in {"sleb", "uleb"} =>
       /\ f.int \in (IF f.kind = "sleb" THEN -(2^(INT-1)) ELSE 0)..2^(INT-1)-1
       /\ f.int < 0 => GROUP * (f.n - 1) < INT

\* Each reader returns the value that the assembler wrote and leaves the offset
\* at the next field, so that a section is read back field by field: also
\* negative and padded LEB128 numbers, whose groups are put together in an int.
FieldsReadBack ==
  shift = -1 /\ (\A k \in 1..Len(got) : Covered(fields[k])) =>
    /\ offset = Len(EncodeAll(fields, Len(got)))
    /\ \A k \in 1..Len(got) : got[k] = Value(fields[k])
=============================================================================
