-------------------------- MODULE BacktraceProofs --------------------------
(***************************************************************************)
(* Theorems about the backtrace and the debug information that it asks,    *)
(* for every kernel: any stack, frames of any size, any line program, and  *)
(* every .debug_info section that a compiler could have written.           *)
(***************************************************************************)
EXTENDS Backtrace, NatInduct, FiniteSetTheorems, SequenceTheorems

(* The rows of a line program. *)

SumTo(by, from, value, n, g) ==
  g = [j \in from..n |-> IF j = from THEN value ELSE g[j - 1] + by[j]]

\* A sum over a range is well defined.
LEMMA SumExists ==
  ASSUME NEW by, NEW from \in Nat, NEW value, NEW len \in Nat
  PROVE  \E g : SumTo(by, from, value, from + len, g)
<1> DEFINE D == {m \in Nat : \E g : SumTo(by, from, value, from + m, g)}
<1>1. 0 \in D
  <2> DEFINE g == [j \in from..from+0 |-> value]
  <2>1. SumTo(by, from, value, from + 0, g)
    BY DEF SumTo
  <2> QED
    BY <2>1
<1>2. ASSUME NEW m \in D PROVE m + 1 \in D
  <2>1. PICK g : SumTo(by, from, value, from + m, g)
    OBVIOUS
  <2>2. PICK n : n = from + m + 1
    OBVIOUS
  <2> DEFINE h == [j \in from..n |-> IF j < n THEN g[j] ELSE g[n - 1] + by[n]]
  <2>3. m \in Nat /\ n \in Nat /\ n - 1 \in Nat /\ from <= n - 1 /\ n - 1 = from + m
    BY <2>2
  <2>4. \A j \in from..n-1 : g[j] = IF j = from THEN value ELSE g[j - 1] + by[j]
    BY <2>1, <2>3 DEF SumTo
  <2>5. ASSUME NEW j \in from..n
        PROVE  h[j] = IF j = from THEN value ELSE h[j - 1] + by[j]
    <3>1. CASE j = n
      <4>1. j # from /\ j - 1 \in from..n /\ j - 1 < n
        BY <2>3, <3>1
      <4> QED
        BY <2>3, <3>1, <4>1
    <3>2. CASE j # n /\ j # from
      <4>1. j \in from..n-1 /\ j - 1 \in from..n /\ j - 1 < n /\ j < n
        BY <2>3, <3>2
      <4> QED
        BY <2>4, <3>2, <4>1
    <3>3. CASE j = from
      BY <2>3, <2>4, <3>3
    <3> QED
      BY <3>1, <3>2, <3>3
  <2>6. h = [j \in from..n |-> h[j]]
    OBVIOUS
  <2> HIDE DEF h
  <2>7. SumTo(by, from, value, n, h)
    BY <2>5, <2>6 DEF SumTo
  <2>8. n = from + (m + 1)
    BY <2>2, <2>3
  <2> QED
    BY <2>3, <2>7, <2>8
<1>3. D \in SUBSET Nat
  OBVIOUS
<1> HIDE DEF D
<1>4. D = Nat
  BY <1>1, <1>2, <1>3, AllNat
<1> QED
  BY <1>4 DEF D

LEMMA TotalIs ==
  ASSUME NEW by, Len(by) \in Nat, NEW from \in 0..Len(by), NEW value
  PROVE  /\ Total(by, from, value, from) = value
         /\ \A k \in from..Len(by)-1 :
              Total(by, from, value, k + 1) = Total(by, from, value, k) + by[k + 1]
<1> PICK n \in Nat : n = Len(by)
  OBVIOUS
<1> DEFINE sum == CHOOSE g : SumTo(by, from, value, n, g)
<1>1. SumTo(by, from, value, n, sum)
  <2>1. n - from \in Nat /\ from + (n - from) = n /\ from \in Nat
    OBVIOUS
  <2>2. \E g : SumTo(by, from, value, from + (n - from), g)
    BY <2>1, SumExists
  <2> QED
    BY <2>1, <2>2
<1>2. \A k : Total(by, from, value, k) = sum[k]
  BY DEF Total, SumTo
<1> HIDE DEF sum
<1>3. \A j \in from..n : sum[j] = IF j = from THEN value ELSE sum[j - 1] + by[j]
  BY <1>1 DEF SumTo
<1>4. \A k \in from..n-1 : k + 1 \in from..n /\ k + 1 # from /\ k + 1 - 1 = k
  OBVIOUS
<1> QED
  BY <1>2, <1>3, <1>4

\* The last of the instructions, one more of them.
LEMMA LastWithIs ==
  ASSUME NEW f, NEW n \in Nat, NEW ops
  PROVE  /\ LastWith(f, n, ops) \in 0..n
         /\ LastWith(f, n, ops) > 0 => f[LastWith(f, n, ops)].op \in ops
         /\ \A k \in 1..n : f[k].op \in ops => k <= LastWith(f, n, ops)
<1> DEFINE S == {j \in 1..n : f[j].op \in ops}
<1>1. CASE S = {}
  BY <1>1 DEF LastWith
<1>2. CASE S # {}
  <2>1. \E x \in S : \A y \in S : x >= y
    <3> DEFINE T == {n - y : y \in S}
    <3>1. T \in SUBSET Nat /\ T # {}
      BY <1>2
    <3>2. PICK t \in T : \A u \in T : t <= u
      BY <3>1, LeastNat
    <3>3. PICK x \in S : t = n - x
      BY <3>2
    <3>4. ASSUME NEW y \in S PROVE x >= y
      <4>1. n - y \in T
        BY <3>4
      <4> QED
        BY <3>2, <3>3, <4>1
    <3> QED
      BY <3>4
  <2>2. Max(S) \in S /\ \A y \in S : Max(S) >= y
    BY <2>1 DEF Max
  <2>3. LastWith(f, n, ops) = Max(S)
    BY <1>2 DEF LastWith
  <2> HIDE DEF LastWith
  <2> QED
    BY <2>2, <2>3
<1> QED
  BY <1>1, <1>2

LEMMA LastWithStep ==
  ASSUME NEW f, NEW n \in Nat, NEW ops
  PROVE  LastWith(f, n + 1, ops) = IF f[n + 1].op \in ops THEN n + 1 ELSE LastWith(f, n, ops)
<1>1. CASE f[n + 1].op \in ops
  <2>1. PICK m : m = LastWith(f, n + 1, ops)
    OBVIOUS
  <2>2. m \in 0..n+1 /\ n + 1 \in 1..n+1 /\ n + 1 \in Nat
    BY <2>1, LastWithIs
  <2>3. n + 1 <= m
    BY <1>1, <2>1, <2>2, LastWithIs
  <2> QED
    BY <1>1, <2>1, <2>2, <2>3
<1>2. CASE f[n + 1].op \notin ops
  <2>1. {j \in 1..n+1 : f[j].op \in ops} = {j \in 1..n : f[j].op \in ops}
    BY <1>2
  <2> QED
    BY <1>2, <2>1 DEF LastWith
<1> QED
  BY <1>1, <1>2

LEMMA LastWithNone == ASSUME NEW f, NEW ops PROVE LastWith(f, 0, ops) = 0
<1>1. LastWith(f, 0, ops) \in 0..0
  BY LastWithIs
<1> QED
  BY <1>1

AddressSteps(f) == [j \in 1..Len(f) |-> AddressBy(f[j])]
LineSteps(f) == [j \in 1..Len(f) |-> LineBy(f[j])]

\* What the address adds up to, one instruction more.
LEMMA AddressStep ==
  ASSUME NEW f \in Seq(Instructions), NEW n \in 0..Len(f)-1
  PROVE  AddressAt(f, n + 1) = IF f[n + 1].op = "end_sequence" THEN 0
                               ELSE IF f[n + 1].op = "set_address" THEN f[n + 1].val
                               ELSE AddressAt(f, n) + AddressBy(f[n + 1])
<1> DEFINE ops == {"end_sequence", "set_address"}
           value(from) == IF from > 0 /\ f[from].op = "set_address" THEN f[from].val ELSE 0
<1> PICK by : by = AddressSteps(f)
  OBVIOUS
<1>1. n \in Nat /\ n + 1 \in 1..Len(f) /\ Len(f) \in Nat /\ n + 1 \in Nat
  OBVIOUS
<1>2. Len(by) = Len(f) /\ \A j \in 1..Len(f) : by[j] = AddressBy(f[j])
  BY <1>1 DEF AddressSteps
<1>3. PICK a, b : a = LastWith(f, n, ops) /\ b = LastWith(f, n + 1, ops)
  OBVIOUS
<1>4. a \in 0..n /\ b \in 0..n+1 /\ b = IF f[n + 1].op \in ops THEN n + 1 ELSE a
  BY <1>1, <1>3, LastWithIs, LastWithStep
<1>5. /\ AddressAt(f, n) = Total(by, a, value(a), n)
      /\ AddressAt(f, n + 1) = Total(by, b, value(b), n + 1)
  BY <1>3 DEF AddressAt, AddressSteps
<1> HIDE DEF value
<1>6. CASE f[n + 1].op \in ops
  <2>1. b = n + 1 /\ n + 1 \in 0..Len(by)
    BY <1>1, <1>2, <1>4, <1>6
  <2>2. Total(by, n + 1, value(n + 1), n + 1) = value(n + 1)
    BY <1>1, <1>2, <2>1, TotalIs
  <2>3. value(n + 1) = IF f[n + 1].op = "set_address" THEN f[n + 1].val ELSE 0
    BY <1>1 DEF value
  <2> QED
    BY <1>5, <1>6, <2>1, <2>2, <2>3
<1>7. CASE f[n + 1].op \notin ops
  <2>1. b = a /\ a \in 0..Len(by) /\ n \in a..Len(by)-1
    BY <1>1, <1>2, <1>4, <1>7
  <2>2. Total(by, a, value(a), n + 1) = Total(by, a, value(a), n) + by[n + 1]
    BY <1>1, <1>2, <2>1, TotalIs
  <2> QED
    BY <1>1, <1>2, <1>5, <1>7, <2>1, <2>2
<1> QED
  BY <1>6, <1>7

LEMMA LineStep ==
  ASSUME NEW f \in Seq(Instructions), NEW n \in 0..Len(f)-1
  PROVE  LineAt(f, n + 1) = IF f[n + 1].op = "end_sequence" THEN 1
                            ELSE LineAt(f, n) + LineBy(f[n + 1])
<1> DEFINE ops == {"end_sequence"}
<1> PICK by : by = LineSteps(f)
  OBVIOUS
<1>1. n \in Nat /\ n + 1 \in 1..Len(f) /\ Len(f) \in Nat /\ n + 1 \in Nat
  OBVIOUS
<1>2. Len(by) = Len(f) /\ \A j \in 1..Len(f) : by[j] = LineBy(f[j])
  BY <1>1 DEF LineSteps
<1>3. PICK a, b : a = LastWith(f, n, ops) /\ b = LastWith(f, n + 1, ops)
  OBVIOUS
<1>4. a \in 0..n /\ b \in 0..n+1 /\ b = IF f[n + 1].op \in ops THEN n + 1 ELSE a
  BY <1>1, <1>3, LastWithIs, LastWithStep
<1>5. LineAt(f, n) = Total(by, a, 1, n) /\ LineAt(f, n + 1) = Total(by, b, 1, n + 1)
  BY <1>3 DEF LineAt, LineSteps
<1>6. CASE f[n + 1].op \in ops
  <2>1. b = n + 1 /\ n + 1 \in 0..Len(by)
    BY <1>1, <1>2, <1>4, <1>6
  <2>2. Total(by, n + 1, 1, n + 1) = 1
    BY <1>1, <1>2, <2>1, TotalIs
  <2> QED
    BY <1>5, <1>6, <2>1, <2>2
<1>7. CASE f[n + 1].op \notin ops
  <2>1. b = a /\ a \in 0..Len(by) /\ n \in a..Len(by)-1
    BY <1>1, <1>2, <1>4, <1>7
  <2>2. Total(by, a, 1, n + 1) = Total(by, a, 1, n) + by[n + 1]
    BY <1>1, <1>2, <2>1, TotalIs
  <2> QED
    BY <1>1, <1>2, <1>5, <1>7, <2>1, <2>2
<1> QED
  BY <1>6, <1>7

LEMMA AddressStart == ASSUME NEW f \in Seq(Instructions) PROVE AddressAt(f, 0) = 0 /\ LineAt(f, 0) = 1
<1>1. Len(f) \in Nat /\ 0 \in 0..Len(f)
  OBVIOUS
<1>2. PICK by, bl : by = AddressSteps(f) /\ bl = LineSteps(f)
  OBVIOUS
<1>3. Len(by) = Len(f) /\ Len(bl) = Len(f)
  BY <1>1, <1>2 DEF AddressSteps, LineSteps
<1>4. Total(by, 0, 0, 0) = 0 /\ Total(bl, 0, 1, 0) = 1
  BY <1>1, <1>3, TotalIs
<1>5. /\ LastWith(f, 0, {"end_sequence", "set_address"}) = 0
      /\ LastWith(f, 0, {"end_sequence"}) = 0
  BY LastWithNone
<1>6. AddressAt(f, 0) = Total(by, 0, 0, 0)
  BY <1>2, <1>5 DEF AddressAt, AddressSteps
<1>7. LineAt(f, 0) = Total(bl, 0, 1, 0)
  BY <1>2, <1>5 DEF LineAt, LineSteps
<1> QED
  BY <1>4, <1>6, <1>7

\* One instruction adds an integer to both.
LEMMA StepsAreInt == \A i \in Instructions : AddressBy(i) \in Int /\ LineBy(i) \in Int
<1>1. MinLen \in Nat /\ LBase \in Int /\ LRange \in Nat /\ LRange > 0 /\ OpBase \in Nat
  BY LineAssumption
<1>2. ASSUME NEW x \in Int
      PROVE  /\ x * MinLen \in Int
             /\ ((x - OpBase) \div LRange) * MinLen \in Int
             /\ LBase + ((x - OpBase) % LRange) \in Int
  <2>1. PICK q, r : q = (x - OpBase) \div LRange /\ r = (x - OpBase) % LRange
    OBVIOUS
  <2>2. q \in Int /\ r \in Int
    BY <1>1, <2>1
  <2> QED
    BY <1>1, <2>1, <2>2
<1>3. ASSUME NEW i \in Instructions PROVE AddressBy(i) \in Int /\ LineBy(i) \in Int
  <2>1. i.val \in Int /\ 255 \in Int
    BY DEF Instructions
  <2>2. /\ i.val * MinLen \in Int /\ ((i.val - OpBase) \div LRange) * MinLen \in Int
        /\ ((255 - OpBase) \div LRange) * MinLen \in Int
        /\ LBase + ((i.val - OpBase) % LRange) \in Int
    BY <1>2, <2>1
  <2> PICK x1, x2, x3, x4, v : /\ x1 = i.val * MinLen
                            /\ x2 = ((i.val - OpBase) \div LRange) * MinLen
                            /\ x3 = ((255 - OpBase) \div LRange) * MinLen
                            /\ x4 = LBase + ((i.val - OpBase) % LRange)
                            /\ v = i.val
    OBVIOUS
  <2>3. /\ AddressBy(i) = CASE i.op = "advance_pc" -> x1
                            [] i.op = "const_add_pc" -> x3
                            [] i.op = "fixed_advance_pc" -> v
                            [] i.op = "special" -> x2
                            [] OTHER -> 0
        /\ LineBy(i) = CASE i.op = "advance_line" -> v
                         [] i.op = "special" -> x4
                         [] OTHER -> 0
    BY DEF AddressBy, LineBy
  <2>4. x1 \in Int /\ x2 \in Int /\ x3 \in Int /\ x4 \in Int /\ v \in Int
    BY <2>1, <2>2
  <2> QED
    BY <2>3, <2>4
<1> QED
  BY <1>3

LEMMA AddressIsInt ==
  ASSUME NEW f \in Seq(Instructions)
  PROVE  \A n \in 0..Len(f) : AddressAt(f, n) \in Int /\ LineAt(f, n) \in Int
<1> DEFINE D == {n \in Nat : n <= Len(f) => AddressAt(f, n) \in Int /\ LineAt(f, n) \in Int}
<1>0. Len(f) \in Nat
  OBVIOUS
<1>1. 0 \in D
  BY AddressStart
<1>2. ASSUME NEW n \in D PROVE n + 1 \in D
  <2>1. SUFFICES ASSUME n + 1 <= Len(f)
                 PROVE  AddressAt(f, n + 1) \in Int /\ LineAt(f, n + 1) \in Int
    OBVIOUS
  <2>2. n \in 0..Len(f)-1 /\ n + 1 \in 1..Len(f)
    BY <1>0, <2>1
  <2>3. f[n + 1] \in Instructions
    BY <2>2
  <2>4. f[n + 1].val \in Int
    BY <2>3 DEF Instructions
  <2>5. AddressBy(f[n + 1]) \in Int /\ LineBy(f[n + 1]) \in Int
    BY <2>3, StepsAreInt
  <2>6. AddressAt(f, n) \in Int /\ LineAt(f, n) \in Int
    BY <2>2
  <2>7. AddressAt(f, n + 1) \in Int
    <3>1. PICK i : i = f[n + 1]
      OBVIOUS
    <3>2. AddressAt(f, n + 1) = IF i.op = "end_sequence" THEN 0
                                ELSE IF i.op = "set_address" THEN i.val
                                ELSE AddressAt(f, n) + AddressBy(i)
      BY <2>2, <3>1, AddressStep
    <3>3. i.val \in Int /\ AddressBy(i) \in Int
      BY <2>4, <2>5, <3>1
    <3> QED
      BY ONLY <2>6, <3>2, <3>3
  <2>8. LineAt(f, n + 1) \in Int
    <3>1. PICK i : i = f[n + 1]
      OBVIOUS
    <3>2. LineAt(f, n + 1) = IF i.op = "end_sequence" THEN 1 ELSE LineAt(f, n) + LineBy(i)
      BY <2>2, <3>1, LineStep
    <3>3. LineBy(i) \in Int
      BY <2>5, <3>1
    <3> QED
      BY ONLY <2>6, <3>2, <3>3
  <2> QED
    BY <2>7, <2>8
<1>3. D \in SUBSET Nat
  OBVIOUS
<1> HIDE DEF D
<1>4. D = Nat
  BY <1>1, <1>2, <1>3, AllNat
<1> QED
  BY <1>0, <1>4 DEF D

(* The line machine: where the program stands, the registers are what the *)
(* instructions executed add up to.                                        *)

Registers == [address : Int, file : Int, line : Int, column : Int, is_stmt : BOOLEAN,
              basic_block : BOOLEAN]

\* The line of the last row of the first n instructions, 0 if they have none.
LastLine(f, n) == IF LastWith(f, n, RowOps) = 0 THEN 0 ELSE LineAt(f, LastWith(f, n, RowOps))

LineType ==
  /\ prog \in Seq(Instructions) /\ pc \in Int /\ header \in {"good", "short", "missing"}
  /\ ln_at \in {"call", "run", "OK", "ERROR", "NO_ENTRY"}
  /\ ip \in 1..Len(prog)+1
  /\ regs \in Registers /\ row \in Registers /\ linebuf \in Registers

\* The registers, the row kept, and that no row so far was beyond the pc.
Running(n) ==
  /\ regs.address = AddressAt(prog, n) /\ regs.line = LineAt(prog, n)
  /\ row.line = LastLine(prog, n)
  /\ \A k \in Rows : k <= n => AddressAt(prog, k) <= pc

LineInv ==
  /\ LineType
  /\ ln_at \in {"call", "run", "ERROR", "NO_ENTRY"} => linebuf = NoRow
  /\ ln_at \in {"call", "run"} => Running(ip - 1)
  /\ ln_at \in {"run", "OK"} => header = "good"
  /\ ln_at \in {"ERROR", "NO_ENTRY"} => header # "good"
  /\ ln_at = "OK" => (Sorted => linebuf.line = LineOf(pc))

\* The line of an address that lies before the rows behind the n-th instruction.
LEMMA LineOfIs ==
  ASSUME NEW n \in Nat, n <= Len(prog), LineType, NEW x \in Int,
         \A k \in Rows : k <= n => AddressAt(prog, k) <= x,
         \A k \in Rows : k > n => AddressAt(prog, k) > x
  PROVE  LineOf(x) = LastLine(prog, n)
<1> DEFINE upto == {k \in Rows : AddressAt(prog, k) <= x}
           first == {j \in 1..n : prog[j].op \in RowOps}
<1>0. Len(prog) \in Nat
  BY DEF LineType
<1>1. \A k \in Rows : k \in 1..Len(prog) /\ AddressAt(prog, k) \in Int
  BY AddressIsInt DEF Rows, LineType
<1>2. upto = first
  <2>1. ASSUME NEW k \in upto PROVE k \in first
    BY <1>0, <1>1, <2>1 DEF Rows
  <2>2. ASSUME NEW k \in first PROVE k \in upto
    <3>1. k \in Rows /\ k <= n
      BY <1>0, <2>2 DEF Rows
    <3> QED
      BY <3>1
  <2> QED
    BY <2>1, <2>2
<1>3. LastWith(prog, n, RowOps) = IF upto = {} THEN 0 ELSE Max(upto)
  BY <1>2 DEF LastWith
<1>4. LineOf(x) = IF upto = {} THEN 0 ELSE LineAt(prog, Max(upto))
  BY DEF LineOf
<1>5. CASE upto = {}
  BY <1>3, <1>4, <1>5 DEF LastLine
<1>6. CASE upto # {}
  <2>1. LastWith(prog, n, RowOps) > 0
    <3>1. PICK k \in first : TRUE
      BY <1>2, <1>6
    <3>2. PICK m : m = LastWith(prog, n, RowOps)
      OBVIOUS
    <3>3. m \in 0..n /\ k <= m
      BY <3>2, LastWithIs
    <3> QED
      BY <3>2, <3>3
  <2>2. PICK m : m = LastWith(prog, n, RowOps)
    OBVIOUS
  <2>3. m = Max(upto) /\ m # 0
    BY <1>3, <1>6, <2>1, <2>2
  <2> HIDE DEF upto
  <2> QED
    BY <1>4, <1>6, <2>2, <2>3 DEF LastLine
<1> QED
  BY <1>5, <1>6

LEMMA NoRowIs == NoRow \in Registers /\ NoRow.line = 0 /\ ResetRegisters \in Registers
  /\ ResetRegisters.address = 0 /\ ResetRegisters.line = 1
<1>1. DefStmt \in BOOLEAN
  BY LineAssumption
<1> QED
  BY <1>1 DEF NoRow, ResetRegisters, Registers

\* Before the program.
LEMMA StartOfLines ==
  ASSUME LineType, regs = ResetRegisters, row = NoRow
  PROVE  Running(0)
<1>1. AddressAt(prog, 0) = 0 /\ LineAt(prog, 0) = 1
  BY AddressStart DEF LineType
<1>2. LastLine(prog, 0) = 0
  BY LastWithNone DEF LastLine
<1>3. \A k \in Rows : ~(k <= 0)
  BY DEF Rows, LineType
<1> QED
  BY <1>1, <1>2, <1>3, NoRowIs DEF Running

LEMMA LineInitInv ==
  ASSUME NEW p \in Seq(Instructions), NEW h \in {"good", "short", "missing"}, LineInit(p, h)
  PROVE  LineInv
<1>1. LineType
  <2>1. Len(prog) \in Nat
    BY DEF LineInit
  <2> QED
    BY <2>1, NoRowIs DEF LineInit, LineType
<1>2. Running(0)
  BY <1>1, StartOfLines DEF LineInit
<1> QED
  BY <1>1, <1>2 DEF LineInv, LineInit

\* What the next instruction makes of the registers it is to give.
Gives(r) ==
  /\ r \in Registers
  /\ r.address = AddressAt(prog, ip) /\ r.line = LineAt(prog, ip)

LEMMA NextAddress ==
  ASSUME LineInv, ln_at = "run", ip <= Len(prog)
  PROVE  /\ Op \in Opcodes /\ Val \in Int
         /\ AddressAt(prog, ip) = IF Op = "end_sequence" THEN 0
                                  ELSE IF Op = "set_address" THEN Val
                                  ELSE regs.address + AddressBy(prog[ip])
         /\ LineAt(prog, ip) = IF Op = "end_sequence" THEN 1
                               ELSE regs.line + LineBy(prog[ip])
<1>1. PICK n : n = ip - 1
  OBVIOUS
<1>2. prog \in Seq(Instructions) /\ ip \in 1..Len(prog) /\ Len(prog) \in Nat
  BY DEF LineInv, LineType
<1>3. n \in 0..Len(prog)-1 /\ ip = n + 1
  BY <1>1, <1>2
<1>4. prog[ip] \in Instructions
  BY <1>2
<1>5. regs.address = AddressAt(prog, n) /\ regs.line = LineAt(prog, n)
  BY <1>1 DEF LineInv, Running
<1> QED
  BY <1>2, <1>3, <1>4, <1>5, AddressStep, LineStep DEF Op, Val, Instructions

LEMMA LastLineStep ==
  ASSUME NEW f, NEW n \in Nat
  PROVE  LastLine(f, n + 1) = IF f[n + 1].op \in RowOps THEN LineAt(f, n + 1) ELSE LastLine(f, n)
<1>1. PICK m : m = LastWith(f, n, RowOps)
  OBVIOUS
<1>2. PICK k : k = LastWith(f, n + 1, RowOps)
  OBVIOUS
<1>3. k = IF f[n + 1].op \in RowOps THEN n + 1 ELSE m
  BY <1>1, <1>2, LastWithStep
<1>4. LastLine(f, n) = (IF m = 0 THEN 0 ELSE LineAt(f, m))
      /\ LastLine(f, n + 1) = (IF k = 0 THEN 0 ELSE LineAt(f, k))
  BY <1>1, <1>2 DEF LastLine
<1> QED
  BY <1>3, <1>4

\* The rows up to the next instruction.
LEMMA NextRows ==
  ASSUME LineInv, ln_at = "run", ip <= Len(prog)
  PROVE  /\ Op \notin RowOps => /\ LastLine(prog, ip) = row.line
                                /\ \A k \in Rows : k <= ip => AddressAt(prog, k) <= pc
         /\ Op \in RowOps => /\ LastLine(prog, ip) = LineAt(prog, ip) /\ ip \in Rows
                             /\ AddressAt(prog, ip) <= pc =>
                                  \A k \in Rows : k <= ip => AddressAt(prog, k) <= pc
<1>1. PICK n : n = ip - 1
  OBVIOUS
<1>2. prog \in Seq(Instructions) /\ ip \in 1..Len(prog) /\ Len(prog) \in Nat
  BY DEF LineInv, LineType
<1>3. n \in Nat /\ ip = n + 1
  BY <1>1, <1>2
<1>4. row.line = LastLine(prog, n) /\ \A k \in Rows : k <= n => AddressAt(prog, k) <= pc
  BY <1>1 DEF LineInv, Running
<1>5. LastLine(prog, ip) = IF Op \in RowOps THEN LineAt(prog, ip) ELSE LastLine(prog, n)
  BY <1>3, LastLineStep DEF Op
<1>6. \A k \in Rows : k \in 1..Len(prog) /\ (k <= ip => k <= n \/ k = ip)
  BY <1>2, <1>3 DEF Rows
<1>7. ip \in Rows <=> Op \in RowOps
  BY <1>2 DEF Rows, Op
<1> QED
  BY <1>4, <1>5, <1>6, <1>7

LEMMA SetInv ==
  ASSUME LineInv, ln_at = "run", ip <= Len(prog), Op \notin RowOps,
         NEW r, Gives(r), Set(r)
  PROVE  LineInv'
<1>1. /\ regs' = r /\ ip' = ip + 1 /\ prog' = prog /\ header' = header /\ pc' = pc
      /\ ln_at' = "run" /\ row' = row /\ linebuf' = linebuf
  BY DEF Set
<1>2. LineType'
  BY <1>1 DEF LineInv, LineType, Gives
<1>3. ip' - 1 = ip
  BY <1>1 DEF LineInv, LineType
<1>4. PICK n : n = ip
  OBVIOUS
<1>5. Running(n)'
  BY <1>1, <1>4, NextRows DEF Running, Gives, Rows
<1>6. Running(ip - 1)'
  BY <1>3, <1>4, <1>5
<1> QED
  BY <1>1, <1>2, <1>6 DEF LineInv

\* The program ends: no row beyond the n-th instruction is at or before the pc.
LEMMA ReturnInv ==
  ASSUME LineInv, ln_at = "run", Return("OK"), NEW n \in Nat, n = ip - 1,
         Sorted => \A k \in Rows : k > n => AddressAt(prog, k) > pc
  PROVE  LineInv'
<1>1. /\ ln_at' = "OK" /\ linebuf' = row
      /\ regs' = regs /\ ip' = ip /\ prog' = prog /\ header' = header /\ pc' = pc /\ row' = row
  BY DEF Return
<1>2. LineType'
  BY <1>1 DEF LineInv, LineType
<1>3. row.line = LastLine(prog, n) /\ \A k \in Rows : k <= n => AddressAt(prog, k) <= pc
  BY DEF LineInv, Running
<1>4. n <= Len(prog) /\ Len(prog) \in Nat /\ pc \in Int /\ LineType
  BY DEF LineInv, LineType
<1>5. Sorted => LineOf(pc) = row.line
  BY <1>3, <1>4, LineOfIs
<1>7. ln_at' = "OK" /\ header' = "good"
  BY <1>1 DEF LineInv
<1>8. Sorted' => linebuf'.line = LineOf(pc)'
  BY <1>1, <1>5 DEF Sorted, LineOf, Rows
<1> QED
  BY <1>2, <1>7, <1>8 DEF LineInv

LEMMA ProgramEndInv == ASSUME LineInv, ProgramEnd PROVE LineInv'
<1>1. ln_at = "run" /\ ip > Len(prog) /\ Return("OK")
  BY DEF ProgramEnd
<1>2. ip - 1 \in Nat /\ ip - 1 = Len(prog)
  BY <1>1 DEF LineInv, LineType
<1>3. \A k \in Rows : k <= ip - 1
  BY <1>2 DEF Rows
<1>4. \A k \in Rows : ~(k > ip - 1)
  BY <1>2, <1>3 DEF Rows
<1> QED
  BY <1>1, <1>2, <1>4, ReturnInv

LEMMA AppendRowInv ==
  ASSUME LineInv, ln_at = "run", ip <= Len(prog), Op \in RowOps,
         NEW r, Gives(r), AppendRow(r)
  PROVE  LineInv'
<1>0. /\ prog \in Seq(Instructions) /\ Len(prog) \in Nat /\ ip \in 1..Len(prog) /\ pc \in Int
      /\ r.address \in Int /\ r.address = AddressAt(prog, ip)
  BY DEF LineInv, LineType, Gives, Registers
<1>1. CASE pc < r.address
  <2>1. Return("OK")
    BY <1>1 DEF AppendRow
  <2>2. ip - 1 \in Nat /\ ip \in Rows
    BY <1>0, NextRows
  <2>3. ASSUME Sorted, NEW k \in Rows, k > ip - 1 PROVE AddressAt(prog, k) > pc
    <3>1. k \in 1..Len(prog)
      BY DEF Rows
    <3>2. AddressAt(prog, k) \in Int
      BY <1>0, <3>1, AddressIsInt
    <3>3. k = ip \/ ip < k
      BY <1>0, <2>3, <3>1
    <3>4. AddressAt(prog, ip) <= AddressAt(prog, k)
      BY <1>0, <2>2, <2>3, <3>2, <3>3 DEF Sorted
    <3> QED
      BY <1>0, <1>1, <3>2, <3>4
  <2> QED
    BY <2>1, <2>2, <2>3, ReturnInv
<1>2. CASE ~(pc < r.address)
  <2>1. /\ regs' = [r EXCEPT !.basic_block = FALSE] /\ ip' = ip + 1 /\ prog' = prog
        /\ header' = header /\ pc' = pc /\ ln_at' = "run" /\ row' = r /\ linebuf' = linebuf
    BY <1>2 DEF AppendRow
  <2>2. r \in Registers
    BY DEF Gives
  <2>3. regs' \in Registers /\ regs'.address = r.address /\ regs'.line = r.line
    <3>1. [r EXCEPT !.basic_block = FALSE] \in Registers
      BY <2>2 DEF Registers
    <3> QED
      BY <2>1, <2>2, <3>1 DEF Registers
  <2>4. LineType'
    BY <2>1, <2>2, <2>3 DEF LineInv, LineType
  <2>5. ip' - 1 = ip
    BY <1>0, <2>1
  <2>6. PICK n : n = ip
    OBVIOUS
  <2>7. AddressAt(prog, ip) <= pc
    BY <1>0, <1>2
  <2>8. Running(n)'
    BY <2>1, <2>3, <2>6, <2>7, NextRows DEF Running, Gives, Rows
  <2>9. Running(ip - 1)'
    BY <2>5, <2>6, <2>8
  <2> QED
    BY <2>1, <2>4, <2>9 DEF LineInv
<1> QED
  BY <1>1, <1>2

LEMMA ReadHeaderInv == ASSUME LineInv, ReadHeader PROVE LineInv'
<1>1. /\ ln_at = "call" /\ linebuf' = linebuf /\ regs' = regs /\ ip' = ip /\ prog' = prog
      /\ header' = header /\ pc' = pc /\ row' = row
      /\ \/ header \in {"missing", "short"} /\ ln_at' \in {"NO_ENTRY", "ERROR"}
         \/ header = "good" /\ ln_at' = "run"
  BY DEF ReadHeader, Return
<1>2. LineType'
  BY <1>1 DEF LineInv, LineType
<1>3. PICK n : n = ip - 1
  OBVIOUS
<1>4. Running(n)'
  BY <1>1, <1>3 DEF LineInv, Running, Rows
<1>5. Running(ip - 1)'
  BY <1>1, <1>3, <1>4
<1> QED
  BY <1>1, <1>2, <1>5 DEF LineInv

\* An instruction that appends no row leaves the registers as the matrix has them.
LEMMA SetSteps ==
  ASSUME LineInv,
         \/ EndSequence \/ SetAddress \/ DefineFile \/ AdvancePc \/ AdvanceLine
         \/ ConstAddPc \/ FixedAdvancePc \/ SetFile \/ SetColumn \/ NegateStmt
         \/ SetBasicBlock \/ SetIgnored
  PROVE  LineInv'
<1>1. ln_at = "run" /\ ip <= Len(prog)
  BY DEF Executes, EndSequence, SetAddress, DefineFile, AdvancePc, AdvanceLine, ConstAddPc,
         FixedAdvancePc, SetFile, SetColumn, NegateStmt, SetBasicBlock, SetIgnored
<1> PICK op, v, g, i : op = Op /\ v = Val /\ g = regs /\ i = prog[ip]
  OBVIOUS
<1>2. op \in Opcodes /\ v \in Int /\ g \in Registers /\ i.op = op /\ i.val = v
  BY <1>1, NextAddress DEF LineInv, LineType, Op, Val
<1>3. PICK a, l : a = AddressAt(prog, ip) /\ l = LineAt(prog, ip)
  OBVIOUS
<1>4. PICK ab, lb : ab = AddressBy(i) /\ lb = LineBy(i)
  OBVIOUS
<1>5. /\ a = IF op = "end_sequence" THEN 0 ELSE IF op = "set_address" THEN v
             ELSE g.address + ab
      /\ l = IF op = "end_sequence" THEN 1 ELSE g.line + lb
  BY <1>1, <1>3, <1>4, NextAddress
<1>6. MinLen \in Nat /\ OpBase \in Int /\ LRange \in Nat /\ LRange > 0
  BY LineAssumption
<1>7. PICK vm, ca : vm = v * MinLen /\ ca = ADDRESS(255)
  OBVIOUS
<1>8. vm \in Int /\ ca \in Int
  <2>1. PICK q : q = (255 - OpBase) \div LRange
    OBVIOUS
  <2>2. q \in Int
    BY <1>6, <2>1
  <2> QED
    BY <1>2, <1>6, <1>7, <2>1, <2>2 DEF ADDRESS
<1>9. /\ op = "advance_pc" => ab = vm
      /\ op = "const_add_pc" => ab = ca
      /\ op = "fixed_advance_pc" => ab = v
      /\ op \notin {"advance_pc", "const_add_pc", "fixed_advance_pc", "special"} => ab = 0
      /\ op = "advance_line" => lb = v
      /\ op \notin {"advance_line", "special"} => lb = 0
  BY <1>2, <1>4, <1>7 DEF AddressBy, LineBy, ADDRESS
<1>10. ASSUME NEW r, Set(r), op \notin RowOps, r \in Registers, r.address = a, r.line = l
       PROVE  LineInv'
  BY <1>1, <1>3, <1>10, SetInv DEF Gives
<1>11. CASE EndSequence
  <2>1. op = "end_sequence" /\ Set(ResetRegisters)
    BY <1>11 DEF EndSequence, Executes
  <2> QED
    BY <1>5, <1>10, <2>1, NoRowIs DEF RowOps
<1>12. CASE SetAddress
  <2>1. PICK r : r = [g EXCEPT !.address = v]
    OBVIOUS
  <2>2. op = "set_address" /\ Set(r)
    BY <1>12, <2>1 DEF SetAddress, Executes
  <2>3. r \in Registers /\ r.address = a /\ r.line = l
    BY <1>2, <1>5, <1>9, <2>1, <2>2 DEF Registers
  <2> QED
    BY <1>10, <2>2, <2>3 DEF RowOps
<1>13. CASE DefineFile
  <2>1. op = "define_file" /\ Set(g)
    BY <1>13 DEF DefineFile, Executes
  <2>2. g.address = a /\ g.line = l
    BY <1>2, <1>5, <1>9, <2>1 DEF Registers
  <2> QED
    BY <1>2, <1>10, <2>1, <2>2 DEF RowOps
<1>14. CASE AdvancePc
  <2>1. PICK r : r = [g EXCEPT !.address = @ + vm]
    OBVIOUS
  <2>2. op = "advance_pc" /\ Set(r)
    BY <1>7, <1>14, <2>1 DEF AdvancePc, Executes
  <2>3. r \in Registers /\ r.address = a /\ r.line = l
    BY <1>2, <1>5, <1>8, <1>9, <2>1, <2>2 DEF Registers
  <2> QED
    BY <1>10, <2>2, <2>3 DEF RowOps
<1>15. CASE AdvanceLine
  <2>1. PICK r : r = [g EXCEPT !.line = @ + v]
    OBVIOUS
  <2>2. op = "advance_line" /\ Set(r)
    BY <1>15, <2>1 DEF AdvanceLine, Executes
  <2>3. r \in Registers /\ r.address = a /\ r.line = l
    BY <1>2, <1>5, <1>8, <1>9, <2>1, <2>2 DEF Registers
  <2> QED
    BY <1>10, <2>2, <2>3 DEF RowOps
<1>16. CASE ConstAddPc
  <2>1. PICK r : r = [g EXCEPT !.address = @ + ca]
    OBVIOUS
  <2>2. op = "const_add_pc" /\ Set(r)
    BY <1>7, <1>16, <2>1 DEF ConstAddPc, Executes
  <2>3. r \in Registers /\ r.address = a /\ r.line = l
    BY <1>2, <1>5, <1>8, <1>9, <2>1, <2>2 DEF Registers
  <2> QED
    BY <1>10, <2>2, <2>3 DEF RowOps
<1>17. CASE FixedAdvancePc
  <2>1. PICK r : r = [g EXCEPT !.address = @ + v]
    OBVIOUS
  <2>2. op = "fixed_advance_pc" /\ Set(r)
    BY <1>17, <2>1 DEF FixedAdvancePc, Executes
  <2>3. r \in Registers /\ r.address = a /\ r.line = l
    BY <1>2, <1>5, <1>8, <1>9, <2>1, <2>2 DEF Registers
  <2> QED
    BY <1>10, <2>2, <2>3 DEF RowOps
<1>18. CASE SetFile \/ SetColumn \/ NegateStmt \/ SetBasicBlock \/ SetIgnored
  <2>1. PICK r : /\ \/ r = [g EXCEPT !.file = v] \/ r = [g EXCEPT !.column = v]
                    \/ r = [g EXCEPT !.is_stmt = ~@] \/ r = [g EXCEPT !.basic_block = TRUE]
                    \/ r = g
                 /\ op \in {"set_file", "set_column", "negate_stmt", "basic_block", "set_ignored"}
                 /\ Set(r)
    BY <1>18 DEF SetFile, SetColumn, NegateStmt, SetBasicBlock, SetIgnored, Executes
  <2>2. r.address = g.address /\ r.line = g.line
    BY <1>2, <2>1 DEF Registers
  <2>3. r \in Registers
    BY <1>2, <2>1 DEF Registers
  <2>4. ab = 0 /\ lb = 0 /\ op \notin RowOps /\ op \notin {"end_sequence", "set_address"}
    BY <1>9, <2>1 DEF RowOps
  <2>5. g.address \in Int /\ g.line \in Int
    BY <1>2 DEF Registers
  <2>6. r.address = a /\ r.line = l
    BY <1>5, <2>2, <2>4, <2>5
  <2> QED
    BY <1>10, <2>1, <2>3, <2>4, <2>6
<1> QED
  BY <1>11, <1>12, <1>13, <1>14, <1>15, <1>16, <1>17, <1>18

\* An instruction that appends one does.
LEMMA RowSteps == ASSUME LineInv, Copy \/ Special PROVE LineInv'
<1>1. ln_at = "run" /\ ip <= Len(prog)
  BY DEF Executes, Copy, Special
<1> PICK op, v, g, i : op = Op /\ v = Val /\ g = regs /\ i = prog[ip]
  OBVIOUS
<1>2. op \in Opcodes /\ v \in Int /\ g \in Registers /\ i.op = op /\ i.val = v
  BY <1>1, NextAddress DEF LineInv, LineType, Op, Val
<1>3. PICK a, l : a = AddressAt(prog, ip) /\ l = LineAt(prog, ip)
  OBVIOUS
<1>4. PICK ab, lb : ab = AddressBy(i) /\ lb = LineBy(i)
  OBVIOUS
<1>5. op \in RowOps => a = g.address + ab /\ l = g.line + lb
  BY <1>1, <1>3, <1>4, NextAddress DEF RowOps
<1>6. ASSUME NEW r, AppendRow(r), op \in RowOps, r \in Registers, r.address = a, r.line = l
      PROVE  LineInv'
  BY <1>1, <1>3, <1>6, AppendRowInv DEF Gives
<1>7. CASE Copy
  <2>1. op = "copy" /\ AppendRow(g)
    BY <1>7 DEF Copy, Executes
  <2>2. ab = 0 /\ lb = 0
    BY <1>2, <1>4, <2>1 DEF AddressBy, LineBy
  <2>3. g.address = a /\ g.line = l
    BY <1>2, <1>5, <2>1, <2>2 DEF Registers, RowOps
  <2> QED
    BY <1>2, <1>6, <2>1, <2>3 DEF RowOps
<1>8. CASE Special
  <2>1. PICK x, y : x = LINE(v) /\ y = ADDRESS(v)
    OBVIOUS
  <2>2. x \in Int /\ y \in Int
    <3>1. PICK q, m : q = (v - OpBase) \div LRange /\ m = (v - OpBase) % LRange
      OBVIOUS
    <3>2. MinLen \in Nat /\ LBase \in Int /\ OpBase \in Int /\ LRange \in Nat /\ LRange > 0
      BY LineAssumption
    <3>3. q \in Int /\ m \in Int
      BY <1>2, <3>1, <3>2
    <3> QED
      BY <2>1, <3>1, <3>2, <3>3 DEF LINE, ADDRESS
  <2>3. PICK r : r = [g EXCEPT !.line = @ + x, !.address = @ + y]
    OBVIOUS
  <2>4. op = "special" /\ AppendRow(r)
    BY <1>8, <2>1, <2>3 DEF Special, Executes
  <2>5. ab = y /\ lb = x
    BY <1>2, <1>4, <2>1, <2>4 DEF AddressBy, LineBy, LINE, ADDRESS
  <2>6. r \in Registers /\ r.address = g.address + y /\ r.line = g.line + x
    <3>1. g.line \in Int /\ g.address \in Int
      BY <1>2 DEF Registers
    <3>2. PICK m, n : m = g.line + x /\ n = g.address + y
      OBVIOUS
    <3>3. m \in Int /\ n \in Int
      BY <2>2, <3>1, <3>2
    <3>4. r = [g EXCEPT !.line = m, !.address = n]
      BY <2>3, <3>2
    <3>5. r.address = n /\ r.line = m
      BY <1>2, <3>4 DEF Registers
    <3>6. r \in Registers
      BY <1>2, <3>3, <3>4 DEF Registers
    <3> QED
      BY <3>2, <3>5, <3>6
  <2> QED
    BY <1>5, <1>6, <2>4, <2>5, <2>6 DEF RowOps
<1> QED
  BY <1>7, <1>8

LEMMA LineNextInv == ASSUME LineInv, LineNext PROVE LineInv'
<1>1. LineNext => \/ ReadHeader \/ ProgramEnd \/ Copy \/ Special
                  \/ \/ EndSequence \/ SetAddress \/ DefineFile \/ AdvancePc \/ AdvanceLine
                     \/ ConstAddPc \/ FixedAdvancePc \/ SetFile \/ SetColumn \/ NegateStmt
                     \/ SetBasicBlock \/ SetIgnored
  BY DEF LineNext
<1> QED
  BY <1>1, ReadHeaderInv, ProgramEndInv, RowSteps, SetSteps

LEMMA LineCallInv == ASSUME LineInv, NEW x \in Int, LineCall(x) PROVE LineInv'
<1>1. /\ pc' = x /\ ln_at' = "call" /\ ip' = 1 /\ regs' = ResetRegisters /\ row' = NoRow
      /\ linebuf' = NoRow /\ prog' = prog /\ header' = header
  BY DEF LineCall
<1>2. Len(prog) \in Nat
  BY DEF LineInv, LineType
<1>3. LineType'
  BY <1>1, <1>2, NoRowIs DEF LineInv, LineType
<1>4. Running(0)'
  <2>1. AddressAt(prog, 0) = 0 /\ LineAt(prog, 0) = 1
    BY AddressStart DEF LineInv, LineType
  <2>2. LastLine(prog, 0) = 0
    BY LastWithNone DEF LastLine
  <2>3. \A k \in Rows : ~(k <= 0)
    BY DEF Rows, LineInv, LineType
  <2> QED
    BY <1>1, <2>1, <2>2, <2>3, NoRowIs DEF Running, Rows
<1>5. Running(ip - 1)'
  BY <1>1, <1>4
<1> QED
  BY <1>1, <1>3, <1>5 DEF LineInv

LEMMA LineStutters == ASSUME LineInv, UNCHANGED lineVars PROVE LineInv'
  BY DEF LineInv, LineType, Running, Rows, Sorted, LineOf, lineVars

(* The tree of a .debug_info section: the CU in which an entry is, and the *)
(* depth of what follows it.                                               *)

Section == info \in Seq(Entries) /\ Compiled

Cu(c) == \E h \in Headers : c = CuAt(h)

LEMMA HeaderIs ==
  ASSUME info \in Seq(Entries)
  PROVE  /\ Size \in Nat
         /\ \A o \in 0..Size-1 : info[o + 1].ab \in Nat \cup {-1} /\ info[o + 1].vals \in Seq(Nat)
         /\ Headers \in SUBSET (0..Size-1) /\ Dies \in SUBSET (0..Size-1)
         /\ \A o \in 0..Size-1 : o \in Headers <=> info[o + 1].ab = -1
         /\ \A o \in 0..Size-1 : o \in Dies <=> info[o + 1].ab > 0
<1>1. Size \in Nat /\ \A o \in 0..Size-1 : o + 1 \in 1..Len(info)
  BY DEF Size
<1>2. \A o \in 0..Size-1 : info[o + 1] \in Entries
  BY <1>1
<1> QED
  BY <1>1, <1>2 DEF Headers, Dies, Entries

\* The fields of a CU of a section as a compiler writes it.
LEMMA CuIs ==
  ASSUME Section, NEW c, Cu(c)
  PROVE  /\ c.off \in Headers /\ c.off \in Nat /\ c.next \in Nat /\ c.abbrev \in Nat
         /\ c.off + 1 < c.next /\ c.next <= Size /\ c.next \in Headers \cup {Size}
         /\ c = [off |-> c.off, next |-> c.next, abbrev |-> c.abbrev]
         /\ c = CuAt(c.off) /\ CuCompiled(c)
<1> PICK h \in Headers : c = CuAt(h)
  BY DEF Cu
<1>1. CuCompiled(c)
  BY DEF Section, Compiled
<1>2. c.off = h
  BY DEF CuAt
<1>3. h \in 0..Size-1 /\ info[h + 1].vals \in Seq(Nat) /\ Size \in Nat
  BY HeaderIs DEF Section
<1>4. Len(info[h + 1].vals) = 3
  BY <1>1, <1>2 DEF CuCompiled
<1>5. info[h + 1].vals[1] \in Nat /\ info[h + 1].vals[3] \in Nat
  <2>1. 1 \in 1..Len(info[h + 1].vals) /\ 3 \in 1..Len(info[h + 1].vals)
    BY <1>4
  <2> QED
    BY <1>3, <2>1
<1>6. c.next \in Nat /\ c.abbrev \in Nat
  BY <1>3, <1>5 DEF CuAt
<1>7. c.next \in Headers \cup {Size} /\ c.off + 1 < c.next
  BY <1>1 DEF CuCompiled
<1>8. c.next <= Size
  <2>1. Headers \in SUBSET (0..Size-1)
    BY HeaderIs DEF Section
  <2>2. c.next \in 0..Size-1 \/ c.next = Size
    BY <1>7, <2>1
  <2> QED
    BY <1>3, <1>6, <2>2
<1>9. c = [off |-> c.off, next |-> c.next, abbrev |-> c.abbrev]
  BY DEF CuAt
<1> QED
  BY <1>1, <1>2, <1>3, <1>6, <1>7, <1>8, <1>9

LEMMA MaxIs ==
  ASSUME NEW S, S \subseteq Int, NEW m \in S, \A x \in S : x <= m
  PROVE  Max(S) = m
<1>1. \A y \in S : m >= y
  OBVIOUS
<1>2. Max(S) \in S /\ \A y \in S : Max(S) >= y
  BY <1>1 DEF Max
<1>3. Max(S) >= m /\ Max(S) \in Int /\ m >= Max(S) /\ m \in Int
  BY <1>1, <1>2
<1> QED
  BY <1>3

LEMMA MinIs ==
  ASSUME NEW S, S \subseteq Int, NEW m \in S, \A x \in S : m <= x
  PROVE  Min(S) = m
<1>2. Min(S) \in S /\ \A y \in S : Min(S) <= y
  BY DEF Min
<1>3. Min(S) <= m /\ Min(S) \in Int /\ m <= Min(S) /\ m \in Int
  BY <1>2
<1> QED
  BY <1>3

\* The entries of a CU are its own.
LEMMA CuOfIs ==
  ASSUME Section, NEW c, Cu(c)
  PROVE  /\ \A o \in c.off+1..c.next : CuOf(o) = c
         /\ \A o \in c.off+1..c.next-1 : /\ o \in 0..Size-1 /\ o \notin Headers
                                         /\ info[o + 1].ab \in Nat
                                         /\ o \in Dies <=> info[o + 1].ab # 0
<1>1. /\ c.off \in Headers /\ c.off \in Nat /\ c.next \in Nat /\ c.off + 1 < c.next
      /\ c.next <= Size /\ c = CuAt(c.off) /\ CuCompiled(c)
  BY CuIs
<1>2. Size \in Nat /\ Headers \in SUBSET (0..Size-1)
  BY HeaderIs DEF Section
<1>3. \A o \in c.off+1..c.next-1 : o \notin Headers
  BY <1>1 DEF CuCompiled
<1>4. ASSUME NEW o \in c.off+1..c.next PROVE CuOf(o) = c
  <2> DEFINE S == {h \in Headers : h < o}
  <2>1. S \subseteq Int
    <3>1. \A h \in Headers : h \in Int
      BY <1>2
    <3>2. \A h \in S : h \in Headers
      OBVIOUS
    <3> HIDE DEF S
    <3> QED
      BY <3>1, <3>2
  <2>2. c.off \in S
    BY <1>1
  <2>3. ASSUME NEW h \in S PROVE h <= c.off
    <3>1. h \in 0..Size-1 /\ h < o /\ h \notin c.off+1..c.next-1
      BY <1>2, <1>3, <2>3
    <3> QED
      BY <1>1, <1>2, <3>1
  <2>4. Max(S) = c.off
    BY <2>1, <2>2, <2>3, MaxIs
  <2> QED
    BY <1>1, <2>4 DEF CuOf
<1>5. ASSUME NEW o \in c.off+1..c.next-1
      PROVE  /\ o \in 0..Size-1 /\ o \notin Headers /\ info[o + 1].ab \in Nat
             /\ o \in Dies <=> info[o + 1].ab # 0
  <2>1. o \in 0..Size-1 /\ o \notin Headers
    BY <1>1, <1>2, <1>3
  <2>2. /\ info[o + 1].ab \in Nat \cup {-1}
        /\ o \in Headers <=> info[o + 1].ab = -1
        /\ o \in Dies <=> info[o + 1].ab > 0
    BY <2>1, HeaderIs DEF Section
  <2> QED
    BY <2>1, <2>2
<1> QED
  BY <1>4, <1>5

\* A DIE's abbreviation is in the table.
LEMMA AbbrevIs ==
  ASSUME Section, NEW c, Cu(c), NEW o \in Dies, o \in c.off+1..c.next-1
  PROVE  /\ AbbrevFind(c, info[o + 1].ab).tag # "none"
         /\ AbbrevFind(c, info[o + 1].ab).children \in BOOLEAN
         /\ DieCompiled(o) /\ DieAt(o) = ReadDie(c, o)
<1>1. c.off \in Nat /\ c.next \in Nat /\ c.abbrev \in Nat
  BY CuIs
<1>2. o \in c.off+1..c.next
  BY <1>1
<1>3. CuOf(o) = c
  BY <1>2, CuOfIs
<1>4. DieCompiled(o)
  BY DEF Section, Compiled
<1>5. PICK e : e = info[o + 1].ab
  OBVIOUS
<1>6. e # 0 /\ e \in Nat
  BY <1>5, CuOfIs
<1>7. PICK k \in c.abbrev+1..Len(Abbrevs) :
        /\ Abbrevs[k].entry = e
        /\ \A j \in c.abbrev+1..k-1 : Abbrevs[j].entry \notin {0, e}
  BY <1>3, <1>4, <1>5 DEF DieCompiled
<1>8. /\ Abbrevs \in Seq([entry : Nat, tag : Tags, children : BOOLEAN, attrs : Seq(Attributes)])
      /\ \A j \in 1..Len(Abbrevs) : Abbrevs[j].tag = "none" <=> Abbrevs[j].entry = 0
  BY AbbrevsAssumption
<1>9. Len(Abbrevs) \in Nat /\ k \in 1..Len(Abbrevs)
  BY <1>1, <1>8
<1> DEFINE S == {j \in c.abbrev+1..Len(Abbrevs) : Abbrevs[j].entry \in {e, 0}}
<1>10. k \in S /\ S \subseteq Int
  BY <1>7
<1>11. ASSUME NEW j \in S PROVE k <= j
  <2>1. j \in Int /\ j >= c.abbrev+1 /\ j \notin c.abbrev+1..k-1
    BY <1>1, <1>7, <1>11
  <2> QED
    BY <1>1, <1>9, <2>1
<1>12. Min(S) = k
  BY <1>10, <1>11, MinIs
<1>13. AbbrevFind(c, e) = Abbrevs[k]
  BY <1>12 DEF AbbrevFind
<1>14. DieAt(o) = ReadDie(c, o)
  BY <1>3 DEF DieAt
<1>15. Abbrevs[k].tag # "none"
  BY <1>6, <1>7, <1>8, <1>9
<1>16. Abbrevs[k].children \in BOOLEAN
  <2>1. PICK T : T = [entry : Nat, tag : Tags, children : BOOLEAN, attrs : Seq(Attributes)]
    OBVIOUS
  <2>2. Abbrevs \in Seq(T)
    BY <1>8, <2>1
  <2>3. Abbrevs[k] \in T
    BY <1>9, <2>2
  <2> QED
    BY <2>1, <2>3
<1> QED
  BY <1>4, <1>5, <1>13, <1>14, <1>15, <1>16

\* A section that does not change keeps its tree.
LEMMA TreeStutters ==
  ASSUME UNCHANGED info
  PROVE  /\ Size' = Size /\ Headers' = Headers /\ Dies' = Dies
         /\ (\A h : CuAt(h)' = CuAt(h))
         /\ (\A c, o : ReadDie(c, o)' = ReadDie(c, o))
         /\ (\A o : CuOf(o)' = CuOf(o))
<1>1. Size' = Size
  BY DEF Size
<1>2. Headers' = Headers /\ Dies' = Dies
  BY <1>1 DEF Headers, Dies
<1>3. \A h : CuAt(h)' = CuAt(h)
  BY DEF CuAt
<1>4. \A c, o : ReadDie(c, o)' = ReadDie(c, o)
  BY DEF ReadDie, AbbrevFind, HasUnreadable
<1>5. \A o : CuOf(o)' = CuOf(o)
  BY <1>2, <1>3 DEF CuOf
<1> QED
  BY <1>1, <1>2, <1>3, <1>4, <1>5

\* The lists of children that are opened and closed before an entry of its CU.
Opened(o) == {x \in CuOf(o).off+1..o-1 : info[x + 1].ab > 0 /\ DieAt(x).kids}
Closed(o) == {x \in CuOf(o).off+1..o-1 : info[x + 1].ab = 0}

LEMMA DepthIs == \A o : Depth(o) = Cardinality(Opened(o)) - Cardinality(Closed(o))
  BY DEF Depth, Opened, Closed

\* The rest: what holds of the DIEs and depths of a section that does not change.
LEMMA DiesStutter ==
  ASSUME UNCHANGED info
  PROVE  /\ (\A o : DieAt(o)' = DieAt(o)) /\ (\A o : Depth(o)' = Depth(o))
         /\ Readable' = Readable
         /\ (\A a : Around(a)' = Around(a)) /\ (\A a : FunctionAt(a)' = FunctionAt(a))
         /\ (\A f : LeadingArgs(f)' = LeadingArgs(f))
<1>1. \A o : DieAt(o)' = DieAt(o)
  BY TreeStutters DEF DieAt
<1>2. \A o : Depth(o)' = Depth(o)
  <2>1. \A o : Opened(o)' = Opened(o)
    BY <1>1, TreeStutters DEF Opened
  <2>2. \A o : Closed(o)' = Closed(o)
    BY <1>1, TreeStutters DEF Closed
  <2>3. \A o : Depth(o)' = (Cardinality(Opened(o)) - Cardinality(Closed(o)))'
    BY DEF Depth, Opened, Closed
  <2> QED
    BY <2>1, <2>2, <2>3, DepthIs
<1>3. Readable' = Readable
  BY <1>1, TreeStutters DEF Readable
<1>4. \A a : Around(a)' = Around(a)
  BY <1>1, <1>2, TreeStutters DEF Around, ContainsAddr, HasAttr, Attr
<1>5. \A a : FunctionAt(a)' = FunctionAt(a)
  BY <1>4 DEF FunctionAt
<1>6. \A f : LeadingArgs(f)' = LeadingArgs(f)
  BY <1>1, TreeStutters DEF LeadingArgs
<1> QED
  BY <1>1, <1>2, <1>3, <1>4, <1>5, <1>6

LEMMA SectionStutters ==
  ASSUME UNCHANGED info
  PROVE  Section' = Section /\ \A c : Cu(c)' = Cu(c)
<1>1. \A c : Cu(c)' = Cu(c)
  BY TreeStutters DEF Cu
<1>2. \A c : CuCompiled(c)' = CuCompiled(c)
  BY TreeStutters, DiesStutter DEF CuCompiled
<1>3. \A o : DieCompiled(o)' = DieCompiled(o)
  <2> SUFFICES ASSUME NEW o PROVE DieCompiled(o)' = DieCompiled(o)
    OBVIOUS
  <2>1. /\ CuOf(o)' = CuOf(o) /\ DieAt(o)' = DieAt(o) /\ Dies' = Dies /\ info' = info
        /\ DieAt(o + 1)' = DieAt(o + 1) /\ \A x : Depth(x)' = Depth(x)
    BY TreeStutters, DiesStutter
  <2>2. SiblingFrom(CuOf(o), DieAt(o))' = SiblingFrom(CuOf(o), DieAt(o))
    BY <2>1 DEF SiblingFrom, HasAttr, Attr
  <2> QED
    BY <2>1, <2>2 DEF DieCompiled
<1>4. Compiled' = Compiled
  BY <1>2, <1>3, TreeStutters DEF Compiled
<1> QED
  BY <1>1, <1>4 DEF Section

(* dwarf_search_die_within_cu: what the search comes to from an entry, for *)
(* every number of lists that are still open, by what it comes to from the *)
(* next entry.                                                             *)

EndOf(c) == IF c.next < Size THEN c.next ELSE Size

HitRow(c, sib, End, o, below) ==
  [level \in 0..End+1 |->
     IF o = End THEN -1
     ELSE IF info[o + 1].ab = 0
     THEN IF level = 0 \/ ~sib THEN -1 ELSE below[level - 1]
     ELSE LET ab == AbbrevFind(c, info[o + 1].ab)
          IN IF ab.tag = "none" THEN -1
             ELSE IF sib /\ level > 0 /\ ~HasUnreadable(ab)
             THEN below[IF ab.children THEN level + 1 ELSE level]
             ELSE o]

HitTo(c, sib, End, m, g) == g = [o \in m..End |-> HitRow(c, sib, End, o, g[o + 1])]

LEMMA HitRowEnd ==
  ASSUME NEW c, NEW sib, NEW End, NEW a, NEW b
  PROVE  HitRow(c, sib, End, End, a) = HitRow(c, sib, End, End, b)
  BY DEF HitRow

LEMMA HitExists ==
  ASSUME NEW c, NEW sib, NEW End \in Nat
  PROVE  \E g : HitTo(c, sib, End, 0, g)
<1> DEFINE D == {n \in Nat : n <= End => \E g : HitTo(c, sib, End, End - n, g)}
<1>1. 0 \in D
  <2>1. PICK r : r = HitRow(c, sib, End, End, 0)
    OBVIOUS
  <2> DEFINE g == [o \in End..End |-> r]
  <2>2. \A o \in End..End : o = End /\ HitRow(c, sib, End, o, g[o + 1]) = r
    BY <2>1, HitRowEnd
  <2>3. g = [o \in End..End |-> g[o]]
    OBVIOUS
  <2>4. \A o \in End..End : g[o] = HitRow(c, sib, End, o, g[o + 1])
    BY <2>2
  <2> HIDE DEF g
  <2>5. HitTo(c, sib, End, End, g)
    BY <2>3, <2>4 DEF HitTo
  <2> QED
    BY <2>5
<1>2. ASSUME NEW n \in D PROVE n + 1 \in D
  <2>1. SUFFICES ASSUME n + 1 <= End PROVE \E g : HitTo(c, sib, End, End - (n + 1), g)
    OBVIOUS
  <2>2. PICK g : HitTo(c, sib, End, End - n, g)
    BY <2>1
  <2>3. PICK m : m = End - (n + 1)
    OBVIOUS
  <2>4. m \in Nat /\ End - n = m + 1 /\ m < End
    BY <2>1, <2>3
  <2> DEFINE h == [o \in m..End |-> IF o = m THEN HitRow(c, sib, End, m, g[m + 1]) ELSE g[o]]
  <2>5. \A o \in m+1..End : g[o] = HitRow(c, sib, End, o, g[o + 1])
    BY <2>2, <2>4 DEF HitTo
  <2>6. h[m + 1] = g[m + 1] /\ h[m] = HitRow(c, sib, End, m, g[m + 1])
    BY <2>4
  <2>7. ASSUME NEW o \in m..End PROVE h[o] = HitRow(c, sib, End, o, h[o + 1])
    <3>1. CASE o = m
      BY <2>6, <3>1
    <3>2. CASE o \in m+1..End-1
      <4>1. o # m /\ o + 1 # m /\ o + 1 \in m..End /\ o \in m+1..End
        BY <2>4, <3>2
      <4>2. h[o + 1] = g[o + 1] /\ h[o] = g[o]
        BY <4>1
      <4> HIDE DEF h
      <4> QED
        BY <2>5, <4>1, <4>2
    <3>3. CASE o = End
      <4>1. h[End] = g[End] /\ End \in m+1..End
        BY <2>4
      <4>2. g[End] = HitRow(c, sib, End, End, g[End + 1])
        BY <2>5, <4>1
      <4>3. HitRow(c, sib, End, End, g[End + 1]) = HitRow(c, sib, End, End, h[End + 1])
        BY HitRowEnd
      <4> QED
        BY <3>3, <4>1, <4>2, <4>3
    <3> QED
      BY <2>4, <3>1, <3>2, <3>3
  <2>8. h = [o \in m..End |-> h[o]]
    OBVIOUS
  <2> HIDE DEF h
  <2>9. HitTo(c, sib, End, m, h)
    BY <2>7, <2>8 DEF HitTo
  <2> QED
    BY <2>3, <2>9
<1>3. D \in SUBSET Nat
  OBVIOUS
<1> HIDE DEF D
<1>4. End \in D
  BY <1>1, <1>2, <1>3, AllNat
<1>5. End - End = 0
  OBVIOUS
<1> QED
  BY <1>4, <1>5 DEF D

Hit(c, sib) == CHOOSE g : HitTo(c, sib, EndOf(c), 0, g)

LEMMA HitIs ==
  ASSUME NEW c, NEW sib, EndOf(c) \in Nat
  PROVE  \A o \in 0..EndOf(c) :
           Hit(c, sib)[o] = HitRow(c, sib, EndOf(c), o, Hit(c, sib)[o + 1])
<1>1. HitTo(c, sib, EndOf(c), 0, Hit(c, sib))
  BY HitExists DEF Hit
<1> QED
  BY <1>1 DEF HitTo

DieRow(c) == [o \in -1..EndOf(c) |-> IF o = -1 THEN NoDie ELSE ReadDie(c, o)]

Searched(c, offset, sib) ==
  IF offset > EndOf(c) THEN NoDie ELSE DieRow(c)[Hit(c, sib)[offset][1]]

LEMMA SearchIs == \A c, offset, sib : SearchDie(c, offset, sib) = Searched(c, offset, sib)
  BY DEF SearchDie, EndOf, Hit, HitTo, HitRow, Searched, DieRow

LEMMA SearchStutters ==
  ASSUME UNCHANGED info
  PROVE  \A c, o, s : SearchDie(c, o, s)' = SearchDie(c, o, s)
<1>1. \A c : EndOf(c)' = EndOf(c)
  BY TreeStutters DEF EndOf
<1>2. \A c, s, e, o, b : HitRow(c, s, e, o, b)' = HitRow(c, s, e, o, b)
  BY TreeStutters DEF HitRow, AbbrevFind, HasUnreadable
<1>3. \A c, s, e, m, g : HitTo(c, s, e, m, g)' = HitTo(c, s, e, m, g)
  BY <1>2 DEF HitTo
<1>4. \A c, s : Hit(c, s)' = Hit(c, s)
  BY <1>1, <1>3 DEF Hit
<1>5. \A c, o, s : Searched(c, o, s)' = Searched(c, o, s)
  <2>1. \A c : DieRow(c)' = DieRow(c)
    BY <1>1, TreeStutters DEF DieRow
  <2> QED
    BY <1>1, <1>4, <2>1 DEF Searched
<1>6. \A c, o, s : SearchDie(c, o, s)' = Searched(c, o, s)'
  BY DEF SearchDie, EndOf, Hit, HitTo, HitRow, Searched, DieRow
<1> QED
  BY <1>5, <1>6, SearchIs

LEMMA EndIs == ASSUME Section, NEW c, Cu(c) PROVE EndOf(c) = c.next /\ EndOf(c) \in Nat
<1>1. c.next \in Nat /\ c.next <= Size /\ Size \in Nat
  BY CuIs, HeaderIs DEF Section
<1> QED
  BY <1>1 DEF EndOf

\* The entry at an offset, without a search.
LEMMA SearchPlain ==
  ASSUME Section, NEW c, Cu(c), NEW x \in c.off+1..c.next
  PROVE  SearchDie(c, x, FALSE) = IF x = c.next \/ info[x + 1].ab = 0 THEN NoDie ELSE ReadDie(c, x)
<1> PICK End : End = EndOf(c)
  OBVIOUS
<1>1. End = c.next /\ End \in Nat /\ c.off \in Nat /\ c.off + 1 < c.next
  BY EndIs, CuIs
<1>2. x \in 0..End /\ 1 \in 0..End+1
  BY <1>1
<1>3. PICK b : b = Hit(c, FALSE)[x + 1]
  OBVIOUS
<1>4. Hit(c, FALSE)[x] = HitRow(c, FALSE, End, x, b)
  BY <1>1, <1>2, <1>3, HitIs
<1>5. PICK h : h = Hit(c, FALSE)[x][1]
  OBVIOUS
<1>6. h = IF x = End \/ info[x + 1].ab = 0 THEN -1
          ELSE IF AbbrevFind(c, info[x + 1].ab).tag = "none" THEN -1 ELSE x
  BY <1>2, <1>4, <1>5 DEF HitRow
<1>7. h = IF x = c.next \/ info[x + 1].ab = 0 THEN -1 ELSE x
  <2>1. CASE x = c.next \/ info[x + 1].ab = 0
    BY <1>1, <1>6, <2>1
  <2>2. CASE ~(x = c.next \/ info[x + 1].ab = 0)
    <3>1. x \in c.off+1..c.next-1
      BY <1>1, <2>2
    <3>2. x \in Dies
      BY <2>2, <3>1, CuOfIs
    <3>3. AbbrevFind(c, info[x + 1].ab).tag # "none"
      BY <3>1, <3>2, AbbrevIs
    <3> QED
      BY <1>1, <1>6, <2>2, <3>3
  <2> QED
    BY <2>1, <2>2
<1>8. SearchDie(c, x, FALSE) = DieRow(c)[h]
  <2>1. ~(x > EndOf(c))
    BY <1>1, <1>2
  <2> QED
    BY <1>5, <2>1, SearchIs DEF Searched
<1>9. \A o \in -1..End : DieRow(c)[o] = IF o = -1 THEN NoDie ELSE ReadDie(c, o)
  BY DEF DieRow
<1>10. x # -1 /\ x \in -1..End /\ -1 \in -1..End
  BY <1>1, <1>2
<1> QED
  BY <1>7, <1>8, <1>9, <1>10

\* What the search for a sibling comes to from an entry behind which `level'
\* lists are open.
From(c, o, level) == Hit(c, TRUE)[o][level]

LEMMA FromIs ==
  ASSUME Section, NEW c, Cu(c), NEW o \in c.off+1..c.next, NEW l \in 0..o+1
  PROVE  /\ o = c.next => From(c, o, l) = -1
         /\ o < c.next /\ o \notin Dies =>
              From(c, o, l) = IF l = 0 THEN -1 ELSE From(c, o + 1, l - 1)
         /\ o < c.next /\ o \in Dies =>
              From(c, o, l) = IF l > 0 /\ ~DieAt(o).err
                              THEN From(c, o + 1, IF DieAt(o).kids THEN l + 1 ELSE l)
                              ELSE o
<1> PICK End : End = EndOf(c)
  OBVIOUS
<1>1. End = c.next /\ End \in Nat /\ c.off \in Nat /\ c.off + 1 < c.next
  BY EndIs, CuIs
<1>2. o \in 0..End /\ l \in 0..End+1 /\ l \in Nat /\ o \in Nat
  BY <1>1
<1>3. PICK b : b = Hit(c, TRUE)[o + 1]
  OBVIOUS
<1>4. Hit(c, TRUE)[o] = HitRow(c, TRUE, End, o, b)
  BY <1>1, <1>2, <1>3, HitIs
<1>5. \A m : From(c, o + 1, m) = b[m]
  BY <1>3 DEF From
<1>6. PICK ab : ab = AbbrevFind(c, info[o + 1].ab)
  OBVIOUS
<1>7. From(c, o, l) = IF o = End THEN -1
                      ELSE IF info[o + 1].ab = 0 THEN IF l = 0 THEN -1 ELSE b[l - 1]
                      ELSE IF ab.tag = "none" THEN -1
                      ELSE IF l > 0 /\ ~HasUnreadable(ab)
                      THEN b[IF ab.children THEN l + 1 ELSE l] ELSE o
  BY <1>2, <1>4, <1>6 DEF HitRow, From
<1>8. CASE o = c.next
  BY <1>1, <1>7, <1>8
<1>9. CASE o # c.next
  <2>1. o \in c.off+1..c.next-1 /\ o < c.next
    BY <1>1, <1>2, <1>9
  <2>2. o \in Dies <=> info[o + 1].ab # 0
    BY <2>1, CuOfIs
  <2>3. CASE o \notin Dies
    BY <1>1, <1>5, <1>7, <2>1, <2>2, <2>3
  <2>4. CASE o \in Dies
    <3>1. ab.tag # "none" /\ DieAt(o) = ReadDie(c, o)
      BY <1>6, <2>1, <2>4, AbbrevIs
    <3>2. DieAt(o).err = HasUnreadable(ab) /\ DieAt(o).kids = ab.children
      BY <1>6, <3>1 DEF ReadDie
    <3> QED
      BY <1>1, <1>5, <1>7, <2>1, <2>2, <2>4, <3>1, <3>2
  <2> QED
    BY <2>3, <2>4
<1> QED
  BY <1>8, <1>9

\* It is a DIE of the CU, or none.
LEMMA FromRange ==
  ASSUME Section, NEW c, Cu(c)
  PROVE  \A o \in c.off+1..c.next : \A l \in 0..o+1 :
           From(c, o, l) = -1 \/ (From(c, o, l) \in Dies /\ From(c, o, l) \in o..c.next-1)
<1> DEFINE Good(o, l) == From(c, o, l) = -1 \/ (From(c, o, l) \in Dies /\ From(c, o, l) \in o..c.next-1)
           D == {n \in Nat : \A o \in c.off+1..c.next : c.next - o = n => \A l \in 0..o+1 : Good(o, l)}
<1>0. c.off \in Nat /\ c.next \in Nat
  BY CuIs
<1>1. 0 \in D
  <2>1. ASSUME NEW o \in c.off+1..c.next, c.next - o = 0, NEW l \in 0..o+1 PROVE Good(o, l)
    <3>1. o = c.next
      BY <1>0, <2>1
    <3> QED
      BY <3>1, FromIs
  <2> QED
    BY <2>1
<1>2. ASSUME NEW n \in D PROVE n + 1 \in D
  <2>1. ASSUME NEW o \in c.off+1..c.next, c.next - o = n + 1, NEW l \in 0..o+1 PROVE Good(o, l)
    <3>1. /\ o < c.next /\ o + 1 \in c.off+1..c.next /\ c.next - (o + 1) = n /\ o \in Nat
          /\ o \in o..c.next-1
      BY <1>0, <2>1
    <3>2. \A m \in 0..o+2 : Good(o + 1, m)
      BY <3>1
    <3>3. \A m \in 0..o+2 : Good(o + 1, m) => \/ From(c, o + 1, m) = -1
                                             \/ /\ From(c, o + 1, m) \in Dies
                                                /\ From(c, o + 1, m) \in o..c.next-1
      BY <1>0, <3>1
    <3>4. l - 1 \in 0..o+2 \/ l = 0
      BY <3>1
    <3>5. l \in 0..o+2 /\ l + 1 \in 0..o+2
      BY <3>1
    <3> HIDE DEF Good
    <3>6. CASE o \notin Dies
      <4>1. From(c, o, l) = IF l = 0 THEN -1 ELSE From(c, o + 1, l - 1)
        BY <3>1, <3>6, FromIs
      <4> QED
        BY <3>2, <3>3, <3>4, <4>1 DEF Good
    <3>7. CASE o \in Dies
      <4>1. From(c, o, l) = IF l > 0 /\ ~DieAt(o).err
                            THEN From(c, o + 1, IF DieAt(o).kids THEN l + 1 ELSE l) ELSE o
        BY <3>1, <3>7, FromIs
      <4> QED
        BY <3>1, <3>2, <3>3, <3>5, <3>7, <4>1 DEF Good
    <3> QED
      BY <3>6, <3>7
  <2> QED
    BY <2>1
<1>3. D \in SUBSET Nat
  OBVIOUS
<1> HIDE DEF D
<1>4. D = Nat
  BY <1>1, <1>2, <1>3, AllNat
<1>5. ASSUME NEW o \in c.off+1..c.next PROVE c.next - o \in D
  BY <1>0, <1>4
<1> QED
  BY <1>5 DEF D

LEMMA SearchSiblingIs ==
  ASSUME Section, NEW c, Cu(c), NEW x \in c.off+1..c.next
  PROVE  /\ SearchDie(c, x, TRUE) = IF From(c, x, 1) = -1 THEN NoDie ELSE ReadDie(c, From(c, x, 1))
         /\ From(c, x, 1) = -1 \/ (From(c, x, 1) \in Dies /\ From(c, x, 1) \in x..c.next-1)
<1>1. EndOf(c) = c.next /\ EndOf(c) \in Nat /\ c.off \in Nat /\ c.next \in Nat
  BY EndIs, CuIs
<1>2. x \in Nat /\ 1 \in 0..x+1 /\ ~(x > EndOf(c))
  BY <1>1
<1> PICK f : f = From(c, x, 1)
  OBVIOUS
<1>3. f = -1 \/ (f \in Dies /\ f \in x..c.next-1)
  BY <1>2, FromRange
<1>4. SearchDie(c, x, TRUE) = DieRow(c)[f]
  BY <1>2, SearchIs DEF Searched, From
<1>5. f \in -1..EndOf(c)
  BY <1>1, <1>2, <1>3
<1>6. DieRow(c)[f] = IF f = -1 THEN NoDie ELSE ReadDie(c, f)
  BY <1>5 DEF DieRow
<1> QED
  BY <1>3, <1>4, <1>6

\* One entry behind another.
LEMMA DepthStep ==
  ASSUME Section, NEW c, Cu(c)
  PROVE  /\ Depth(c.off + 1) = 0
         /\ \A o \in c.off+1..c.next : Depth(o) \in Int
         /\ \A o \in c.off+1..c.next-1 :
              Depth(o + 1) = Depth(o) + IF o \in Dies THEN IF DieAt(o).kids THEN 1 ELSE 0 ELSE -1
<1>1. c.off \in Nat /\ c.next \in Nat /\ c.off + 1 < c.next
  BY CuIs
<1>2. \A o \in c.off+1..c.next : CuOf(o) = c
  BY CuOfIs
<1>3. ASSUME NEW o \in c.off+1..c.next
      PROVE  /\ IsFiniteSet(Opened(o)) /\ Cardinality(Opened(o)) \in Nat
             /\ IsFiniteSet(Closed(o)) /\ Cardinality(Closed(o)) \in Nat
  <2>1. IsFiniteSet(c.off+1..o-1)
    <3>1. c.off + 1 \in Int /\ o - 1 \in Int
      BY <1>1
    <3>2. PICK a \in Int, b \in Int : a = c.off + 1 /\ b = o - 1
      BY <3>1
    <3> QED
      BY <3>2, FS_Interval
  <2>2. Opened(o) \subseteq c.off+1..o-1 /\ Closed(o) \subseteq c.off+1..o-1
    BY <1>2, <1>3 DEF Opened, Closed
  <2>3. IsFiniteSet(Opened(o)) /\ IsFiniteSet(Closed(o))
    BY <2>1, <2>2, FS_Subset
  <2> QED
    BY <2>3, FS_CardinalityType
<1>4. Depth(c.off + 1) = 0
  <2>1. c.off + 1 \in c.off+1..c.next
    BY <1>1
  <2>2. Opened(c.off + 1) = {} /\ Closed(c.off + 1) = {}
    BY <1>1, <1>2, <2>1 DEF Opened, Closed
  <2>3. Cardinality({}) = 0
    BY FS_EmptySet
  <2> QED
    BY <2>2, <2>3, DepthIs
<1>5. \A o \in c.off+1..c.next : Depth(o) \in Int
  BY <1>3, DepthIs
<1>6. ASSUME NEW o \in c.off+1..c.next-1
      PROVE  Depth(o + 1) = Depth(o) + IF o \in Dies THEN IF DieAt(o).kids THEN 1 ELSE 0 ELSE -1
  <2>1. o \in c.off+1..c.next /\ o + 1 \in c.off+1..c.next
    BY <1>1
  <2>2. CuOf(o) = c /\ CuOf(o + 1) = c
    BY <1>2, <2>1
  <2>3. info[o + 1].ab \in Nat /\ (o \in Dies <=> info[o + 1].ab # 0)
    BY CuOfIs
  <2>4. \A x : x \in c.off+1..o+1-1 <=> x \in c.off+1..o-1 \/ x = o
    BY <1>1
  <2>5. o \notin Opened(o) /\ o \notin Closed(o)
    BY <1>1, <2>2 DEF Opened, Closed
  <2>6. CASE o \in Dies /\ DieAt(o).kids
    <3>1. Opened(o + 1) = Opened(o) \cup {o} /\ Closed(o + 1) = Closed(o)
      BY <2>2, <2>3, <2>4, <2>6 DEF Opened, Closed
    <3>2. Cardinality(Opened(o + 1)) = Cardinality(Opened(o)) + 1
      BY <1>3, <2>1, <2>5, <3>1, FS_AddElement
    <3> QED
      BY <1>3, <2>1, <2>6, <3>1, <3>2, DepthIs
  <2>7. CASE o \in Dies /\ ~DieAt(o).kids
    <3>1. Opened(o + 1) = Opened(o) /\ Closed(o + 1) = Closed(o)
      BY <2>2, <2>3, <2>4, <2>7 DEF Opened, Closed
    <3> QED
      BY <1>3, <2>1, <2>7, <3>1, DepthIs
  <2>8. CASE o \notin Dies
    <3>1. Opened(o + 1) = Opened(o) /\ Closed(o + 1) = Closed(o) \cup {o}
      BY <2>2, <2>3, <2>4, <2>8 DEF Opened, Closed
    <3>2. Cardinality(Closed(o + 1)) = Cardinality(Closed(o)) + 1
      BY <1>3, <2>1, <2>5, <3>1, FS_AddElement
    <3> QED
      BY <1>3, <2>1, <2>8, <3>1, <3>2, DepthIs
  <2> QED
    BY <2>6, <2>7, <2>8
<1> QED
  BY <1>4, <1>5, <1>6

\* A DIE at the top of a CU.
Top(c, p) == p \in Dies /\ p \in c.off+1..c.next-1 /\ Depth(p) = 1

LEMMA DieIs ==
  ASSUME Section, NEW c, Cu(c), NEW o \in Dies, o \in c.off+1..c.next-1
  PROVE  /\ DieAt(o) = ReadDie(c, o)
         /\ DieAt(o).off = o /\ DieAt(o).next = o + 1
         /\ DieAt(o).kids \in BOOLEAN /\ DieAt(o).err \in BOOLEAN /\ DieAt(o) # NoDie
<1>1. DieAt(o) = ReadDie(c, o)
  BY AbbrevIs
<1>2. c.off \in Nat /\ c.next \in Nat
  BY CuIs
<1>3. DieAt(o).off = o /\ DieAt(o).next = o + 1 /\ NoDie.off = -1 /\ o # -1
  BY <1>1, <1>2 DEF ReadDie, NoDie
<1>4. DieAt(o).err \in BOOLEAN
  <2>1. DieAt(o).err = HasUnreadable(AbbrevFind(c, info[o + 1].ab))
    BY <1>1 DEF ReadDie
  <2> QED
    BY <2>1 DEF HasUnreadable
<1>5. DieAt(o).kids \in BOOLEAN
  <2>1. DieAt(o).kids = AbbrevFind(c, info[o + 1].ab).children
    BY <1>1 DEF ReadDie
  <2> QED
    BY <2>1, AbbrevIs
<1> QED
  BY <1>1, <1>3, <1>4, <1>5

\* The search for the sibling of a function runs through its children to the
\* next entry at the top.
LEMMA ThroughChildren ==
  ASSUME Section, Readable, NEW c, Cu(c), NEW p, Top(c, p), DieAt(p).kids,
         NEW s \in p+1..c.next, \A x \in p+1..s-1 : Depth(x) > 1
  PROVE  /\ Depth(s) - 1 \in 0..s+1
         /\ From(c, p + 1, 1) = From(c, s, Depth(s) - 1)
<1>0. /\ c.off \in Nat /\ c.next \in Nat /\ p \in Nat /\ p \in c.off+1..c.next-1 /\ p \in Dies
      /\ Depth(p) = 1
  BY CuIs DEF Top
<1>1. \A o \in p+1..c.next : Depth(o) \in Int /\ o \in c.off+1..c.next /\ o \in Nat
  BY <1>0, DepthStep
<1>2. Depth(p + 1) = 2
  BY <1>0, DepthStep
<1> DEFINE D == {n \in Nat : p + 1 + n <= s =>
                   /\ Depth(p + 1 + n) - 1 \in 0..p+1+n+1
                   /\ From(c, p + 1, 1) = From(c, p + 1 + n, Depth(p + 1 + n) - 1)}
<1>3. 0 \in D
  BY <1>0, <1>2
<1>4. ASSUME NEW n \in D PROVE n + 1 \in D
  <2>1. SUFFICES ASSUME p + 1 + (n + 1) <= s
                 PROVE  /\ Depth(p + 1 + (n + 1)) - 1 \in 0..p+1+(n+1)+1
                        /\ From(c, p + 1, 1) = From(c, p + 1 + (n + 1), Depth(p + 1 + (n + 1)) - 1)
    OBVIOUS
  <2>2. PICK o : o = p + 1 + n
    OBVIOUS
  <2>3. /\ o \in p+1..s-1 /\ p + 1 + (n + 1) = o + 1 /\ o + 1 \in p+1..c.next /\ o \in p+1..c.next
        /\ o \in c.off+1..c.next-1 /\ o < c.next
    BY <1>0, <2>1, <2>2
  <2>4. PICK l : l = Depth(o) - 1
    OBVIOUS
  <2>5. l \in 0..o+1 /\ From(c, p + 1, 1) = From(c, o, l)
    BY <2>1, <2>2, <2>3, <2>4
  <2>6. Depth(o) > 1 /\ Depth(o) \in Int /\ Depth(o + 1) \in Int
    BY <1>1, <2>3
  <2>7. l > 0
    BY <2>4, <2>6
  <2>8. PICK m : m = Depth(o + 1) - 1
    OBVIOUS
  <2>9. m = l + IF o \in Dies THEN IF DieAt(o).kids THEN 1 ELSE 0 ELSE -1
    <3>1. Depth(o + 1) = Depth(o) + IF o \in Dies THEN IF DieAt(o).kids THEN 1 ELSE 0 ELSE -1
      BY <2>3, DepthStep
    <3> QED
      BY <2>4, <2>6, <2>8, <3>1
  <2>10. From(c, o, l) = From(c, o + 1, m)
    <3>1. CASE o \in Dies
      <4>1. ~DieAt(o).err
        BY <3>1 DEF Readable
      <4> QED
        BY <1>1, <2>3, <2>5, <2>7, <2>9, <3>1, <4>1, FromIs
    <3>2. CASE o \notin Dies
      BY <1>1, <2>3, <2>5, <2>7, <2>9, <3>2, FromIs
    <3> QED
      BY <3>1, <3>2
  <2>11. m \in 0..o+1+1
    BY <1>0, <2>3, <2>5, <2>7, <2>9
  <2> QED
    BY <2>3, <2>5, <2>8, <2>10, <2>11
<1>5. D \in SUBSET Nat
  OBVIOUS
<1>6. s - (p + 1) \in Nat /\ p + 1 + (s - (p + 1)) = s
  BY <1>0
<1> HIDE DEF D
<1>7. s - (p + 1) \in D
  BY <1>3, <1>4, <1>5, <1>6, AllNat
<1> QED
  BY <1>0, <1>6, <1>7 DEF D

\* The sibling of a function at the top of a CU is the next DIE there; there is
\* none at a null entry.
LEMMA SiblingIs ==
  ASSUME Section, Readable, NEW c, Cu(c), NEW p, Top(c, p)
  PROVE  \E s \in p+1..c.next-1 :
           /\ Depth(s) = 1 /\ \A x \in p+1..s-1 : Depth(x) > 1
           /\ SiblingOf(c, DieAt(p)) = IF s \in Dies THEN DieAt(s) ELSE NoDie
<1>0. /\ c.off \in Nat /\ c.next \in Nat /\ p \in Nat /\ p \in c.off+1..c.next-1 /\ p \in Dies
      /\ Depth(p) = 1 /\ CuCompiled(c)
  BY CuIs DEF Top
<1> PICK d : d = DieAt(p)
  OBVIOUS
<1>1. d = ReadDie(c, p) /\ d.next = p + 1 /\ DieCompiled(p) /\ CuOf(p) = c
  <2>1. p \in c.off+1..c.next
    BY <1>0
  <2> QED
    BY <1>0, <2>1, DieIs, AbbrevIs, CuOfIs
<1>2. \A o \in p+1..c.next : Depth(o) \in Int /\ o \in c.off+1..c.next /\ o \in Nat
  BY <1>0, DepthStep
<1>3. Depth(c.next) = 0
  BY <1>0 DEF CuCompiled
<1>4. Depth(p + 1) = 1 + (IF d.kids THEN 1 ELSE 0)
  BY <1>0, DepthStep
<1>5. ASSUME NEW s \in p+1..c.next-1
      PROVE  SearchDie(c, s, FALSE) = IF s \in Dies THEN DieAt(s) ELSE NoDie
  <2>1. s \in c.off+1..c.next-1 /\ s \in c.off+1..c.next /\ s # c.next
    BY <1>0
  <2>2. SearchDie(c, s, FALSE) = IF info[s + 1].ab = 0 THEN NoDie ELSE ReadDie(c, s)
    BY <2>1, SearchPlain
  <2>3. s \in Dies <=> info[s + 1].ab # 0
    BY <2>1, CuOfIs
  <2>4. s \in Dies => DieAt(s) = ReadDie(c, s)
    BY <2>1, DieIs
  <2> QED
    BY <2>2, <2>3, <2>4
<1>6. CASE ~d.kids
  <2>1. p + 1 # c.next
    BY <1>0, <1>3, <1>4, <1>6
  <2>2. p + 1 \in p+1..c.next-1 /\ \A x \in p+1..p+1-1 : FALSE
    BY <1>0, <2>1
  <2>3. SiblingOf(c, d) = SearchDie(c, p + 1, FALSE)
    BY <1>1, <1>6 DEF SiblingOf, SiblingFrom
  <2>4. Depth(p + 1) = 1
    BY <1>4, <1>6
  <2>5. SiblingOf(c, d) = IF p + 1 \in Dies THEN DieAt(p + 1) ELSE NoDie
    BY <1>5, <2>2, <2>3
  <2>6. PICK s : s = p + 1
    OBVIOUS
  <2>7. s \in p+1..c.next-1 /\ Depth(s) = 1 /\ \A x \in p+1..s-1 : Depth(x) > 1
    BY <2>2, <2>4, <2>6
  <2>8. SiblingOf(c, d) = IF s \in Dies THEN DieAt(s) ELSE NoDie
    BY <2>5, <2>6
  <2> QED
    BY <2>7, <2>8
<1>7. CASE d.kids /\ HasAttr(d, "sibling")
  <2>1. PICK s : s = SiblingFrom(c, d)
    OBVIOUS
  <2>2. /\ s \in p+1..c.next-1 /\ Depth(s) = Depth(p)
        /\ \A x \in p+1..s-1 : Depth(x) > Depth(p)
    BY <1>1, <1>7, <2>1 DEF DieCompiled
  <2>3. SiblingOf(c, d) = SearchDie(c, s, FALSE)
    BY <1>7, <2>1 DEF SiblingOf
  <2> QED
    BY <1>0, <1>5, <2>2, <2>3
<1>8. CASE d.kids /\ ~HasAttr(d, "sibling")
  <2> DEFINE S == {x \in p+1..c.next : Depth(x) <= 1}
  <2>1. S \in SUBSET Nat /\ c.next \in S
    BY <1>0, <1>2, <1>3
  <2>2. PICK s \in S : \A y \in S : s <= y
    BY <2>1, LeastNat
  <2>3. \A x \in p+1..s-1 : Depth(x) > 1
    <3>1. ASSUME NEW x \in p+1..s-1 PROVE Depth(x) > 1
      <4>1. x \in p+1..c.next /\ x \notin S /\ Depth(x) \in Int
        BY <1>0, <1>2, <2>2
      <4> QED
        BY <4>1
    <3> QED
      BY <3>1
  <2>4. s # p + 1
    BY <1>4, <1>8
  <2>5. Depth(s) = 1
    <3>1. s - 1 \in p+1..s-1 /\ s - 1 \in c.off+1..c.next-1 /\ s - 1 + 1 = s
      BY <1>0, <2>4
    <3>2. Depth(s - 1) > 1 /\ Depth(s - 1) \in Int /\ Depth(s) \in Int /\ Depth(s) <= 1
      BY <1>0, <1>2, <2>3, <3>1
    <3>3. Depth(s) = Depth(s - 1) + IF s - 1 \in Dies THEN IF DieAt(s - 1).kids THEN 1 ELSE 0 ELSE -1
      BY <3>1, DepthStep
    <3> QED
      BY <3>2, <3>3
  <2>6. s \in p+1..c.next-1 /\ s \in c.off+1..c.next /\ 0 \in 0..s+1
    BY <1>0, <1>3, <2>5
  <2>7. From(c, p + 1, 1) = From(c, s, 0)
    <3>1. Depth(s) - 1 = 0
      BY <2>5
    <3> QED
      BY <1>8, <2>3, <3>1, ThroughChildren
  <2>8. From(c, s, 0) = IF s \in Dies THEN s ELSE -1
    BY <1>0, <2>6, FromIs
  <2>9. SiblingOf(c, d) = SearchDie(c, p + 1, TRUE)
    BY <1>1, <1>8 DEF SiblingOf, SiblingFrom
  <2>10. SearchDie(c, p + 1, TRUE) = IF From(c, p + 1, 1) = -1 THEN NoDie ELSE ReadDie(c, From(c, p + 1, 1))
    <3>1. p + 1 \in c.off+1..c.next
      BY <1>0
    <3> QED
      BY <3>1, SearchSiblingIs
  <2>11. s \in Dies => DieAt(s) = ReadDie(c, s) /\ s # -1
    <3>1. s \in c.off+1..c.next-1 /\ s # -1
      BY <1>0, <2>6
    <3> QED
      BY <3>1, DieIs
  <2> QED
    BY <2>3, <2>5, <2>6, <2>7, <2>8, <2>9, <2>10, <2>11
<1> QED
  BY <1>6, <1>7, <1>8

\* A DIE of the CU as the walk has it: if it could not be read to its end, the
\* place of the next is left from the one before.
Walked(c, d) ==
  /\ d.off \in Dies /\ d.off \in c.off+1..c.next-1 /\ d.next \in c.off+1..c.next
  /\ d.tag = DieAt(d.off).tag /\ d.kids = DieAt(d.off).kids
  /\ d.attrs = DieAt(d.off).attrs /\ d.err = DieAt(d.off).err
  /\ ~d.err => d = DieAt(d.off)

LEMMA WalkedIs ==
  ASSUME Section, NEW c, Cu(c), NEW o \in Dies, o \in c.off+1..c.next-1
  PROVE  /\ Walked(c, DieAt(o))
         /\ DieAt(o).err => \A n \in c.off+1..c.next : Walked(c, [DieAt(o) EXCEPT !.next = n])
<1>1. /\ DieAt(o).off = o /\ DieAt(o).next = o + 1 /\ c.off \in Nat /\ c.next \in Nat
      /\ DieAt(o) = ReadDie(c, o)
  BY DieIs, CuIs
<1>2. Walked(c, DieAt(o))
  BY <1>1 DEF Walked
<1>3. ASSUME DieAt(o).err, NEW n \in c.off+1..c.next
      PROVE  Walked(c, [DieAt(o) EXCEPT !.next = n])
  <2>1. PICK d : d = [DieAt(o) EXCEPT !.next = n]
    OBVIOUS
  <2>2. PICK off, next, tag, kids, attrs, err :
          DieAt(o) = [off |-> off, next |-> next, tag |-> tag, kids |-> kids, attrs |-> attrs,
                      err |-> err]
    BY <1>1 DEF ReadDie
  <2>3. d = [off |-> off, next |-> n, tag |-> tag, kids |-> kids, attrs |-> attrs, err |-> err]
    BY <2>1, <2>2
  <2>4. /\ d.off = o /\ d.next = n /\ d.tag = DieAt(o).tag /\ d.kids = DieAt(o).kids
        /\ d.attrs = DieAt(o).attrs /\ d.err = DieAt(o).err
    BY <1>1, <2>2, <2>3
  <2>5. Walked(c, d)
    BY <1>3, <2>4 DEF Walked
  <2> QED
    BY <2>1, <2>5
<1> QED
  BY <1>2, <1>3

LEMMA ChildIs ==
  ASSUME Section, NEW c, Cu(c), NEW x \in c.off+1..c.next
  PROVE  SearchDie(c, x, FALSE) = IF x # c.next /\ x \in Dies THEN DieAt(x) ELSE NoDie
<1>1. SearchDie(c, x, FALSE) = IF x = c.next \/ info[x + 1].ab = 0 THEN NoDie ELSE ReadDie(c, x)
  BY SearchPlain
<1>2. CASE x = c.next
  BY <1>1, <1>2
<1>3. CASE x # c.next
  <2>1. x \in c.off+1..c.next-1
    BY <1>3, CuIs
  <2>2. x \in Dies <=> info[x + 1].ab # 0
    BY <2>1, CuOfIs
  <2>3. x \in Dies => DieAt(x) = ReadDie(c, x)
    BY <2>1, DieIs
  <2> QED
    BY <1>1, <1>3, <2>2, <2>3
<1> QED
  BY <1>2, <1>3

LEMMA SiblingFromIs ==
  ASSUME Section, NEW c, Cu(c), NEW d, Walked(c, d)
  PROVE  SiblingFrom(c, d) \in c.off+1..c.next
<1>1. /\ d.off \in Dies /\ d.off \in c.off+1..c.next-1 /\ d.next \in c.off+1..c.next
      /\ d.kids = DieAt(d.off).kids /\ d.attrs = DieAt(d.off).attrs
      /\ c.off \in Nat /\ c.next \in Nat
  BY CuIs DEF Walked
<1>2. CASE d.kids /\ HasAttr(d, "sibling")
  <2>1. DieCompiled(d.off) /\ CuOf(d.off) = c
    <3>1. d.off \in c.off+1..c.next
      BY <1>1
    <3> QED
      BY <1>1, <3>1, AbbrevIs, CuOfIs
  <2>2. HasAttr(DieAt(d.off), "sibling") /\ DieAt(d.off).kids
    BY <1>1, <1>2 DEF HasAttr
  <2>3. SiblingFrom(c, DieAt(d.off)) \in d.off+1..c.next-1
    BY <2>1, <2>2 DEF DieCompiled
  <2>4. Attr(d, "sibling") = Attr(DieAt(d.off), "sibling")
    BY <1>1 DEF Attr
  <2>5. SiblingFrom(c, d) = SiblingFrom(c, DieAt(d.off))
    BY <1>2, <2>2, <2>4 DEF SiblingFrom
  <2> QED
    BY <1>1, <2>3, <2>5
<1>3. CASE ~(d.kids /\ HasAttr(d, "sibling"))
  BY <1>1, <1>3 DEF SiblingFrom
<1> QED
  BY <1>2, <1>3

\* The sibling, as far as it could be read.
LEMMA SiblingWalked ==
  ASSUME Section, NEW c, Cu(c), NEW d, Walked(c, d)
  PROVE  \/ SiblingOf(c, d) = NoDie
         \/ \E r \in Dies : r \in c.off+1..c.next-1 /\ SiblingOf(c, d) = DieAt(r)
<1>1. c.off \in Nat /\ c.next \in Nat
  BY CuIs
<1>2. PICK x : x = SiblingFrom(c, d)
  OBVIOUS
<1>3. x \in c.off+1..c.next
  BY <1>2, SiblingFromIs
<1>4. CASE d.kids /\ ~HasAttr(d, "sibling")
  <2>1. SiblingOf(c, d) = SearchDie(c, x, TRUE)
    BY <1>2, <1>4 DEF SiblingOf
  <2>2. PICK f : f = From(c, x, 1)
    OBVIOUS
  <2>3. /\ SearchDie(c, x, TRUE) = IF f = -1 THEN NoDie ELSE ReadDie(c, f)
        /\ f = -1 \/ (f \in Dies /\ f \in x..c.next-1)
    BY <1>3, <2>2, SearchSiblingIs
  <2>4. CASE f = -1
    BY <2>1, <2>3, <2>4
  <2>5. CASE f # -1
    <3>1. f \in Dies /\ f \in c.off+1..c.next-1
      BY <1>1, <1>3, <2>3, <2>5
    <3> QED
      BY <2>1, <2>3, <2>5, <3>1, DieIs
  <2> QED
    BY <2>4, <2>5
<1>5. CASE ~(d.kids /\ ~HasAttr(d, "sibling"))
  <2>1. SiblingOf(c, d) = SearchDie(c, x, FALSE)
    BY <1>2, <1>5 DEF SiblingOf, HasAttr, Walked
  <2>2. SiblingOf(c, d) = IF x # c.next /\ x \in Dies THEN DieAt(x) ELSE NoDie
    BY <1>3, <2>1, ChildIs
  <2>3. CASE x # c.next /\ x \in Dies
    <3>1. x \in c.off+1..c.next-1
      BY <1>1, <1>3, <2>3
    <3> QED
      BY <2>2, <2>3, <3>1
  <2>4. CASE ~(x # c.next /\ x \in Dies)
    BY <2>2, <2>4
  <2> QED
    BY <2>3, <2>4
<1> QED
  BY <1>4, <1>5

LEMMA MaxOfSome ==
  ASSUME NEW a \in Int, NEW b \in Int, NEW S, S \subseteq a..b, S # {}
  PROVE  Max(S) \in S
<1> DEFINE T == {b - y : y \in S}
<1>1. T \in SUBSET Nat /\ T # {}
  OBVIOUS
<1>2. PICK t \in T : \A u \in T : t <= u
  BY <1>1, LeastNat
<1>3. PICK x \in S : t = b - x
  BY <1>2
<1>4. ASSUME NEW y \in S PROVE x >= y
  <2>1. b - y \in T /\ x \in Int /\ y \in Int
    BY <1>4
  <2> HIDE DEF T
  <2>2. t <= b - y
    BY <1>2, <2>1
  <2> QED
    BY <1>3, <2>1, <2>2
<1> QED
  BY <1>4 DEF Max

LEMMA NextLeftIs ==
  ASSUME Section, NEW c, Cu(c), NEW d, Walked(c, d), NEW r \in Dies, r \in c.off+1..c.next-1
  PROVE  NextLeft(c, d, DieAt(r)) \in c.off+1..c.next
<1>1. PICK x : x = SiblingFrom(c, d)
  OBVIOUS
<1>2. x \in c.off+1..c.next /\ c.off \in Nat /\ c.next \in Nat /\ d.next \in c.off+1..c.next
  BY <1>1, SiblingFromIs, CuIs DEF Walked
<1>3. DieAt(r).off = r
  BY DieIs
<1> DEFINE passed == {p \in x..r-1 : info[p + 1].ab > 0}
<1>4. NextLeft(c, d, DieAt(r)) = IF passed = {} THEN d.next ELSE Max(passed) + 1
  BY <1>1, <1>3 DEF NextLeft
<1>5. CASE passed = {}
  BY <1>2, <1>4, <1>5
<1>6. CASE passed # {}
  <2>1. passed \subseteq x..r-1 /\ x \in Int /\ r - 1 \in Int
    BY <1>2
  <2>2. PICK b \in Int : b = r - 1
    BY <2>1
  <2>3. passed \subseteq x..b
    BY <2>1, <2>2
  <2> HIDE DEF passed
  <2>4. Max(passed) \in passed
    BY <1>6, <2>1, <2>2, <2>3, MaxOfSome
  <2>5. Max(passed) \in x..r-1
    BY <2>1, <2>4
  <2> QED
    BY <1>2, <1>4, <1>6, <2>5
<1> QED
  BY <1>5, <1>6

(* The parameters of a function. *)

IsArg(x) == x \in Dies /\ ~DieAt(x).err /\ DieAt(x).tag = "formal_parameter"

LEMMA LeadingArgsAre ==
  ASSUME Section, NEW f \in Nat, NEW n \in Nat, n > 0 => DieAt(f).kids,
         \A x \in f+1..f+n : IsArg(x), ~(DieAt(f).kids /\ IsArg(f + n + 1))
  PROVE  Cardinality(LeadingArgs(f)) = n
<1>1. LeadingArgs(f) = f+1..f+n
  <2>1. ASSUME NEW o \in LeadingArgs(f) PROVE o \in f+1..f+n
    <3>1. o \in f+1..Size-1 /\ DieAt(f).kids /\ \A x \in f+1..o : IsArg(x)
      BY <2>1 DEF LeadingArgs, IsArg
    <3>2. Size \in Nat
      BY HeaderIs DEF Section
    <3>3. f + n + 1 \notin f+1..o
      BY <3>1
    <3> QED
      BY <3>1, <3>2, <3>3
  <2>2. ASSUME NEW o \in f+1..f+n PROVE o \in LeadingArgs(f)
    <3>1. DieAt(f).kids /\ \A x \in f+1..o : x \in f+1..f+n
      BY <2>2
    <3>2. \A x \in f+1..o : IsArg(x)
      BY <3>1
    <3>3. o \in Dies /\ Dies \in SUBSET (0..Size-1) /\ Size \in Nat
      BY HeaderIs DEF IsArg, Section
    <3>4. o \in f+1..Size-1
      BY <3>3
    <3> QED
      BY <3>1, <3>2, <3>4 DEF LeadingArgs, IsArg
  <2> QED
    BY <2>1, <2>2
<1>2. PICK a \in Int, b \in Int : a = f + 1 /\ b = f + n
  OBVIOUS
<1>3. Cardinality(a..b) = IF a > b THEN 0 ELSE b - a + 1
  BY FS_Interval
<1> QED
  BY <1>1, <1>2, <1>3

SizeRow(n, below) ==
  [t \in {NoDie} \cup {ReadDie(cu, o) : o \in cu.off+1..cu.next-1} |->
     IF HasAttr(t, "byte_size") THEN Attr(t, "byte_size")
     ELSE IF HasAttr(t, "type") /\ n > 0 THEN below[TypeOf(t)]
     ELSE ret_val]

SizeTo(N, g) == g = [n \in 0..N |-> SizeRow(n, g[n - 1])]

LEMMA SizeExists == ASSUME NEW N \in Nat PROVE \E g : SizeTo(N, g)
<1> DEFINE D == {n \in Nat : \E g : SizeTo(n, g)}
<1>0. \A a, b : SizeRow(0, a) = SizeRow(0, b)
  BY DEF SizeRow
<1>1. 0 \in D
  <2>1. PICK r : r = SizeRow(0, 0)
    OBVIOUS
  <2> DEFINE g == [n \in 0..0 |-> r]
  <2>2. \A n \in 0..0 : n = 0 /\ g[n] = r /\ SizeRow(n, g[n - 1]) = r
    BY <1>0, <2>1
  <2>3. g = [n \in 0..0 |-> g[n]]
    OBVIOUS
  <2> HIDE DEF g
  <2>4. SizeTo(0, g)
    BY <2>2, <2>3 DEF SizeTo
  <2> QED
    BY <2>4
<1>2. ASSUME NEW n \in D PROVE n + 1 \in D
  <2>1. PICK g : SizeTo(n, g)
    OBVIOUS
  <2>2. \A j \in 0..n : g[j] = SizeRow(j, g[j - 1])
    BY <2>1 DEF SizeTo
  <2> DEFINE h == [j \in 0..n+1 |-> IF j = n + 1 THEN SizeRow(n + 1, g[n]) ELSE g[j]]
  <2>3. ASSUME NEW j \in 0..n+1 PROVE h[j] = SizeRow(j, h[j - 1])
    <3>1. CASE j = 0
      <4>1. h[0] = g[0] /\ 0 \in 0..n
        OBVIOUS
      <4>2. g[0] = SizeRow(0, g[0 - 1])
        BY <2>2, <4>1
      <4>3. SizeRow(0, g[0 - 1]) = SizeRow(0, h[0 - 1])
        BY <1>0
      <4> HIDE DEF h
      <4> QED
        BY <3>1, <4>1, <4>2, <4>3
    <3>2. CASE j # 0
      <4>1. j - 1 \in 0..n /\ h[j - 1] = g[j - 1]
        BY <3>2
      <4>2. h[j] = IF j = n + 1 THEN SizeRow(n + 1, g[n]) ELSE g[j]
        OBVIOUS
      <4>3. j # n + 1 => j \in 0..n
        OBVIOUS
      <4>4. j = n + 1 => j - 1 = n
        OBVIOUS
      <4> HIDE DEF h
      <4> QED
        BY <2>2, <4>1, <4>2, <4>3, <4>4
    <3> QED
      BY <3>1, <3>2
  <2>4. h = [j \in 0..n+1 |-> h[j]]
    OBVIOUS
  <2> HIDE DEF h
  <2>5. SizeTo(n + 1, h)
    BY <2>3, <2>4 DEF SizeTo
  <2> QED
    BY <2>5
<1>3. D \in SUBSET Nat
  OBVIOUS
<1> HIDE DEF D
<1>4. D = Nat
  BY <1>1, <1>2, <1>3, AllNat
<1> QED
  BY <1>4 DEF D

\* A plain type, of the first parameter and of the others.
LEMMA PlainSize ==
  ASSUME Section, Cu(cu), NEW o \in Dies, o \in cu.off+1..cu.next-1,
         HasAttr(DieAt(o), "type"), HasAttr(TypeOf(DieAt(o)), "byte_size")
  PROVE  /\ ChainSize(DieAt(o)) = Attr(TypeOf(DieAt(o)), "byte_size")
         /\ DirectSize(DieAt(o)) = Attr(TypeOf(DieAt(o)), "byte_size")
<1> PICK d, t : d = DieAt(o) /\ t = TypeOf(d)
  OBVIOUS
<1> DEFINE size == CHOOSE g : SizeTo(Size, g)
           dies == {NoDie} \cup {ReadDie(cu, x) : x \in cu.off+1..cu.next-1}
<1>1. Size \in Nat
  BY HeaderIs DEF Section
<1>2. SizeTo(Size, size)
  BY <1>1, SizeExists
<1>3. ChainSize(d) = IF HasAttr(d, "type") THEN size[Size][TypeOf(d)] ELSE ret_val
  BY DEF ChainSize, SizeTo, SizeRow
<1> HIDE DEF size
<1>4. size[Size] = SizeRow(Size, size[Size - 1])
  BY <1>1, <1>2 DEF SizeTo
<1>5. t \in dies
  <2>2. PICK x : x = cu.off + Attr(d, "type")
    OBVIOUS
  <2>3. x \in cu.off+1..cu.next-1
    <3>1. DieCompiled(o) /\ CuOf(o) = cu
      <4>1. o \in cu.off+1..cu.next
        BY CuIs
      <4> QED
        BY <4>1, AbbrevIs, CuOfIs
    <3> QED
      BY <2>2, <3>1 DEF DieCompiled
  <2>4. t = SearchDie(cu, x, FALSE)
    BY <2>2 DEF TypeOf
  <2>5. x \in cu.off+1..cu.next
    BY <2>3, CuIs
  <2>6. t = NoDie \/ t = ReadDie(cu, x)
    BY <2>4, <2>5, SearchPlain
  <2> QED
    BY <2>3, <2>6
<1>6. SizeRow(Size, size[Size - 1])[t] = Attr(t, "byte_size")
  BY <1>5 DEF SizeRow
<1> QED
  BY <1>3, <1>4, <1>6 DEF DirectSize

(* The walk. *)

\* No function around the address lies before an offset.
NoneBefore(p) == Readable => \A o \in Around(addr) : p <= o

\* The CU that _get_next_cu reads behind the end of the section.
BeyondCu == [off |-> Size, next |-> Size + 2, abbrev |-> 0]

\* A DIE at the top of the current CU.
InList ==
  /\ Cu(cu) /\ curr_off = cu.next /\ Walked(cu, die)
  /\ Readable => Depth(die.off) = 1
  /\ NoneBefore(die.off)

Counted == Len(found.sizes)

\* The function found, and what has been counted of its parameters.
InFunction ==
  /\ found.fn = die.off /\ ContainsAddr(DieAt(die.off), addr)
  /\ found = [fn |-> found.fn, sizes |-> found.sizes]
  /\ \E S : found.sizes \in Seq(S)
  /\ ~die.err => /\ Counted > 0 => die.kids
                 /\ \A x \in die.off+1..die.off+Counted : IsArg(x) /\ x \in cu.off+1..cu.next-1

Sized ==
  ~die.err => \A k \in 1..Counted :
    LET p == DieAt(die.off + k)
        t == TypeOf(p)
    IN HasAttr(p, "type") /\ HasAttr(t, "byte_size") => found.sizes[k] = Attr(t, "byte_size")

\* The next parameter.
AtArg ==
  ~die.err => LET x == die.off + Counted + 1
              IN die.kids /\ IsArg(x) /\ x \in cu.off+1..cu.next-1 /\ arg = DieAt(x)

DieInv ==
  /\ Section
  /\ at \in {"idle", "next_cu", "cu_die", "list", "sibling", "arg", "found", "unknown"}
  /\ at = "next_cu" => curr_off \in Headers \cup {Size, Size + 2} /\ NoneBefore(curr_off)
  /\ at = "cu_die" => \/ Cu(cu) /\ curr_off = cu.next /\ NoneBefore(cu.off)
                      \/ cu = BeyondCu /\ curr_off = Size + 2 /\ NoneBefore(Size)
  /\ at \in {"list", "sibling", "arg", "found"} => InList
  /\ at = "sibling" => NoneBefore(die.off + 1)
  /\ at = "unknown" => NoneBefore(Size)
  /\ at \in {"arg", "found"} => InFunction /\ Sized
  /\ at = "arg" => AtArg
  /\ at = "found" /\ ~die.err => Cardinality(LeadingArgs(die.off)) = Counted
  /\ at \notin {"arg", "found"} => found = Unknown

LEMMA Same ==
  ASSUME UNCHANGED info
  PROVE  /\ Section' = Section /\ Size' = Size /\ Headers' = Headers /\ Dies' = Dies
         /\ Readable' = Readable /\ BeyondCu' = BeyondCu
         /\ (\A c : Cu(c)' = Cu(c)) /\ (\A c, d : Walked(c, d)' = Walked(c, d))
         /\ (\A a : Around(a)' = Around(a)) /\ (\A o : Depth(o)' = Depth(o))
         /\ (\A o : DieAt(o)' = DieAt(o)) /\ (\A o : IsArg(o)' = IsArg(o))
         /\ (\A f : LeadingArgs(f)' = LeadingArgs(f))
<1>1. /\ Size' = Size /\ Headers' = Headers /\ Dies' = Dies
      /\ \A c : Cu(c)' = Cu(c)
      /\ Section' = Section /\ \A o : DieAt(o)' = DieAt(o)
  BY TreeStutters, SectionStutters, DiesStutter
<1>2. \A c, d : Walked(c, d)' = Walked(c, d)
  BY <1>1 DEF Walked
<1>3. \A o : IsArg(o)' = IsArg(o)
  BY <1>1 DEF IsArg
<1>4. BeyondCu' = BeyondCu
  BY <1>1 DEF BeyondCu
<1> QED
  BY <1>1, <1>2, <1>3, <1>4, DiesStutter

LEMMA SameNone == ASSUME UNCHANGED <<info, addr>> PROVE \A p : NoneBefore(p)' = NoneBefore(p)
  BY Same DEF NoneBefore

\* Functions around an address are at the top of a CU.
LEMMA AroundIs ==
  ASSUME Section
  PROVE  \A o \in Around(addr) : /\ o \in Dies /\ o \in 0..Size-1 /\ o \notin Headers
                                 /\ Depth(o) = 1 /\ ContainsAddr(DieAt(o), addr)
<1>1. Dies \in SUBSET (0..Size-1) /\ \A o \in 0..Size-1 : o \in Dies => o \notin Headers
  <2>1. \A o \in 0..Size-1 : /\ o \in Headers <=> info[o + 1].ab = -1
                             /\ o \in Dies <=> info[o + 1].ab > 0
    BY HeaderIs DEF Section
  <2>2. Dies \in SUBSET (0..Size-1)
    BY HeaderIs DEF Section
  <2> QED
    BY <2>1, <2>2
<1> QED
  BY <1>1 DEF Around

LEMMA NextCuInv == ASSUME DieInv, NextCu PROVE DieInv'
<1>1. /\ at = "next_cu" /\ curr_off < Size /\ info' = info /\ addr' = addr
      /\ cu' = CuAt(curr_off) /\ curr_off' = cu'.next /\ found' = found
      /\ at' = IF info[curr_off + 1].vals[2] \in 2..4 THEN "cu_die" ELSE "unknown"
  BY DEF NextCu, Goto, CuAt
<1>2. Section /\ curr_off \in Headers \cup {Size, Size + 2} /\ NoneBefore(curr_off)
      /\ found = Unknown
  BY <1>1 DEF DieInv
<1>3. curr_off \in Headers
  <2>1. Size \in Nat
    BY <1>2, HeaderIs DEF Section
  <2> QED
    BY <1>1, <1>2, <2>1
<1>4. Cu(cu')
  BY <1>1, <1>3 DEF Cu
<1>5. cu'.off = curr_off /\ CuCompiled(cu')
  BY <1>1, <1>3 DEF CuAt, Section, Compiled, DieInv
<1>6. at' = "cu_die"
  BY <1>1, <1>5 DEF CuCompiled
<1>7. Cu(cu)' /\ NoneBefore(cu.off)' /\ Section'
  <2>1. \A p : NoneBefore(p)' = NoneBefore(p)
    BY <1>1, SameNone
  <2>2. PICK n, c : n = cu'.off /\ c = cu'
    OBVIOUS
  <2>3. NoneBefore(n)' /\ Cu(c)'
    BY <1>1, <1>2, <1>4, <1>5, <2>1, <2>2, Same
  <2> QED
    BY <1>1, <1>2, <2>2, <2>3, Same
<1> QED
  BY <1>1, <1>2, <1>6, <1>7 DEF DieInv

LEMMA NextCuBeyondInv == ASSUME DieInv, NextCuBeyond PROVE DieInv'
<1>1. /\ at = "next_cu" /\ curr_off = Size /\ info' = info /\ addr' = addr
      /\ cu' = BeyondCu /\ curr_off' = Size + 2 /\ found' = found
      /\ at' \in {"cu_die", "unknown"}
  BY DEF NextCuBeyond, Goto, BeyondCu
<1>2. Section /\ NoneBefore(Size) /\ found = Unknown
  BY <1>1 DEF DieInv
<1>3. Section' /\ cu' = BeyondCu' /\ curr_off' = Size' + 2 /\ NoneBefore(Size)'
  <2>1. \A p : NoneBefore(p)' = NoneBefore(p)
    BY <1>1, SameNone
  <2>2. PICK n : n = Size
    OBVIOUS
  <2>3. NoneBefore(n)'
    BY <1>2, <2>1, <2>2
  <2> QED
    BY <1>1, <1>2, <2>2, <2>3, Same
<1> QED
  BY <1>1, <1>2, <1>3 DEF DieInv

LEMMA NoMoreCusInv == ASSUME DieInv, NoMoreCus PROVE DieInv'
<1>1. /\ at = "next_cu" /\ curr_off > Size /\ info' = info /\ addr' = addr
      /\ found' = found /\ at' = "unknown"
  BY DEF NoMoreCus, Goto
<1>2. Section /\ NoneBefore(curr_off) /\ found = Unknown /\ curr_off \in Headers \cup {Size, Size + 2}
  BY <1>1 DEF DieInv
<1>3. NoneBefore(Size)
  <2>1. Size \in Nat /\ curr_off \in Int
    <3>1. Size \in Nat /\ Headers \in SUBSET (0..Size-1)
      BY <1>2, HeaderIs DEF Section
    <3>2. \A h \in Headers : h \in Int
      BY <3>1
    <3> QED
      BY <1>2, <3>1, <3>2
  <2>2. ASSUME Readable, NEW o \in Around(addr) PROVE Size <= o
    <3>1. curr_off <= o /\ o \in 0..Size-1
      BY <1>2, <2>2, AroundIs DEF NoneBefore
    <3> QED
      BY <1>1, <2>1, <3>1
  <2> QED
    BY <2>2 DEF NoneBefore
<1>4. Section' /\ NoneBefore(Size)'
  <2>1. \A p : NoneBefore(p)' = NoneBefore(p)
    BY <1>1, SameNone
  <2>2. PICK n : n = Size
    OBVIOUS
  <2>3. NoneBefore(n)'
    BY <1>3, <2>1, <2>2
  <2> QED
    BY <1>1, <1>2, <2>2, <2>3, Same
<1> QED
  BY <1>1, <1>2, <1>4 DEF DieInv

LEMMA NextIsNoDie == ASSUME Section, NEW c, Cu(c) PROVE c.next \notin Dies
<1>1. c.next \in Headers \cup {Size}
  BY CuIs
<1>2. Size \in Nat /\ Dies \in SUBSET (0..Size-1) /\ Headers \in SUBSET (0..Size-1)
  BY HeaderIs DEF Section
<1>3. ASSUME c.next \in Headers PROVE c.next \notin Dies
  <2>1. c.next \in 0..Size-1
    BY <1>2, <1>3
  <2>2. info[c.next + 1].ab = -1
    BY <1>3, <2>1, HeaderIs DEF Section
  <2> QED
    BY <2>2 DEF Dies
<1>4. Size \notin Dies
  BY <1>2
<1> QED
  BY <1>1, <1>3, <1>4

\* The first DIEs of a CU.
LEMMA CuTop ==
  ASSUME Section, NEW c, Cu(c)
  PROVE  /\ c.off + 1 \in Dies /\ DieAt(c.off + 1).kids \in BOOLEAN
         /\ DieAt(c.off + 1) # NoDie
         /\ SearchDie(c, c.off + 1, FALSE) = DieAt(c.off + 1)
         /\ NoneBefore(c.off) => NoneBefore(c.off + 2)
         /\ ~DieAt(c.off + 1).kids => c.next = c.off + 2
         /\ DieAt(c.off + 1).kids =>
              /\ c.off + 2 \in Dies /\ c.off + 2 \in c.off+1..c.next-1
              /\ Depth(c.off + 2) = 1
              /\ Child(c, DieAt(c.off + 1)) = DieAt(c.off + 2)
              /\ DieAt(c.off + 2) # NoDie
<1>1. /\ c.off \in Nat /\ c.next \in Nat /\ c.off + 1 < c.next /\ c.off \in Headers
      /\ c.next <= Size /\ c.next \in Headers \cup {Size} /\ CuCompiled(c)
  BY CuIs
<1> PICK o : o = c.off + 1
  OBVIOUS
<1>2. o \in Dies /\ o \in c.off+1..c.next-1 /\ o \in c.off+1..c.next /\ o # c.next
  BY <1>1 DEF CuCompiled
<1>3. SearchDie(c, o, FALSE) = DieAt(o)
  BY <1>2, ChildIs
<1>4. DieAt(o).kids \in BOOLEAN /\ DieAt(o).next = o + 1 /\ DieAt(o) # NoDie
  BY <1>2, DieIs
<1>5. Depth(o) = 0 /\ Depth(o + 1) = IF DieAt(o).kids THEN 1 ELSE 0
  BY <1>2, <1>4, DepthStep
<1>6. o + 1 = c.off + 2 /\ o + 1 \in c.off+1..c.next
  BY <1>1, <1>2
<1>7. ~DieAt(o).kids => c.next = o + 1
  <2>1. \A x \in c.off+2..c.next-1 : Depth(x) >= 1
    BY <1>1 DEF CuCompiled
  <2>2. ASSUME ~DieAt(o).kids, c.next # o + 1 PROVE FALSE
    <3>1. o + 1 \in c.off+2..c.next-1
      BY <1>1, <1>6, <2>2
    <3>2. Depth(o + 1) >= 1
      BY <2>1, <3>1
    <3> QED
      BY <1>5, <2>2, <3>2
  <2> QED
    BY <2>2
<1>8. DieAt(o).kids => o + 1 \in Dies
  BY <1>1, <1>6 DEF CuCompiled
<1>9. o + 1 \in Dies => o + 1 # c.next
  BY NextIsNoDie
<1>10. Child(c, DieAt(o)) = IF o + 1 \in Dies THEN DieAt(o + 1) ELSE NoDie
  BY <1>4, <1>6, <1>9, ChildIs DEF Child
<1>11. DieAt(o).kids => o + 1 \in c.off+1..c.next-1 /\ DieAt(o + 1) # NoDie
  <2>1. DieAt(o).kids => o + 1 \in c.off+1..c.next-1
    BY <1>1, <1>6, <1>8, <1>9
  <2> QED
    BY <1>8, <2>1, DieIs
<1>12. NoneBefore(c.off) => NoneBefore(o + 1)
  <2>1. ASSUME NoneBefore(c.off), Readable, NEW x \in Around(addr) PROVE o + 1 <= x
    <3>1. c.off <= x /\ x \notin Headers /\ Depth(x) = 1 /\ x \in 0..Size-1
      BY <2>1, AroundIs DEF NoneBefore
    <3>2. x # c.off /\ x # o
      BY <1>1, <1>5, <3>1
    <3> QED
      BY <1>1, <3>1, <3>2
  <2> QED
    BY <2>1 DEF NoneBefore
<1> QED
  BY <1>2, <1>3, <1>4, <1>5, <1>6, <1>7, <1>8, <1>10, <1>11, <1>12

LEMMA CuDieInv == ASSUME DieInv, CuDie PROVE DieInv'
<1> PICK d : d = SearchDie(cu, cu.off + 1, FALSE)
  OBVIOUS
<1>1. /\ at = "cu_die" /\ info' = info /\ addr' = addr /\ curr_off' = curr_off /\ cu' = cu
      /\ found' = found
      /\ IF d = NoDie \/ ~d.kids THEN at' = "next_cu"
         ELSE at' = "list" /\ die' = IF Child(cu, d) = NoDie THEN die ELSE Child(cu, d)
  BY DEF CuDie, Goto
<1>2. Section /\ found = Unknown
  BY <1>1 DEF DieInv
<1>3. \A p : NoneBefore(p)' = NoneBefore(p)
  BY <1>1, SameNone
<1>4. Section'
  BY <1>1, <1>2, Same
<1>5. CASE cu = BeyondCu /\ curr_off = Size + 2
  <2>1. Size \in Nat
    BY <1>2, HeaderIs DEF Section
  <2>2. EndOf(cu) = Size /\ cu.off + 1 > EndOf(cu)
    BY <1>5, <2>1 DEF BeyondCu, EndOf
  <2>3. d = NoDie
    BY <2>2, SearchIs DEF Searched
  <2>4. at' = "next_cu"
    BY <1>1, <2>3
  <2>5. NoneBefore(Size + 2)
    <3>1. ASSUME NEW o \in Around(addr), Readable PROVE Size <= o
      <4>1. CASE NoneBefore(Size)
        BY <3>1, <4>1 DEF NoneBefore
      <4>2. CASE Cu(cu)
        <5>1. cu.off + 1 < cu.next /\ cu.next <= Size /\ cu.off = Size
          BY <1>2, <1>5, <4>2, CuIs DEF BeyondCu
        <5> QED
          BY <1>2, <2>1, <4>2, <5>1, CuIs
      <4> QED
        BY <1>1, <4>1, <4>2 DEF DieInv
    <3>2. ASSUME NEW o \in Around(addr), Readable PROVE FALSE
      BY <1>2, <2>1, <3>1, <3>2, AroundIs
    <3> QED
      BY <3>2 DEF NoneBefore
  <2>6. NoneBefore(curr_off)'
    <3>1. PICK n : n = Size + 2
      OBVIOUS
    <3>2. NoneBefore(n)'
      BY <1>3, <2>5, <3>1
    <3> QED
      BY <1>1, <1>5, <3>1, <3>2
  <2>7. curr_off' \in (Headers \cup {Size, Size + 2})'
    BY <1>1, <1>5, Same
  <2> QED
    BY <1>1, <1>2, <1>4, <2>4, <2>6, <2>7 DEF DieInv
<1>6. CASE ~(cu = BeyondCu /\ curr_off = Size + 2)
  <2>1. Cu(cu) /\ curr_off = cu.next /\ NoneBefore(cu.off)
    BY <1>1, <1>6 DEF DieInv
  <2> PICK c : c = cu
    OBVIOUS
  <2>2. d = DieAt(c.off + 1) /\ d # NoDie /\ d.kids \in BOOLEAN /\ NoneBefore(c.off + 2)
    BY <1>2, <2>1, CuTop
  <2>3. CASE ~d.kids
    <3>1. at' = "next_cu"
      BY <1>1, <2>3
    <3>2. c.next = c.off + 2 /\ curr_off' = c.next /\ c.next \in Headers \cup {Size}
      BY <1>1, <1>2, <2>1, <2>2, <2>3, CuTop, CuIs
    <3>3. NoneBefore(curr_off)'
      <4>1. PICK n : n = c.off + 2
        OBVIOUS
      <4>2. NoneBefore(n)'
        BY <1>3, <2>2, <4>1
      <4> QED
        BY <3>2, <4>1, <4>2
    <3>4. curr_off' \in (Headers \cup {Size, Size + 2})'
      BY <1>1, <3>2, Same
    <3> QED
      BY <1>1, <1>2, <1>4, <3>1, <3>3, <3>4 DEF DieInv
  <2>4. CASE d.kids
    <3> PICK o : o = c.off + 2
      OBVIOUS
    <3>1. /\ o \in Dies /\ o \in c.off+1..c.next-1 /\ Depth(o) = 1
          /\ Child(c, d) = DieAt(o) /\ DieAt(o) # NoDie
      BY <1>2, <2>1, <2>2, <2>4, CuTop
    <3>2. at' = "list" /\ die' = DieAt(o)
      BY <1>1, <2>2, <2>4, <3>1
    <3>3. Walked(c, DieAt(o)) /\ DieAt(o).off = o
      BY <1>2, <2>1, <3>1, WalkedIs, DieIs
    <3>4. InList'
      <4>1. PICK x : x = die'
        OBVIOUS
      <4>2. Walked(c, x)' /\ Cu(c)' /\ NoneBefore(o)' /\ Depth(o)' = 1
        BY <1>1, <1>3, <2>1, <2>2, <3>1, <3>2, <3>3, <4>1, Same
      <4>3. curr_off' = cu'.next /\ x.off = o /\ cu' = c
        BY <1>1, <2>1, <3>2, <3>3, <4>1
      <4> QED
        BY <4>1, <4>2, <4>3 DEF InList
    <3> QED
      BY <1>1, <1>2, <1>4, <3>2, <3>4 DEF DieInv
  <2> QED
    BY <2>2, <2>3, <2>4
<1> QED
  BY <1>5, <1>6

LEMMA WalkedContains ==
  ASSUME NEW c, NEW d, Walked(c, d), NEW a
  PROVE  ContainsAddr(d, a) <=> ContainsAddr(DieAt(d.off), a)
<1>1. d.tag = DieAt(d.off).tag /\ d.attrs = DieAt(d.off).attrs
  BY DEF Walked
<1> QED
  BY <1>1 DEF ContainsAddr, HasAttr, Attr

\* What does not change while a function is looked at.
LEMMA InListSame ==
  ASSUME InList, UNCHANGED <<info, addr, curr_off, cu, die>>
  PROVE  InList'
<1>1. PICK c, d, p : c = cu /\ d = die /\ p = die.off
  OBVIOUS
<1>2. /\ Cu(c)' = Cu(c) /\ Walked(c, d)' = Walked(c, d) /\ NoneBefore(p)' = NoneBefore(p)
      /\ Depth(p)' = Depth(p) /\ Readable' = Readable
  BY Same, SameNone
<1> QED
  BY <1>1, <1>2 DEF InList

LEMMA ArgsSame ==
  ASSUME UNCHANGED <<info, cu>>
  PROVE  \A d : TypeOf(d)' = TypeOf(d)
  BY SearchStutters DEF TypeOf

\* The parameters counted are none.
LEMMA NoneCounted ==
  ASSUME Section, InList, ContainsAddr(die, addr)
  PROVE  /\ ~die.err /\ die.kids /\ Child(cu, die).tag = "formal_parameter" =>
              /\ IsArg(die.off + 1) /\ die.off + 1 \in cu.off+1..cu.next-1
              /\ Child(cu, die) = DieAt(die.off + 1)
         /\ ~die.err /\ ~(die.kids /\ Child(cu, die).tag = "formal_parameter") =>
              Cardinality(LeadingArgs(die.off)) = 0
<1> PICK c, d, p : c = cu /\ d = die /\ p = die.off
  OBVIOUS
<1>1. Cu(c) /\ Walked(c, d) /\ p \in Dies /\ p \in c.off+1..c.next-1
  BY DEF InList, Walked
<1>2. c.off \in Nat /\ c.next \in Nat /\ c.next \in Headers \cup {Size} /\ p \in Nat
  BY <1>1, CuIs
<1>3. SUFFICES ASSUME ~d.err
      PROVE  /\ d.kids /\ Child(c, d).tag = "formal_parameter" =>
                  /\ IsArg(p + 1) /\ p + 1 \in c.off+1..c.next-1
                  /\ Child(c, d) = DieAt(p + 1)
             /\ ~(d.kids /\ Child(c, d).tag = "formal_parameter") =>
                  Cardinality(LeadingArgs(p)) = 0
  OBVIOUS
<1>4. d = DieAt(p) /\ d.next = p + 1 /\ p + 1 \in c.off+1..c.next
  BY <1>1, <1>2, <1>3, DieIs DEF Walked
<1>5. Child(c, d) = IF p + 1 # c.next /\ p + 1 \in Dies THEN DieAt(p + 1) ELSE NoDie
  BY <1>1, <1>4, ChildIs DEF Child
<1>6. NoDie.tag = "none"
  BY DEF NoDie
<1>7. DieCompiled(p) /\ CuOf(p) = c
  <2>1. p \in c.off+1..c.next
    BY <1>1, <1>2
  <2> QED
    BY <1>1, <2>1, AbbrevIs, CuOfIs
<1>8. d.kids /\ p + 1 \in Dies => ~DieAt(p + 1).err
  BY <1>4, <1>7 DEF DieCompiled
<1>9. ASSUME d.kids, Child(c, d).tag = "formal_parameter"
      PROVE  IsArg(p + 1) /\ p + 1 \in c.off+1..c.next-1 /\ Child(c, d) = DieAt(p + 1)
  <2>1. p + 1 # c.next /\ p + 1 \in Dies /\ Child(c, d) = DieAt(p + 1)
    BY <1>5, <1>6, <1>9
  <2>2. p + 1 \in c.off+1..c.next-1
    BY <1>2, <1>4, <2>1
  <2>3. DieAt(p + 1).tag = "formal_parameter" /\ ~DieAt(p + 1).err
    BY <1>8, <1>9, <2>1
  <2> QED
    BY <2>1, <2>2, <2>3 DEF IsArg
<1>10. ASSUME ~(d.kids /\ Child(c, d).tag = "formal_parameter")
       PROVE  Cardinality(LeadingArgs(p)) = 0
  <2>1. ASSUME d.kids, IsArg(p + 1) PROVE FALSE
    <3>1. p + 1 \in Dies /\ DieAt(p + 1).tag = "formal_parameter"
      BY <2>1 DEF IsArg
    <3>2. c.next \notin Dies
      BY <1>1, NextIsNoDie
    <3> QED
      BY <1>5, <1>10, <2>1, <3>1, <3>2
  <2>2. ~(DieAt(p).kids /\ IsArg(p + 0 + 1)) /\ \A x \in p+1..p+0 : IsArg(x)
    BY <1>2, <1>4, <2>1
  <2> QED
    BY <1>2, <2>2, LeadingArgsAre
<1> QED
  BY <1>9, <1>10

LEMMA ListFuncInv == ASSUME DieInv, ListFunc PROVE DieInv'
<1>1. /\ at = "list" /\ info' = info /\ addr' = addr /\ curr_off' = curr_off /\ cu' = cu
      /\ die' = die
      /\ IF ContainsAddr(die, addr)
         THEN /\ found' = [fn |-> die.off, sizes |-> << >>]
              /\ IF (IF die.kids THEN Child(cu, die) ELSE NoDie).tag = "formal_parameter"
                 THEN arg' = (IF die.kids THEN Child(cu, die) ELSE NoDie) /\ at' = "arg"
                 ELSE at' = "found"
         ELSE at' = "sibling" /\ found' = found
  BY DEF ListFunc, Goto
<1>2. Section /\ InList /\ found = Unknown /\ die.kids \in BOOLEAN
  <2>1. Section /\ InList /\ found = Unknown
    BY <1>1 DEF DieInv
  <2>2. die.kids \in BOOLEAN
    BY <2>1, DieIs DEF InList, Walked
  <2> QED
    BY <2>1, <2>2
<1>3. InList' /\ Section'
  BY <1>1, <1>2, InListSame, Same
<1>4. CASE ContainsAddr(die, addr)
  <2>1. found' = [fn |-> die.off, sizes |-> << >>]
    BY <1>1, <1>4
  <2>2. Counted' = 0 /\ found'.fn = die.off /\ found'.sizes = << >>
    BY <2>1 DEF Counted
  <2>3. die.off \in Nat
    BY <1>2, HeaderIs DEF InList, Walked, Section
  <2>4. InFunction'
    <3>1. ContainsAddr(DieAt(die.off), addr)
      BY <1>2, <1>4, WalkedContains DEF InList
    <3>2. PICK p, a, x : p = die.off /\ a = addr /\ x = DieAt(die.off)
      OBVIOUS
    <3>3. ContainsAddr(x, a)' /\ DieAt(p)' = x
      BY <1>1, <3>1, <3>2, Same DEF ContainsAddr, HasAttr, Attr
    <3>4. ContainsAddr(DieAt(die.off), addr)'
      BY <1>1, <3>2, <3>3
    <3>5. found'.sizes \in Seq({})
      BY <2>2
    <3>6. \A y \in die'.off+1..die'.off+Counted' : FALSE
      BY <1>1, <2>2, <2>3
    <3>7. /\ found'.fn = die'.off /\ found' = [fn |-> found'.fn, sizes |-> found'.sizes]
          /\ ~(Counted' > 0)
      BY <1>1, <2>1, <2>2
    <3> QED
      BY <3>4, <3>5, <3>6, <3>7 DEF InFunction
  <2>5. Sized'
    <3>1. \A k \in 1..Counted' : FALSE
      BY <2>2
    <3> QED
      BY <3>1 DEF Sized
  <2>6. CASE die.kids /\ Child(cu, die).tag = "formal_parameter"
    <3>1. at' = "arg" /\ arg' = Child(cu, die)
      BY <1>1, <1>4, <2>6
    <3>2. AtArg'
      <4>1. PICK x : x = die.off + 1
        OBVIOUS
      <4>2. ~die.err => IsArg(x) /\ x \in cu.off+1..cu.next-1 /\ arg' = DieAt(x)
        BY <1>2, <1>4, <2>6, <3>1, <4>1, NoneCounted
      <4>3. IsArg(x)' = IsArg(x) /\ DieAt(x)' = DieAt(x)
        BY <1>1, Same
      <4>4. die'.off + Counted' + 1 = x
        BY <1>1, <2>2, <2>3, <4>1
      <4> QED
        BY <1>1, <2>6, <4>2, <4>3, <4>4 DEF AtArg
    <3> QED
      BY <1>3, <2>4, <2>5, <3>1, <3>2 DEF DieInv
  <2>7. CASE ~(die.kids /\ Child(cu, die).tag = "formal_parameter")
    <3>1. at' = "found"
      BY <1>1, <1>2, <1>4, <2>7 DEF NoDie
    <3>2. ~die'.err => Cardinality(LeadingArgs(die.off))' = Counted'
      <4>1. ~die.err => Cardinality(LeadingArgs(die.off)) = 0
        BY <1>2, <1>4, <2>7, NoneCounted
      <4>2. PICK p : p = die.off
        OBVIOUS
      <4>3. LeadingArgs(p)' = LeadingArgs(p)
        BY <1>1, Same
      <4> QED
        BY <1>1, <2>2, <4>1, <4>2, <4>3
    <3> QED
      BY <1>3, <2>4, <2>5, <3>1, <3>2 DEF DieInv
  <2> QED
    BY <2>6, <2>7
<1>5. CASE ~ContainsAddr(die, addr)
  <2>1. at' = "sibling" /\ found' = Unknown
    BY <1>1, <1>2, <1>5 DEF Unknown
  <2>2. NoneBefore(die.off + 1)
    <3>1. ASSUME Readable, NEW o \in Around(addr) PROVE die.off + 1 <= o
      <4>1. die.off <= o /\ o \in 0..Size-1 /\ ContainsAddr(DieAt(o), addr)
        BY <1>2, <3>1, AroundIs DEF InList, NoneBefore
      <4>2. o # die.off
        BY <1>2, <1>5, <4>1, WalkedContains DEF InList
      <4>3. die.off \in Nat /\ Size \in Nat
        BY <1>2, HeaderIs DEF InList, Walked, Section
      <4> QED
        BY <4>1, <4>2, <4>3
    <3> QED
      BY <3>1 DEF NoneBefore
  <2>3. NoneBefore(die.off + 1)'
    <3>1. PICK n : n = die.off + 1
      OBVIOUS
    <3>2. NoneBefore(n)'
      BY <1>1, <2>2, <3>1, SameNone
    <3> QED
      BY <1>1, <3>1, <3>2
  <2> QED
    BY <1>3, <2>1, <2>3 DEF DieInv, Unknown
<1> QED
  BY <1>4, <1>5

\* A readable list of children, from one of its DIEs to the next.
LEMMA NextInList ==
  ASSUME Section, Readable, NEW c, Cu(c), NEW p, Top(c, p), NoneBefore(p + 1)
  PROVE  \/ SiblingOf(c, DieAt(p)) = NoDie /\ NoneBefore(c.next)
         \/ \E s \in Dies : /\ s \in c.off+1..c.next-1 /\ Depth(s) = 1
                            /\ SiblingOf(c, DieAt(p)) = DieAt(s) /\ NoneBefore(s)
<1>1. PICK s \in p+1..c.next-1 :
        /\ Depth(s) = 1 /\ \A x \in p+1..s-1 : Depth(x) > 1
        /\ SiblingOf(c, DieAt(p)) = IF s \in Dies THEN DieAt(s) ELSE NoDie
  BY SiblingIs
<1>2. /\ c.off \in Nat /\ c.next \in Nat /\ p \in Nat /\ p \in c.off+1..c.next-1
      /\ c.next <= Size /\ Size \in Nat /\ CuCompiled(c)
  BY CuIs, HeaderIs DEF Top, Section
<1>3. s \in c.off+1..c.next-1
  BY <1>2
<1>4. ASSUME NEW o \in Around(addr) PROVE s <= o
  <2>1. p + 1 <= o /\ Depth(o) = 1 /\ o \in 0..Size-1
    BY AroundIs DEF NoneBefore
  <2>2. o \notin p+1..s-1
    <3>1. ASSUME o \in p+1..s-1 PROVE FALSE
      <4>1. Depth(o) > 1
        BY <1>1, <3>1
      <4> QED
        BY <2>1, <4>1
    <3> QED
      BY <3>1
  <2> QED
    BY <1>2, <2>1, <2>2
<1>5. CASE s \in Dies
  BY <1>1, <1>3, <1>4, <1>5 DEF NoneBefore
<1>6. CASE s \notin Dies
  <2>1. Depth(s + 1) = 0
    BY <1>1, <1>3, <1>6, DepthStep
  <2>2. s + 1 = c.next
    <3>1. ASSUME s + 1 # c.next PROVE FALSE
      <4>1. s + 1 \in c.off+2..c.next-1
        BY <1>2, <1>3, <3>1
      <4>2. Depth(s + 1) >= 1
        BY <1>2, <4>1 DEF CuCompiled
      <4> QED
        BY <2>1, <4>2
    <3> QED
      BY <3>1
  <2>3. ASSUME NEW o \in Around(addr) PROVE c.next <= o
    <3>1. s <= o /\ o \in Dies /\ o \in 0..Size-1
      BY <1>4, AroundIs
    <3>2. o # s
      BY <1>6, <3>1
    <3> QED
      BY <1>2, <1>3, <2>2, <3>1, <3>2
  <2> QED
    BY <1>1, <1>6, <2>3 DEF NoneBefore
<1> QED
  BY <1>5, <1>6

LEMMA NextSiblingInv == ASSUME DieInv, NextSibling PROVE DieInv'
<1> PICK d : d = SiblingOf(cu, die)
  OBVIOUS
<1>1. /\ at = "sibling" /\ info' = info /\ addr' = addr /\ curr_off' = curr_off /\ cu' = cu
      /\ found' = found
      /\ \/ d = NoDie /\ at' = "next_cu"
         \/ /\ d # NoDie /\ at' = "list"
            /\ die' = IF d.err THEN [d EXCEPT !.next = NextLeft(cu, die, d)] ELSE d
  BY DEF NextSibling, Goto
<1>2. Section /\ InList /\ found = Unknown /\ NoneBefore(die.off + 1)
  BY <1>1 DEF DieInv
<1>3. Section' /\ \A p : NoneBefore(p)' = NoneBefore(p)
  BY <1>1, <1>2, Same, SameNone
<1> PICK c, e, p : c = cu /\ e = die /\ p = die.off
  OBVIOUS
<1>4. /\ Cu(c) /\ Walked(c, e) /\ p \in Dies /\ p \in c.off+1..c.next-1
      /\ Readable => Depth(p) = 1
  BY <1>2 DEF InList, Walked
<1>5. Readable => e = DieAt(p) /\ Top(c, p)
  BY <1>4 DEF Walked, Readable, Top
<1>6. Readable =>
        \/ d = NoDie /\ NoneBefore(c.next)
        \/ \E s \in Dies : /\ s \in c.off+1..c.next-1 /\ Depth(s) = 1
                           /\ d = DieAt(s) /\ NoneBefore(s)
  BY <1>2, <1>4, <1>5, NextInList
<1>7. \/ d = NoDie
      \/ \E r \in Dies : r \in c.off+1..c.next-1 /\ d = DieAt(r)
  BY <1>2, <1>4, SiblingWalked
<1>8. CASE d = NoDie
  <2>1. at' = "next_cu"
    BY <1>1, <1>8
  <2>2. NoneBefore(c.next)
    <3>1. ASSUME Readable PROVE NoneBefore(c.next)
      <4>1. ASSUME NEW s \in Dies, s \in c.off+1..c.next-1, d = DieAt(s) PROVE FALSE
        BY <1>2, <1>4, <1>8, <4>1, DieIs
      <4> QED
        BY <1>6, <3>1, <4>1
    <3> QED
      BY <3>1 DEF NoneBefore
  <2>3. curr_off' = c.next /\ c.next \in Headers \cup {Size}
    BY <1>1, <1>2, <1>4, CuIs DEF InList
  <2>4. NoneBefore(curr_off)'
    <3>1. PICK n : n = c.next
      OBVIOUS
    <3>2. NoneBefore(n)'
      BY <1>3, <2>2, <3>1
    <3> QED
      BY <2>3, <3>1, <3>2
  <2>5. curr_off' \in (Headers \cup {Size, Size + 2})'
    BY <1>1, <2>3, Same
  <2> QED
    BY <1>1, <1>2, <1>3, <2>1, <2>4, <2>5 DEF DieInv, Unknown
<1>9. CASE d # NoDie
  <2>1. PICK r \in Dies : r \in c.off+1..c.next-1 /\ d = DieAt(r)
    BY <1>7, <1>9
  <2>2. at' = "list" /\ die' = IF d.err THEN [d EXCEPT !.next = NextLeft(cu, die, d)] ELSE d
    BY <1>1, <1>9
  <2>3. Readable => Depth(r) = 1 /\ NoneBefore(r)
    <3>1. ASSUME Readable PROVE Depth(r) = 1 /\ NoneBefore(r)
      <4>1. PICK s \in Dies : /\ s \in c.off+1..c.next-1 /\ Depth(s) = 1
                              /\ d = DieAt(s) /\ NoneBefore(s)
        BY <1>6, <1>9, <3>1
      <4>2. DieAt(s).off = s /\ DieAt(r).off = r
        BY <1>2, <1>4, <2>1, <4>1, DieIs
      <4> QED
        BY <2>1, <4>1, <4>2
    <3> QED
      BY <3>1
  <2> PICK d2 : d2 = die'
    OBVIOUS
  <2>4. Walked(c, d2) /\ d2.off = r
    <3>1. CASE d.err
      <4>1. PICK n : n = NextLeft(cu, die, d)
        OBVIOUS
      <4>2. n \in c.off+1..c.next
        BY <1>2, <1>4, <2>1, <4>1, NextLeftIs
      <4>3. d2 = [DieAt(r) EXCEPT !.next = n]
        BY <2>1, <2>2, <3>1, <4>1
      <4>4. Walked(c, d2)
        BY <1>2, <1>4, <2>1, <3>1, <4>2, <4>3, WalkedIs
      <4>5. DieAt(r) = ReadDie(c, r)
        BY <1>2, <1>4, <2>1, DieIs
      <4>6. d2.off = r
        BY <4>3, <4>5 DEF ReadDie
      <4> QED
        BY <4>4, <4>6
    <3>2. CASE ~d.err
      BY <1>2, <1>4, <2>1, <2>2, <3>2, WalkedIs, DieIs
    <3> QED
      BY <3>1, <3>2
  <2>5. InList'
    <3>1. Walked(c, d2)' /\ Cu(c)'
      BY <1>1, <1>4, <2>4, Same
    <3>2. Readable' = Readable /\ Depth(r)' = Depth(r) /\ NoneBefore(r)' = NoneBefore(r)
      BY <1>1, <1>3, Same
    <3>3. Readable' => Depth(r)' = 1
      BY <2>3, <3>2
    <3>4. NoneBefore(r)'
      <4>1. CASE Readable
        BY <2>3, <3>2, <4>1
      <4>2. CASE ~Readable
        BY <3>2, <4>2 DEF NoneBefore
      <4> QED
        BY <4>1, <4>2
    <3>5. curr_off' = cu'.next /\ die' = d2 /\ cu' = c
      BY <1>1, <1>2 DEF InList
    <3> QED
      BY <2>4, <3>1, <3>3, <3>4, <3>5 DEF InList
  <2> QED
    BY <1>1, <1>2, <1>3, <2>2, <2>5 DEF DieInv, Unknown
<1> QED
  BY <1>8, <1>9

LEMMA AppendAny ==
  ASSUME NEW S, NEW s \in Seq(S), NEW e
  PROVE  /\ Append(s, e) \in Seq(S \cup {e}) /\ Len(Append(s, e)) = Len(s) + 1
         /\ Append(s, e)[Len(s) + 1] = e
         /\ \A k \in 1..Len(s) : Append(s, e)[k] = s[k]
<1>1. s \in Seq(S \cup {e})
  OBVIOUS
<1>2. e \in S \cup {e}
  OBVIOUS
<1> PICK T : T = S \cup {e}
  OBVIOUS
<1>3. s \in Seq(T) /\ e \in T
  BY <1>1, <1>2
<1>4. Append(s, e) \in Seq(T) /\ Len(Append(s, e)) = Len(s) + 1
      /\ Append(s, e)[Len(s) + 1] = e /\ \A k \in 1..Len(s) : Append(s, e)[k] = s[k]
  BY <1>3
<1> QED
  BY <1>4

\* The parameter behind one.
LEMMA NextArgIs ==
  ASSUME Section, NEW c, Cu(c), NEW x, IsArg(x), x \in c.off+1..c.next-1
  PROVE  LET e == SiblingOf(c, DieAt(x))
         IN /\ e.tag = "formal_parameter" /\ ~e.err =>
                 IsArg(x + 1) /\ x + 1 \in c.off+1..c.next-1 /\ e = DieAt(x + 1)
            /\ ~(e.tag = "formal_parameter" /\ ~e.err) => ~IsArg(x + 1)
<1> PICK e : e = SiblingOf(c, DieAt(x))
  OBVIOUS
<1>1. x \in Dies /\ DieAt(x).tag = "formal_parameter" /\ c.off \in Nat /\ c.next \in Nat
  BY CuIs DEF IsArg
<1>2. DieCompiled(x) /\ CuOf(x) = c /\ DieAt(x).next = x + 1
  <2>1. x \in c.off+1..c.next
    BY <1>1
  <2> QED
    BY <1>1, <2>1, AbbrevIs, CuOfIs, DieIs
<1>3. ~DieAt(x).kids
  BY <1>1, <1>2 DEF DieCompiled
<1>4. e = SearchDie(c, x + 1, FALSE)
  BY <1>2, <1>3 DEF SiblingOf, SiblingFrom
<1>5. x + 1 \in c.off+1..c.next
  BY <1>1
<1>6. e = IF x + 1 # c.next /\ x + 1 \in Dies THEN DieAt(x + 1) ELSE NoDie
  BY <1>4, <1>5, ChildIs
<1>7. c.next \notin Dies /\ NoDie.tag = "none"
  BY NextIsNoDie DEF NoDie
<1>8. CASE x + 1 \in Dies
  <2>1. x + 1 # c.next /\ e = DieAt(x + 1)
    BY <1>6, <1>7, <1>8
  <2>2. x + 1 \in c.off+1..c.next-1
    BY <1>1, <1>5, <2>1
  <2>3. IsArg(x + 1) <=> e.tag = "formal_parameter" /\ ~e.err
    BY <1>8, <2>1 DEF IsArg
  <2> QED
    BY <2>1, <2>2, <2>3
<1>9. CASE x + 1 \notin Dies
  <2>1. e.tag = "none" /\ ~IsArg(x + 1)
    BY <1>6, <1>7, <1>9 DEF IsArg
  <2> QED
    BY <2>1
<1> QED
  BY <1>8, <1>9

LEMMA NextArgInv == ASSUME DieInv, NextArg PROVE DieInv'
<1> PICK e, r, n, p, c : /\ e = SiblingOf(cu, arg) /\ r = ret_val' /\ n = Counted /\ p = die.off
                      /\ c = cu
  OBVIOUS
<1>1. /\ at = "arg" /\ info' = info /\ addr' = addr /\ curr_off' = curr_off /\ cu' = cu
      /\ die' = die
      /\ r = IF found.sizes = << >> THEN ChainSize(arg) ELSE DirectSize(arg)
      /\ found' = [found EXCEPT !.sizes = Append(@, r)]
      /\ IF e.tag = "formal_parameter" /\ ~e.err THEN arg' = e /\ at' = "arg"
         ELSE at' = "found"
  BY DEF NextArg, Goto
<1>2. Section /\ InList /\ InFunction /\ Sized /\ AtArg
  BY <1>1 DEF DieInv
<1>3. InList' /\ Section'
  BY <1>1, <1>2, InListSame, Same
<1>4. PICK fs, S : fs = found.sizes /\ fs \in Seq(S) /\ found = [fn |-> p, sizes |-> fs]
  BY <1>2 DEF InFunction
<1>5. n \in Nat /\ n = Len(fs) /\ p \in Nat /\ Cu(c) /\ p \in Dies /\ Walked(c, die)
  <2>1. p \in Dies /\ Cu(c) /\ Walked(c, die)
    BY <1>2 DEF InList, Walked
  <2>2. p \in Nat
    BY <1>2, <2>1, HeaderIs DEF Section
  <2> QED
    BY <1>4, <2>1, <2>2 DEF Counted
<1>6. found' = [fn |-> p, sizes |-> Append(fs, r)]
  <2>1. PICK q, z : q = Append(fs, r) /\ z = found
    OBVIOUS
  <2>2. found' = [z EXCEPT !.sizes = Append(@, r)] /\ z = [fn |-> p, sizes |-> fs]
    BY <1>1, <1>4, <2>1
  <2>3. [z EXCEPT !.sizes = Append(@, r)] = [fn |-> p, sizes |-> q]
    <3>1. Append(z.sizes, r) = q
      BY <2>1, <2>2
    <3>2. PICK y : y = Append(z.sizes, r)
      OBVIOUS
    <3>3. [z EXCEPT !.sizes = y] = [fn |-> p, sizes |-> y]
      BY <2>2
    <3> QED
      BY <3>1, <3>2, <3>3, Zenon
  <2> QED
    BY <2>1, <2>2, <2>3
<1>7. found'.fn = p /\ found'.sizes = Append(fs, r)
  BY <1>6
<1>8. /\ Append(fs, r) \in Seq(S \cup {r}) /\ Len(Append(fs, r)) = n + 1
      /\ Append(fs, r)[n + 1] = r /\ \A k \in 1..n : Append(fs, r)[k] = fs[k]
  BY <1>4, <1>5, AppendAny
<1>9. Counted' = n + 1
  BY <1>7, <1>8 DEF Counted
<1> PICK x : x = p + n + 1
  OBVIOUS
<1>10. ~die.err => die.kids /\ IsArg(x) /\ x \in c.off+1..c.next-1 /\ arg = DieAt(x)
  BY <1>2 DEF AtArg
<1>11. ~die.err => \A y \in p+1..p+n : IsArg(y) /\ y \in c.off+1..c.next-1
  BY <1>2 DEF InFunction
<1>12. ~die.err => \A y \in p+1..p+(n+1) : IsArg(y) /\ y \in c.off+1..c.next-1
  <2>1. \A y \in p+1..p+(n+1) : y \in p+1..p+n \/ y = x
    BY <1>5
  <2> QED
    BY <1>10, <1>11, <2>1
<1>13. \A y : IsArg(y)' = IsArg(y) /\ DieAt(y)' = DieAt(y)
  BY <1>1, Same
<1>14. InFunction'
  <2>1. ContainsAddr(DieAt(p), addr)
    BY <1>2 DEF InFunction
  <2>2. PICK a, t : a = addr /\ t = DieAt(p)
    OBVIOUS
  <2>3. ContainsAddr(t, a)' /\ DieAt(p)' = t
    BY <1>13, <2>1, <2>2 DEF ContainsAddr, HasAttr, Attr
  <2>4. ContainsAddr(DieAt(die.off), addr)'
    BY <1>1, <2>2, <2>3
  <2>5. ~die'.err => \A y \in die'.off+1..die'.off+Counted' : IsArg(y)' /\ y \in cu'.off+1..cu'.next-1
    BY <1>1, <1>9, <1>12, <1>13
  <2>6. ~die'.err => die'.kids
    BY <1>1, <1>10
  <2>7. found'.fn = die'.off /\ found' = [fn |-> found'.fn, sizes |-> found'.sizes]
    BY <1>1, <1>6, <1>7
  <2>8. found'.sizes \in Seq(S \cup {r})
    BY <1>7, <1>8
  <2>9. (\E T : found.sizes \in Seq(T))'
    BY <2>8
  <2> QED
    BY <2>4, <2>5, <2>6, <2>7, <2>9 DEF InFunction
<1>15. ASSUME ~die.err, NEW k \in 1..n+1, HasAttr(DieAt(p + k), "type"),
              HasAttr(TypeOf(DieAt(p + k)), "byte_size")
       PROVE  Append(fs, r)[k] = Attr(TypeOf(DieAt(p + k)), "byte_size")
  <2>1. CASE k \in 1..n
    <3>1. fs[k] = Attr(TypeOf(DieAt(p + k)), "byte_size")
      BY <1>2, <1>4, <1>15, <2>1 DEF Sized
    <3> QED
      BY <1>8, <2>1, <3>1
  <2>2. CASE k = n + 1
    <3>1. p + k = x
      BY <1>5, <2>2
    <3>2. x \in Dies /\ x \in c.off+1..c.next-1 /\ arg = DieAt(x)
      BY <1>10, <1>15 DEF IsArg
    <3>3. /\ ChainSize(DieAt(x)) = Attr(TypeOf(DieAt(x)), "byte_size")
          /\ DirectSize(DieAt(x)) = Attr(TypeOf(DieAt(x)), "byte_size")
      BY <1>2, <1>5, <1>15, <3>1, <3>2, PlainSize
    <3>4. r = Attr(TypeOf(DieAt(x)), "byte_size")
      BY <1>1, <3>2, <3>3
    <3> QED
      BY <1>8, <2>2, <3>1, <3>4
  <2> QED
    BY <1>5, <2>1, <2>2
<1>16. Sized'
  <2>1. \A t : TypeOf(t)' = TypeOf(t)
    BY <1>1, ArgsSame
  <2> QED
    BY <1>1, <1>7, <1>9, <1>13, <1>15, <2>1 DEF Sized
<1>17. CASE e.tag = "formal_parameter" /\ ~e.err
  <2>1. at' = "arg" /\ arg' = e
    BY <1>1, <1>17
  <2>2. ~die.err => IsArg(x + 1) /\ x + 1 \in c.off+1..c.next-1 /\ e = DieAt(x + 1)
    BY <1>2, <1>5, <1>10, <1>17, NextArgIs
  <2>3. die'.off + Counted' + 1 = x + 1
    BY <1>1, <1>5, <1>9
  <2>4. AtArg'
    BY <1>1, <1>10, <1>13, <2>1, <2>2, <2>3 DEF AtArg
  <2> QED
    BY <1>3, <1>14, <1>16, <2>1, <2>4 DEF DieInv
<1>18. CASE ~(e.tag = "formal_parameter" /\ ~e.err)
  <2>1. at' = "found"
    BY <1>1, <1>18
  <2>2. ~die.err => Cardinality(LeadingArgs(p)) = n + 1
    <3>1. ASSUME ~die.err PROVE Cardinality(LeadingArgs(p)) = n + 1
      <4>1. ~IsArg(x + 1)
        BY <1>2, <1>5, <1>10, <1>18, <3>1, NextArgIs
      <4>2. p + (n + 1) + 1 = x + 1 /\ n + 1 \in Nat
        BY <1>5
      <4>3. DieAt(p).kids
        BY <1>5, <1>10, <3>1 DEF Walked
      <4> QED
        BY <1>2, <1>5, <1>12, <3>1, <4>1, <4>2, <4>3, LeadingArgsAre
    <3> QED
      BY <3>1
  <2>3. ~die'.err => Cardinality(LeadingArgs(die.off))' = Counted'
    <3>1. LeadingArgs(p)' = LeadingArgs(p)
      BY <1>1, Same
    <3> QED
      BY <1>1, <1>9, <2>2, <3>1
  <2> QED
    BY <1>3, <1>14, <1>16, <2>1, <2>3 DEF DieInv
<1> QED
  BY <1>17, <1>18

LEMMA DieNextInv == ASSUME DieInv, DieNext PROVE DieInv'
  BY NextCuInv, NextCuBeyondInv, NoMoreCusInv, CuDieInv, ListFuncInv, NextSiblingInv, NextArgInv
  DEF DieNext

LEMMA FirstCu == ASSUME Section PROVE 0 \in Headers /\ NoneBefore(0)
<1>1. \A o \in Around(addr) : 0 <= o
  BY AroundIs
<1> QED
  BY <1>1 DEF Section, Compiled, NoneBefore

LEMMA DieCallInv == ASSUME Section, NEW a, DieCall(a) PROVE DieInv'
<1>1. info' = info /\ at' = "next_cu" /\ curr_off' = 0 /\ found' = Unknown /\ addr' = a
  BY DEF DieCall
<1>2. Section' /\ Headers' = Headers
  BY <1>1, Same
<1>3. 0 \in Headers
  BY FirstCu
<1>4. NoneBefore(0)'
  <2>1. \A o \in Around(a) : 0 <= o
    <3>1. Dies \in SUBSET (0..Size-1)
      BY HeaderIs DEF Section
    <3> QED
      BY <3>1 DEF Around
  <2>2. Around(a)' = Around(a)
    BY <1>1, Same
  <2>3. PICK b : b = a
    OBVIOUS
  <2>4. (\A o \in Around(addr) : 0 <= o)'
    BY <1>1, <2>1, <2>2
  <2> QED
    BY <2>4 DEF NoneBefore
<1>5. curr_off' \in (Headers \cup {Size, Size + 2})' /\ NoneBefore(curr_off)'
  BY <1>1, <1>2, <1>3, <1>4
<1> QED
  BY <1>1, <1>2, <1>5 DEF DieInv, Unknown

LEMMA DieIdleInv == ASSUME Section, DieIdle PROVE DieInv'
<1>1. info' = info /\ at' = "idle" /\ found' = Unknown
  BY DEF DieIdle
<1>2. Section'
  BY <1>1, Same
<1> QED
  BY <1>1, <1>2 DEF DieInv, Unknown

LEMMA DieStutters == ASSUME DieInv, UNCHANGED dieVars PROVE DieInv'
<1>1. /\ info' = info /\ addr' = addr /\ at' = at /\ curr_off' = curr_off /\ cu' = cu
      /\ die' = die /\ arg' = arg /\ found' = found /\ UNCHANGED <<info, addr>>
      /\ UNCHANGED <<info, cu>>
  BY DEF dieVars
<1>2. \A p : NoneBefore(p)' = NoneBefore(p)
  BY <1>1, SameNone
<1>3. PICK c, d, n, r, s : c = cu /\ d = die /\ n = curr_off /\ r = arg /\ s = found
  OBVIOUS
<1>4. /\ Section' = Section /\ Size' = Size /\ Headers' = Headers /\ BeyondCu' = BeyondCu
      /\ Cu(c)' = Cu(c) /\ \A o : IsArg(o)' = IsArg(o) /\ DieAt(o)' = DieAt(o)
      /\ \A f : LeadingArgs(f)' = LeadingArgs(f)
  BY <1>1, Same
<1>5. InList => InList'
  BY <1>1, InListSame
<1>6. InFunction => InFunction'
  <2>1. \A x, a : ContainsAddr(x, a)' = ContainsAddr(x, a)
    BY DEF ContainsAddr, HasAttr, Attr
  <2> QED
    BY <1>1, <1>4 DEF InFunction, Counted, ContainsAddr, HasAttr, Attr
<1>7. Sized => Sized'
  <2>1. \A t : TypeOf(t)' = TypeOf(t)
    BY <1>1, ArgsSame
  <2> QED
    BY <1>1, <1>4, <2>1 DEF Sized, Counted
<1>8. AtArg => AtArg'
  BY <1>1, <1>4 DEF AtArg, Counted
<1>9. Counted' = Counted
  BY <1>1 DEF Counted
<1> QED
  BY <1>1, <1>2, <1>3, <1>4, <1>5, <1>6, <1>7, <1>8, <1>9 DEF DieInv, Unknown

(* debuginfo_rip: the walk and the line program together. *)

DebugInv ==
  /\ DieInv /\ LineInv /\ pc = addr
  /\ found = Unknown => ln_at = "call"

\* What the walk has when it ends.
LEMMA FoundIs ==
  ASSUME DieInv, at \in {"arg", "found"}
  PROVE  /\ found.fn \in Dies /\ found.fn \in Nat /\ found # Unknown
         /\ ContainsAddr(DieAt(found.fn), addr)
         /\ Readable => found.fn = FunctionAt(addr)
<1>1. Section /\ InList /\ InFunction
  BY DEF DieInv
<1> PICK p : p = die.off
  OBVIOUS
<1>2. p \in Dies /\ found.fn = p /\ ContainsAddr(DieAt(p), addr)
  BY <1>1 DEF InList, Walked, InFunction
<1>3. p \in Nat /\ Unknown.fn = -1
  BY <1>1, <1>2, HeaderIs DEF Section, Unknown
<1>4. ASSUME Readable PROVE p = FunctionAt(addr)
  <2>1. Depth(p) = 1 /\ \A o \in Around(addr) : p <= o
    BY <1>1, <1>4 DEF InList, NoneBefore
  <2>2. p \in Around(addr)
    BY <1>2, <2>1 DEF Around
  <2>3. \A o \in Around(addr) : o \in Int
    BY <1>1, AroundIs
  <2>4. Around(addr) \subseteq Int
    BY <2>3
  <2>5. Min(Around(addr)) = p
    BY <2>1, <2>2, <2>4, MinIs
  <2> QED
    BY <2>2, <2>5 DEF FunctionAt
<1> QED
  BY <1>2, <1>3, <1>4

LEMMA UnknownIs ==
  ASSUME DieInv, at = "unknown", Readable
  PROVE  Around(addr) = {} /\ FunctionAt(addr) = -1
<1>1. Section /\ NoneBefore(Size)
  BY DEF DieInv
<1>2. Size \in Nat
  BY <1>1, HeaderIs DEF Section
<1>3. ASSUME NEW o \in Around(addr) PROVE FALSE
  <2>1. Size <= o /\ o \in 0..Size-1
    BY <1>1, AroundIs DEF NoneBefore
  <2> QED
    BY <1>2, <2>1
<1> QED
  BY <1>3 DEF FunctionAt

LEMMA FindsFunctionIs == ASSUME DieInv PROVE FindsFunction
  BY FoundIs, UnknownIs DEF FindsFunction, DebugDone

LEMMA ArgsAsDeclaredIs == ASSUME DieInv PROVE ArgsAsDeclared
<1> SUFFICES ASSUME at = "found", ~die.err
             PROVE  /\ Len(found.sizes) = Cardinality(LeadingArgs(found.fn))
                    /\ \A k \in 1..Len(found.sizes) :
                         LET p == DieAt(found.fn + k)
                             t == TypeOf(p)
                         IN HasAttr(p, "type") /\ HasAttr(t, "byte_size") =>
                              found.sizes[k] = Attr(t, "byte_size")
  BY DEF ArgsAsDeclared
<1>1. InFunction /\ Sized /\ Cardinality(LeadingArgs(die.off)) = Counted
  BY DEF DieInv
<1>2. found.fn = die.off
  BY <1>1 DEF InFunction
<1> QED
  BY <1>1, <1>2 DEF Sized, Counted

\* What mon_backtrace is told.
LEMMA ToldIs ==
  ASSUME DebugInv, DebugDone
  PROVE  /\ Ripdebuginfo.fn = -1 => Ripdebuginfo.line = 0 /\ Ripdebuginfo.narg = 0
         /\ header = "good" /\ Sorted /\ Ripdebuginfo.fn # -1 => Ripdebuginfo.line = LineOf(addr)
         /\ Readable => /\ Ripdebuginfo.fn = FunctionAt(addr)
                        /\ Ripdebuginfo.fn # -1 =>
                             Ripdebuginfo.narg = Cardinality(LeadingArgs(Ripdebuginfo.fn))
<1>1. DieInv /\ LineInv /\ pc = addr
  BY DEF DebugInv
<1>2. /\ Ripdebuginfo.fn = found.fn /\ Ripdebuginfo.line = linebuf.line
      /\ Ripdebuginfo.narg = Len(found.sizes)
  BY DEF Ripdebuginfo
<1>3. CASE at = "unknown"
  <2>1. found = Unknown /\ ln_at = "call"
    BY <1>3 DEF DebugInv, DieInv
  <2>2. linebuf = NoRow
    BY <1>1, <2>1 DEF LineInv
  <2>3. found.fn = -1 /\ Len(found.sizes) = 0 /\ linebuf.line = 0
    BY <2>1, <2>2, NoRowIs DEF Unknown
  <2> QED
    BY <1>1, <1>2, <1>3, <2>3, UnknownIs
<1>4. CASE at = "found" /\ LineDone
  <2>1. found.fn # -1 /\ (Readable => found.fn = FunctionAt(addr))
    BY <1>1, <1>4, FoundIs
  <2>2. header = "good" /\ Sorted => linebuf.line = LineOf(addr)
    BY <1>1, <1>4 DEF LineInv, LineDone
  <2>3. ASSUME Readable PROVE Len(found.sizes) = Cardinality(LeadingArgs(found.fn))
    <3>1. die.off \in Dies /\ die.err = DieAt(die.off).err
      BY <1>1, <1>4 DEF DieInv, InList, Walked
    <3>2. ~die.err
      BY <2>3, <3>1 DEF Readable
    <3> QED
      BY <1>1, <1>4, <3>2, ArgsAsDeclaredIs DEF ArgsAsDeclared, DebugDone
  <2> QED
    BY <1>2, <2>1, <2>2, <2>3
<1> QED
  BY <1>3, <1>4 DEF DebugDone

LEMMA DebugStepInv == ASSUME DebugInv, DebugStep PROVE DebugInv'
<1>1. DieInv /\ LineInv /\ pc = addr /\ (found = Unknown => ln_at = "call")
  BY DEF DebugInv
<1>2. CASE Srclines
  <2>1. found # Unknown /\ LineNext /\ UNCHANGED dieVars
    BY <1>2 DEF Srclines
  <2>2. found' = found /\ addr' = addr
    BY <2>1 DEF dieVars
  <2>3. pc' = pc
    BY <2>1 DEF LineNext, ReadHeader, ProgramEnd, EndSequence, SetAddress, DefineFile, Copy,
                AdvancePc, AdvanceLine, ConstAddPc, FixedAdvancePc, SetFile, SetColumn,
                NegateStmt, SetBasicBlock, SetIgnored, Special, Return, Set, AppendRow
  <2> QED
    BY <1>1, <2>1, <2>2, <2>3, DieStutters, LineNextInv DEF DebugInv, Unknown
<1>3. CASE Search
  <2>1. DieNext /\ UNCHANGED lineVars
    BY <1>3 DEF Search
  <2>2. DieInv' /\ LineInv'
    BY <1>1, <2>1, DieNextInv, LineStutters
  <2>3. pc' = pc /\ ln_at' = ln_at
    BY <2>1 DEF lineVars
  <2>4. addr' = addr
    BY <2>1 DEF DieNext, NextCu, NextCuBeyond, NoMoreCus, CuDie, ListFunc, NextSibling,
                NextArg, Goto
  <2>5. ASSUME found' = Unknown PROVE found = Unknown
    <3>1. at' \notin {"arg", "found"}
      <4>1. ASSUME at' \in {"arg", "found"} PROVE FALSE
        <5>1. InFunction' /\ InList' /\ Section'
          BY <2>2, <4>1 DEF DieInv
        <5>2. found'.fn = die'.off /\ die'.off \in Dies'
          BY <5>1 DEF InFunction, InList, Walked
        <5>3. Dies' = Dies
          BY <2>1, Same DEF DieNext, NextCu, NextCuBeyond, NoMoreCus, CuDie, ListFunc,
                            NextSibling, NextArg, Goto
        <5>4. found'.fn \in Nat
          BY <1>1, <5>2, <5>3, HeaderIs DEF DieInv, Section
        <5> QED
          BY <2>5, <5>4 DEF Unknown
      <4> QED
        BY <4>1
    <3>2. at \notin {"arg", "found"}
      BY <2>1, <3>1 DEF DieNext, NextCu, NextCuBeyond, NoMoreCus, CuDie, ListFunc,
                        NextSibling, NextArg, Goto
    <3> QED
      BY <1>1, <3>2 DEF DieInv
  <2> QED
    BY <1>1, <2>2, <2>3, <2>4, <2>5 DEF DebugInv, Unknown
<1> QED
  BY <1>2, <1>3 DEF DebugStep

LEMMA DebugCallInv == ASSUME DebugInv, NEW a \in Int, DebugCall(a) PROVE DebugInv'
<1>1. DieCall(a) /\ LineCall(a) /\ Section /\ LineInv
  BY DEF DebugCall, DebugInv, DieInv
<1>2. DieInv' /\ LineInv'
  BY <1>1, DieCallInv, LineCallInv
<1>3. pc' = a /\ addr' = a /\ ln_at' = "call"
  BY <1>1 DEF DieCall, LineCall
<1> QED
  BY <1>2, <1>3 DEF DebugInv

LEMMA DebugIdleInv == ASSUME DebugInv, DebugIdle PROVE DebugInv'
<1>1. DieIdle /\ LineCall(0) /\ Section /\ LineInv
  BY DEF DebugIdle, DebugInv, DieInv
<1>2. DieInv' /\ LineInv'
  BY <1>1, DieIdleInv, LineCallInv
<1>3. pc' = 0 /\ addr' = 0 /\ ln_at' = "call"
  BY <1>1 DEF DieIdle, LineCall
<1> QED
  BY <1>2, <1>3 DEF DebugInv

LEMMA DebugStutters == ASSUME DebugInv, UNCHANGED debugVars PROVE DebugInv'
<1>1. DieInv /\ LineInv /\ UNCHANGED dieVars /\ UNCHANGED lineVars
  BY DEF DebugInv, debugVars
<1>2. DieInv' /\ LineInv'
  BY <1>1, DieStutters, LineStutters
<1>3. pc' = pc /\ addr' = addr /\ ln_at' = ln_at /\ found' = found
  BY <1>1 DEF dieVars, lineVars
<1> QED
  BY <1>2, <1>3 DEF DebugInv, Unknown

LEMMA DebugInitInv ==
  ASSUME NEW i \in Seq(Entries), NEW p \in Seq(Instructions),
         NEW h \in {"good", "short", "missing"}, DebugInit(i, p, h), Compiled
  PROVE  DebugInv
<1>1. DieInit(i) /\ LineInit(p, h)
  BY DEF DebugInit
<1>2. Section
  BY <1>1 DEF DieInit, Section
<1>3. DieInv
  BY <1>1, <1>2 DEF DieInv, DieInit
<1>4. LineInv
  BY <1>1, LineInitInv
<1>5. pc = addr /\ ln_at = "call"
  BY <1>1 DEF DieInit, LineInit
<1> QED
  BY <1>3, <1>4, <1>5 DEF DebugInv

(* The stack: each frame has where its caller's is saved, and below it the *)
(* place in the caller.                                                    *)

FrameRecords == [fn : Callers, x : Int, from : Nat, base : Nat]

\* Where the k-th active call has saved rbp; 0, in which the chain ends.
Base(k) == IF k <= Len(frames) THEN frames[k].base ELSE 0

StackInv ==
  /\ kernel \in Kernels
  /\ stack \in [1..StackTop -> Int] /\ frames \in Seq(FrameRecords)
  /\ rsp \in 1..StackTop+1 /\ rbp = Base(1)
  /\ \A k \in 1..Len(frames) :
       /\ rsp <= frames[k].base /\ frames[k].base < StackTop
       /\ stack[frames[k].base] = Base(k + 1)
       /\ stack[frames[k].base + 1] = frames[k].from
  /\ \A j, k \in 1..Len(frames) : j < k => frames[j].base + 2 <= frames[k].base

LEMMA PlaceIs ==
  ASSUME kernel \in Kernels
  PROVE  \A fn \in Callers : Place(fn) \in Nat
  BY KernelsAssumption DEF Place

LEMMA Prepended ==
  ASSUME NEW T, NEW s \in Seq(T), NEW e \in T
  PROVE  /\ <<e>> \o s \in Seq(T) /\ Len(<<e>> \o s) = Len(s) + 1 /\ (<<e>> \o s)[1] = e
         /\ \A k \in 1..Len(s) : (<<e>> \o s)[k + 1] = s[k]
  OBVIOUS

LEMMA TailIs ==
  ASSUME NEW T, NEW s \in Seq(T), s # << >>
  PROVE  /\ Tail(s) \in Seq(T) /\ Len(Tail(s)) = Len(s) - 1 /\ Len(s) \in Nat \ {0}
         /\ \A k \in 1..Len(s)-1 : Tail(s)[k] = s[k + 1]
  OBVIOUS

LEMMA TwoWritten ==
  ASSUME NEW n \in Nat, NEW s \in [1..n -> Int], NEW b \in 1..n, NEW c \in 1..n, c = b + 1,
         NEW p \in Int, NEW r \in Int, NEW t, t = [s EXCEPT ![c] = p, ![b] = r]
  PROVE  /\ t \in [1..n -> Int] /\ t[b] = r /\ t[c] = p
         /\ \A a \in 1..n : a # b /\ a # c => t[a] = s[a]
<1>1. b # c
  OBVIOUS
<1> DEFINE s1 == [s EXCEPT ![c] = p]
<1>2. s1 \in [1..n -> Int] /\ s1[c] = p /\ \A a \in 1..n : a # c => s1[a] = s[a]
  OBVIOUS
<1>3. t = [s1 EXCEPT ![b] = r]
  OBVIOUS
<1> HIDE DEF s1
<1>4. t \in [1..n -> Int] /\ t[b] = r /\ \A a \in 1..n : a # b => t[a] = s1[a]
  BY <1>2, <1>3
<1> QED
  BY <1>1, <1>2, <1>4

LEMMA StackSame == ASSUME StackInv, UNCHANGED stackVars PROVE StackInv'
  BY DEF StackInv, stackVars, Base

\* A call saves rbp and the place below everything that is in use.
LEMMA CallInv ==
  ASSUME StackInv, NEW fn \in Callers, NEW x \in Int, NEW from \in Callers, NEW n \in Nat,
         Call(fn, x, from, n)
  PROVE  StackInv'
<1> PICK s, f, b, p, m, r : /\ s = stack /\ f = frames /\ b = rsp - 2 /\ p = Place(from)
                         /\ m = Len(frames) /\ r = rbp
  OBVIOUS
<1> PICK e : e = Frame(fn, x, from)
  OBVIOUS
<1>1. /\ b - n >= 1 /\ stack' = [s EXCEPT ![b + 1] = p, ![b] = r] /\ rbp' = b /\ rsp' = b - n
      /\ frames' = <<e>> \o f /\ kernel' = kernel
  <2>1. rsp \in Int
    BY DEF StackInv
  <2>2. rsp - 1 = b + 1 /\ rsp - 2 = b
    BY <2>1
  <2> QED
    BY <2>1, <2>2 DEF Call
<1>2. /\ kernel \in Kernels /\ s \in [1..StackTop -> Int] /\ f \in Seq(FrameRecords)
      /\ rsp \in 1..StackTop+1 /\ m \in Nat /\ StackTop \in Nat /\ p \in Nat
  BY PlaceIs, StackAssumption DEF StackInv
<1>3. b \in 1..StackTop /\ b + 1 \in 1..StackTop /\ b \in Nat /\ b + 2 = rsp
  BY <1>1, <1>2
<1>4. e = [fn |-> fn, x |-> x, from |-> p, base |-> b] /\ e \in FrameRecords
  BY <1>2, <1>3 DEF Frame, FrameRecords
<1>5. /\ frames' \in Seq(FrameRecords) /\ Len(frames') = m + 1 /\ frames'[1] = e
      /\ \A k \in 1..m : frames'[k + 1] = f[k]
  BY <1>1, <1>2, <1>4, Prepended
<1>6. /\ r = (IF m >= 1 THEN f[1].base ELSE 0)
      /\ \A k \in 1..m : /\ f[k].base \in Nat /\ rsp <= f[k].base /\ f[k].base < StackTop
                         /\ s[f[k].base] = (IF k + 1 <= m THEN f[k + 1].base ELSE 0)
                         /\ s[f[k].base + 1] = f[k].from
      /\ \A j, k \in 1..m : j < k => f[j].base + 2 <= f[k].base
  <2>1. \A k \in 1..m : f[k].base \in Nat
    <3>1. \A k \in 1..m : f[k] \in FrameRecords
      BY <1>2
    <3> QED
      BY ONLY <3>1 DEF FrameRecords
  <2>2. /\ r = Base(1)
        /\ \A k \in 1..m : /\ rsp <= f[k].base /\ f[k].base < StackTop
                           /\ s[f[k].base] = Base(k + 1)
                           /\ s[f[k].base + 1] = f[k].from
        /\ \A j, k \in 1..m : j < k => f[j].base + 2 <= f[k].base
    BY DEF StackInv
  <2>3. Base(1) = (IF m >= 1 THEN f[1].base ELSE 0)
    BY <1>2 DEF Base
  <2>4. \A k \in 1..m : Base(k + 1) = (IF k + 1 <= m THEN f[k + 1].base ELSE 0)
    BY DEF Base
  <2> QED
    BY ONLY <2>1, <2>2, <2>3, <2>4
<1>7. r \in Int
  BY <1>2, <1>6
<1> PICK t, g, q : t = stack' /\ g = frames' /\ q = rsp'
  OBVIOUS
<1>8. /\ t \in [1..StackTop -> Int] /\ t[b] = r /\ t[b + 1] = p
      /\ \A a \in 1..StackTop : a # b /\ a # b + 1 => t[a] = s[a]
  <2>1. PICK c : c = b + 1
    OBVIOUS
  <2>2. t = [s EXCEPT ![c] = p, ![b] = r]
    BY <1>1, <2>1
  <2>3. c \in 1..StackTop /\ p \in Int
    BY <1>2, <1>3, <2>1
  <2>4. StackTop \in Nat /\ s \in [1..StackTop -> Int] /\ b \in 1..StackTop /\ r \in Int
    BY <1>2, <1>3, <1>7
  <2>5. /\ t \in [1..StackTop -> Int] /\ t[b] = r /\ t[c] = p
        /\ \A a \in 1..StackTop : a # b /\ a # c => t[a] = s[a]
    BY ONLY <2>1, <2>2, <2>3, <2>4, TwoWritten
  <2> QED
    BY ONLY <2>1, <2>5
<1>9. q \in 1..StackTop+1 /\ q <= b
  BY <1>1, <1>2, <1>3
<1>18. /\ g \in Seq(FrameRecords) /\ Len(g) = m + 1 /\ g[1] = e
       /\ \A k \in 1..m : g[k + 1] = f[k]
       /\ t[b] = r /\ t[b + 1] = p
       /\ \A a \in 1..StackTop : a # b /\ a # b + 1 => t[a] = s[a]
  <2>1. /\ g \in Seq(FrameRecords) /\ Len(g) = m + 1 /\ g[1] = e
        /\ \A k \in 1..m : g[k + 1] = f[k]
    BY <1>5
  <2> QED
    BY <1>8, <2>1
<1>10. \A k \in 1..m+1 : k = 1 \/ (k - 1 \in 1..m /\ k - 1 + 1 = k)
  BY <1>2
<1>11. ASSUME NEW k \in 1..m+1
       PROVE  /\ q <= g[k].base /\ g[k].base < StackTop
              /\ t[g[k].base] = (IF k + 1 <= m + 1 THEN g[k + 1].base ELSE 0)
              /\ t[g[k].base + 1] = g[k].from
  <2>1. CASE k = 1
    <3>1. g[1].base = b /\ g[1].from = p
      BY <1>4, <1>18
    <3>2. m >= 1 => g[2] = f[1]
      <4>1. m >= 1 => 1 \in 1..m /\ 1 + 1 = 2
        BY <1>2
      <4> QED
        BY <1>18, <4>1
    <3>3. q <= b /\ b < StackTop
      BY <1>2, <1>3, <1>9
    <3>4. r = (IF m >= 1 THEN g[2].base ELSE 0)
      BY <1>6, <3>2
    <3>5. (1 + 1 <= m + 1 <=> m >= 1) /\ 1 + 1 = 2
      BY <1>2
    <3>6. t[b] = (IF 1 + 1 <= m + 1 THEN g[1 + 1].base ELSE 0) /\ t[b + 1] = p
      BY <1>18, <3>4, <3>5
    <3> QED
      BY <2>1, <3>1, <3>3, <3>6
  <2>2. CASE k # 1
    <3>1. PICK j \in 1..m : k = j + 1
      BY <1>10, <2>2
    <3>2. g[k] = f[j] /\ (j + 1 <= m => g[k + 1] = f[j + 1])
      <4>1. j + 1 <= m => j + 1 \in 1..m
        BY <1>2
      <4> QED
        BY <1>18, <3>1, <4>1
    <3>3. /\ f[j].base \in Nat /\ rsp <= f[j].base /\ f[j].base < StackTop
          /\ f[j].base \in 1..StackTop /\ f[j].base + 1 \in 1..StackTop
      <4>1. PICK c : c = f[j].base
        OBVIOUS
      <4>2. c \in Nat /\ rsp <= c /\ c < StackTop
        BY <1>6, <4>1
      <4>3. c \in 1..StackTop /\ c + 1 \in 1..StackTop
        BY <1>2, <4>2
      <4> QED
        BY <4>1, <4>2, <4>3
    <3>4. /\ t[f[j].base] = s[f[j].base] /\ t[f[j].base + 1] = s[f[j].base + 1]
      <4>1. PICK c : c = f[j].base
        OBVIOUS
      <4>2. c # b /\ c # b + 1 /\ c + 1 # b /\ c + 1 # b + 1
        BY <1>3, <3>3, <4>1
      <4> QED
        BY <1>18, <3>3, <4>1, <4>2
    <3>5. /\ s[f[j].base] = (IF j + 1 <= m THEN f[j + 1].base ELSE 0)
          /\ s[f[j].base + 1] = f[j].from
      BY <1>6
    <3>6. q <= f[j].base
      <4>1. PICK c, z : c = f[j].base /\ z = rsp
        OBVIOUS
      <4>2. c \in Nat /\ z <= c /\ z \in Nat
        BY <1>2, <3>3, <4>1
      <4>3. q \in Int /\ b \in Int /\ q <= b /\ b + 2 = z
        BY <1>2, <1>3, <1>9, <4>1
      <4>4. q <= c
        BY ONLY <4>2, <4>3
      <4> QED
        BY <4>1, <4>4
    <3>7. k + 1 <= m + 1 <=> j + 1 <= m
      BY <1>2, <3>1
    <3> QED
      BY <3>2, <3>3, <3>4, <3>5, <3>6, <3>7
  <2> QED
    BY <2>1, <2>2
<1>12. ASSUME NEW i \in 1..m+1, NEW k \in 1..m+1, i < k
       PROVE  g[i].base + 2 <= g[k].base
  <2>1. PICK j \in 1..m : k = j + 1
    BY <1>2, <1>10, <1>12
  <2>2. g[k] = f[j] /\ f[j].base \in Nat /\ rsp <= f[j].base
    BY <1>18, <1>6, <2>1
  <2>3. CASE i = 1
    <3>1. g[i].base = b
      BY <1>4, <1>18, <2>3
    <3> QED
      BY <1>3, <2>2, <3>1
  <2>4. CASE i # 1
    <3>1. PICK h \in 1..m : i = h + 1
      BY <1>10, <2>4
    <3>2. g[i] = f[h] /\ h < j
      BY <1>18, <1>12, <2>1, <3>1
    <3> QED
      BY <1>6, <2>2, <3>2
  <2> QED
    BY <2>3, <2>4
<1>13. Len(frames)' = m + 1 /\ rbp' = frames'[1].base /\ 1 <= m + 1
  BY <1>1, <1>2, <1>4, <1>5
<1>14. /\ kernel' \in Kernels /\ stack' \in [1..StackTop -> Int]
       /\ frames' \in Seq(FrameRecords) /\ rsp' \in 1..StackTop+1
  BY <1>1, <1>2, <1>5, <1>8, <1>9
<1>15. rbp' = Base(1)'
  BY <1>13 DEF Base
<1>16. \A k \in 1..Len(frames') :
         /\ rsp' <= frames'[k].base /\ frames'[k].base < StackTop
         /\ stack'[frames'[k].base] = (IF k + 1 <= Len(frames') THEN frames'[k + 1].base ELSE 0)
         /\ stack'[frames'[k].base + 1] = frames'[k].from
  BY <1>11, <1>13
<1>17. \A j, k \in 1..Len(frames') : j < k => frames'[j].base + 2 <= frames'[k].base
  BY <1>12, <1>13
<1> QED
  BY <1>14, <1>15, <1>16, <1>17 DEF StackInv, Base

\* A return takes the innermost frame off.
LEMMA RetInv == ASSUME StackInv, frames # << >>, Ret PROVE StackInv'
<1> PICK f, m : f = frames /\ m = Len(frames)
  OBVIOUS
<1>1. /\ rbp' = stack[rbp] /\ rsp' = rbp + 2 /\ frames' = Tail(f) /\ kernel' = kernel
      /\ stack' = stack
  BY DEF Ret
<1>2. /\ kernel \in Kernels /\ stack \in [1..StackTop -> Int] /\ f \in Seq(FrameRecords)
      /\ rsp \in 1..StackTop+1 /\ StackTop \in Nat
  BY StackAssumption DEF StackInv
<1>3. /\ frames' \in Seq(FrameRecords) /\ Len(frames') = m - 1 /\ m \in Nat \ {0}
      /\ \A k \in 1..m-1 : frames'[k] = f[k + 1]
  BY <1>1, <1>2, TailIs
<1>4. /\ rbp = f[1].base
      /\ \A k \in 1..m : /\ f[k].base \in Nat /\ rsp <= f[k].base /\ f[k].base < StackTop
                         /\ stack[f[k].base] = (IF k + 1 <= m THEN f[k + 1].base ELSE 0)
                         /\ stack[f[k].base + 1] = f[k].from
      /\ \A j, k \in 1..m : j < k => f[j].base + 2 <= f[k].base
  <2>1. \A k \in 1..m : f[k].base \in Nat
    <3>1. \A k \in 1..m : f[k] \in FrameRecords
      BY <1>2
    <3> QED
      BY ONLY <3>1 DEF FrameRecords
  <2>2. /\ rbp = Base(1)
        /\ \A k \in 1..m : /\ rsp <= f[k].base /\ f[k].base < StackTop
                           /\ stack[f[k].base] = Base(k + 1)
                           /\ stack[f[k].base + 1] = f[k].from
        /\ \A j, k \in 1..m : j < k => f[j].base + 2 <= f[k].base
    BY DEF StackInv
  <2>3. Base(1) = f[1].base
    BY <1>3 DEF Base
  <2>4. \A k \in 1..m : Base(k + 1) = (IF k + 1 <= m THEN f[k + 1].base ELSE 0)
    BY DEF Base
  <2> QED
    BY ONLY <2>1, <2>2, <2>3, <2>4
<1>5. 1 \in 1..m
  BY <1>3
<1>6. rsp' \in 1..StackTop+1 /\ rsp' = f[1].base + 2
  <2>1. PICK b : b = f[1].base
    OBVIOUS
  <2>2. b \in Nat /\ rsp <= b /\ b < StackTop /\ rsp' = b + 2
    BY <1>1, <1>4, <1>5, <2>1
  <2>3. b + 2 \in 1..StackTop+1
    BY <1>2, <2>2
  <2> QED
    BY ONLY <2>1, <2>2, <2>3
<1>7. rbp' = (IF 1 <= m - 1 THEN frames'[1].base ELSE 0)
  <2>1. 1 <= m - 1 => 1 \in 1..m-1 /\ 1 + 1 <= m
    BY <1>3
  <2> QED
    BY <1>1, <1>3, <1>4, <1>5, <2>1
<1>8. ASSUME NEW k \in 1..m-1
      PROVE  /\ rsp' <= frames'[k].base /\ frames'[k].base < StackTop
             /\ stack[frames'[k].base] = (IF k + 1 <= m - 1 THEN frames'[k + 1].base ELSE 0)
             /\ stack[frames'[k].base + 1] = frames'[k].from
  <2>1. frames'[k] = f[k + 1] /\ k + 1 \in 1..m /\ 1 < k + 1
    BY <1>3
  <2>2. f[1].base + 2 <= f[k + 1].base
    BY <1>4, <1>5, <2>1
  <2>3. k + 1 <= m - 1 => frames'[k + 1] = f[k + 1 + 1] /\ k + 1 + 1 <= m
    <3>1. k + 1 <= m - 1 => k + 1 \in 1..m-1
      BY <1>3
    <3> QED
      BY <1>3, <3>1
  <2>4. k + 1 + 1 <= m <=> k + 1 <= m - 1
    BY <1>3
  <2>5. /\ f[k + 1].base < StackTop
        /\ stack[f[k + 1].base] = (IF k + 1 + 1 <= m THEN f[k + 1 + 1].base ELSE 0)
        /\ stack[f[k + 1].base + 1] = f[k + 1].from
    BY <1>4, <2>1
  <2> QED
    BY <1>6, <2>1, <2>2, <2>3, <2>4, <2>5
<1>9. ASSUME NEW j \in 1..m-1, NEW k \in 1..m-1, j < k
      PROVE  frames'[j].base + 2 <= frames'[k].base
  <2>1. frames'[j] = f[j + 1] /\ frames'[k] = f[k + 1] /\ j + 1 \in 1..m /\ k + 1 \in 1..m
        /\ j + 1 < k + 1
    BY <1>3, <1>9
  <2> QED
    BY <1>4, <2>1
<1>10. rbp' = Base(1)'
  BY <1>3, <1>7 DEF Base
<1>11. \A k \in 1..Len(frames') :
         /\ rsp' <= frames'[k].base /\ frames'[k].base < StackTop
         /\ stack'[frames'[k].base] = (IF k + 1 <= Len(frames') THEN frames'[k + 1].base ELSE 0)
         /\ stack'[frames'[k].base + 1] = frames'[k].from
  BY <1>1, <1>3, <1>8
<1>12. \A j, k \in 1..Len(frames') : j < k => frames'[j].base + 2 <= frames'[k].base
  BY <1>3, <1>9
<1> QED
  BY <1>1, <1>2, <1>3, <1>6, <1>10, <1>11, <1>12 DEF StackInv, Base

(* The list of the calls. *)

\* What debuginfo_rip was right to say of the address l.rip.
Told(l) ==
  /\ l.fn = -1 => l.line = 0 /\ l.narg = 0
  /\ header = "good" /\ Sorted /\ l.fn # -1 => l.line = LineOf(l.rip)
  /\ Readable => /\ l.fn = FunctionAt(l.rip)
                 /\ l.fn # -1 => l.narg = Cardinality(LeadingArgs(l.fn))

Listed(l, k) == l.rbp = frames[k].base /\ l.rip = RipOf(k) /\ Told(l)

\* While mon_backtrace walks: so many calls are printed, and it is at the next.
Walking ==
  /\ frames # << >> /\ Len(shown) <= Len(frames)
  /\ walk = [rbp |-> Base(Len(shown) + 1), rip |-> RipOf(Len(shown) + 1)]
  /\ addr = walk.rip
  /\ \A k \in 1..Len(shown) : Listed(shown[k], k)

BtInv ==
  /\ StackInv /\ DebugInv
  /\ \E S : shown \in Seq(S)
  /\ walk # NotWalking => Walking

LEMMA BaseIs ==
  ASSUME StackInv
  PROVE  \A k \in 1..Len(frames)+1 : Base(k) \in Nat /\ (Base(k) # 0 <=> k <= Len(frames))
<1> PICK m : m = Len(frames)
  OBVIOUS
<1>1. /\ frames \in Seq(FrameRecords) /\ rsp \in 1..StackTop+1 /\ StackTop \in Nat
      /\ \A k \in 1..m : rsp <= frames[k].base
  BY StackAssumption DEF StackInv
<1>2. m \in Nat
  BY <1>1
<1>3. ASSUME NEW k \in 1..m+1
      PROVE  Base(k) \in Nat /\ (Base(k) # 0 <=> k <= m)
  <2>1. CASE k <= m
    <3>1. k \in 1..m
      BY <1>2, <2>1
    <3>2. frames[k] \in FrameRecords
      BY <1>1, <3>1
    <3>3. PICK b, z : b = frames[k].base /\ z = rsp
      OBVIOUS
    <3>4. b \in Nat /\ z <= b /\ z \in Nat /\ z >= 1
      BY <1>1, <3>1, <3>2, <3>3 DEF FrameRecords
    <3>5. b # 0
      BY ONLY <3>4
    <3> QED
      BY <2>1, <3>3, <3>4, <3>5 DEF Base
  <2>2. CASE ~(k <= m)
    BY <2>2 DEF Base
  <2> QED
    BY <2>1, <2>2
<1> QED
  BY <1>3

LEMMA RipIs ==
  ASSUME StackInv PROVE \A k \in 1..Len(frames)+1 : RipOf(k) \in Nat
<1>1. frames \in Seq(FrameRecords) /\ kernel \in Kernels
  BY DEF StackInv
<1>2. ASSUME NEW k \in 1..Len(frames)+1 PROVE RipOf(k) \in Nat
  <2>1. CASE k = 1
    BY <1>1, <2>1, PlaceIs DEF RipOf, Callers
  <2>2. CASE k # 1
    <3>1. k - 1 \in 1..Len(frames)
      BY <1>1, <2>2
    <3>2. frames[k - 1] \in FrameRecords
      BY <1>1, <3>1
    <3> QED
      BY <2>2, <3>2 DEF RipOf, FrameRecords
  <2> QED
    BY <2>1, <2>2
<1> QED
  BY <1>2

\* The debug sections stay, and with them what is right.
LEMMA ToldSame ==
  ASSUME UNCHANGED <<info, prog, header>> PROVE \A l : Told(l) <=> Told(l)'
<1>1. /\ Readable' = Readable /\ (\A f : LeadingArgs(f)' = LeadingArgs(f))
      /\ (\A a : Around(a)' = Around(a))
  BY Same
<1>2. \A a : FunctionAt(a)' = FunctionAt(a)
  BY <1>1 DEF FunctionAt
<1>3. Sorted' = Sorted /\ \A a : LineOf(a)' = LineOf(a)
  BY DEF Sorted, LineOf, Rows
<1> QED
  BY <1>1, <1>2, <1>3 DEF Told

LEMMA DebugKeeps ==
  ASSUME DebugStep \/ DebugIdle \/ (\E a : DebugCall(a))
  PROVE  UNCHANGED <<info, prog, header>>
<1>1. CASE DebugStep
  <2>1. CASE Srclines
    <3>1. info' = info
      BY <2>1 DEF Srclines, dieVars
    <3>2. prog' = prog /\ header' = header
      BY <2>1 DEF Srclines, LineNext, ReadHeader, ProgramEnd, EndSequence, SetAddress, DefineFile,
                Copy, AdvancePc, AdvanceLine, ConstAddPc, FixedAdvancePc, SetFile, SetColumn,
                NegateStmt, SetBasicBlock, SetIgnored, Special, Return, Set, AppendRow
    <3> QED
      BY <3>1, <3>2
  <2>2. CASE Search
    <3>1. prog' = prog /\ header' = header
      BY <2>2 DEF Search, lineVars
    <3>2. info' = info
      BY <2>2 DEF Search, DieNext, NextCu, NextCuBeyond, NoMoreCus, CuDie, ListFunc, NextSibling,
                  NextArg, Goto
    <3> QED
      BY <3>1, <3>2
  <2> QED
    BY <1>1, <2>1, <2>2 DEF DebugStep
<1>2. CASE DebugIdle
  BY <1>2 DEF DebugIdle, DieIdle, LineCall
<1>3. CASE \E a : DebugCall(a)
  BY <1>3 DEF DebugCall, DieCall, LineCall
<1> QED
  BY <1>1, <1>2, <1>3

\* The calls printed stay as they should be when the stack and the sections do.
LEMMA ListedSame ==
  ASSUME UNCHANGED stackVars, UNCHANGED <<info, prog, header>>
  PROVE  /\ \A l, k : Listed(l, k) <=> Listed(l, k)'
         /\ \A k : RipOf(k)' = RipOf(k) /\ Base(k)' = Base(k)
<1>1. frames' = frames /\ kernel' = kernel
  BY DEF stackVars
<1>2. \A k : RipOf(k)' = RipOf(k) /\ Base(k)' = Base(k)
  BY <1>1 DEF RipOf, Base, Place
<1> QED
  BY <1>1, <1>2, ToldSame DEF Listed

\* A call or a return while nobody walks.
LEMMA ElsewhereInv ==
  ASSUME BtInv, walk = NotWalking, UNCHANGED <<walk, debugVars>>, StackInv',
         shown' = shown \/ shown' = << >>
  PROVE  BtInv'
<1>1. DebugInv'
  BY DebugStutters DEF BtInv, debugVars
<1>2. \E S : shown' \in Seq(S)
  <2>1. CASE shown' = shown
    <3>1. PICK S : shown \in Seq(S)
      BY DEF BtInv
    <3> QED
      BY <2>1, <3>1
  <2>2. CASE shown' = << >>
    <3>1. shown' \in Seq({})
      BY <2>2
    <3> QED
      BY <3>1
  <2> QED
    BY <2>1, <2>2
<1>3. walk' = NotWalking
  OBVIOUS
<1> QED
  BY <1>1, <1>2, <1>3 DEF BtInv, NotWalking

LEMMA LocalsAre == ASSUME StackInv, NEW n \in kernel.locals PROVE n \in Nat /\ kernel.depth \in Nat
  BY KernelsAssumption DEF StackInv

LEMMA HeadIs ==
  ASSUME StackInv, frames # << >>
  PROVE  /\ Head(frames) = frames[1] /\ Head(frames).fn \in Callers /\ Head(frames).x \in Int
         /\ Len(frames) \in Nat \ {0}
<1>1. frames \in Seq(FrameRecords)
  BY DEF StackInv
<1>2. Head(frames) = frames[1] /\ Head(frames) \in FrameRecords /\ Len(frames) \in Nat \ {0}
  BY <1>1
<1> QED
  BY <1>2 DEF FrameRecords

LEMMA CallsInv ==
  ASSUME BtInv, NEW n \in kernel.locals,
         \/ CallInit(n) \/ CallTest(n) \/ Recurse(n) \/ CallMonitor(n) \/ CallRuncmd(n)
  PROVE  BtInv'
<1>1. StackInv /\ n \in Nat /\ kernel.depth \in Nat
  BY LocalsAre DEF BtInv
<1>2. /\ UNCHANGED <<walk, debugVars>> /\ shown' = shown /\ walk = NotWalking
      /\ \E fn \in Callers : \E x \in Int : \E from \in Callers : Call(fn, x, from, n)
  <2>1. CASE CallInit(n)
    <3>1. walk = NotWalking
      BY <2>1 DEF BtInv, Walking, CallInit
    <3>2. Call("i386_init", 0, "entry", n)
      BY <2>1 DEF CallInit
    <3>3. "i386_init" \in Callers /\ "entry" \in Callers /\ 0 \in Int
      BY DEF Callers
    <3> QED
      BY <2>1, <3>1, <3>2, <3>3 DEF CallInit
  <2>2. CASE CallTest(n)
    <3>1. Call("test_backtrace", kernel.depth, "i386_init", n)
      BY <2>2 DEF CallTest
    <3>2. "i386_init" \in Callers /\ "test_backtrace" \in Callers /\ kernel.depth \in Int
      BY <1>1 DEF Callers
    <3> QED
      BY <2>2, <3>1, <3>2 DEF CallTest, InFn
  <2>3. CASE Recurse(n)
    <3>1. Call("test_backtrace", Head(frames).x - 1, "test_backtrace", n) /\ frames # << >>
      BY <2>3 DEF Recurse, InFn
    <3>2. "test_backtrace" \in Callers /\ Head(frames).x \in Int
      BY <1>1, <3>1, HeadIs DEF Callers
    <3>3. Head(frames).x - 1 \in Int
      BY <3>2
    <3> QED
      BY <2>3, <3>1, <3>2, <3>3 DEF Recurse, InFn
  <2>4. CASE CallMonitor(n)
    <3>1. Call("monitor", 0, "i386_init", n)
      BY <2>4 DEF CallMonitor
    <3>2. "monitor" \in Callers /\ "i386_init" \in Callers /\ 0 \in Int
      BY DEF Callers
    <3> QED
      BY <2>4, <3>1, <3>2 DEF CallMonitor, InFn
  <2>5. CASE CallRuncmd(n)
    <3>1. Call("runcmd", 0, "monitor", n)
      BY <2>5 DEF CallRuncmd
    <3>2. "monitor" \in Callers /\ "runcmd" \in Callers /\ 0 \in Int
      BY DEF Callers
    <3> QED
      BY <2>5, <3>1, <3>2 DEF CallRuncmd, InFn
  <2> QED
    BY <2>1, <2>2, <2>3, <2>4, <2>5
<1>3. StackInv'
  BY <1>1, <1>2, CallInv
<1> QED
  BY <1>2, <1>3, ElsewhereInv

LEMMA LeavesInv == ASSUME BtInv, LeaveTest \/ LeaveRuncmd PROVE BtInv'
<1>1. /\ UNCHANGED <<walk, debugVars>> /\ walk = NotWalking /\ frames # << >> /\ Ret
      /\ shown' = shown \/ shown' = << >>
  BY DEF LeaveTest, LeaveRuncmd, InFn
<1>2. StackInv'
  BY <1>1, RetInv DEF BtInv
<1> QED
  BY <1>1, <1>2, ElsewhereInv

LEMMA CallBacktraceInv ==
  ASSUME BtInv, NEW n \in kernel.locals, CallBacktrace(n) PROVE BtInv'
<1>1. StackInv /\ DebugInv /\ n \in Nat
  BY LocalsAre DEF BtInv
<1>2. /\ frames # << >> /\ shown = << >> /\ shown' = << >>
      /\ Call("mon_backtrace", 0, Head(frames).fn, n)
      /\ walk' = [rbp |-> rsp - 2, rip |-> Place("mon_backtrace")] /\ DebugCall(walk'.rip)
  BY DEF CallBacktrace, InFn
<1>3. Head(frames).fn \in Callers /\ "mon_backtrace" \in Callers /\ 0 \in Int
  BY <1>1, <1>2, HeadIs DEF Callers
<1>4. StackInv'
  BY <1>1, <1>2, <1>3, CallInv
<1>5. PICK a : a = walk'.rip
  OBVIOUS
<1>6. a = Place("mon_backtrace") /\ a \in Int
  <2>1. kernel \in Kernels
    BY <1>1 DEF StackInv
  <2> QED
    BY <1>2, <1>3, <1>5, <2>1, PlaceIs
<1>7. DebugInv' /\ addr' = a
  <2>1. DebugCall(a)
    BY <1>2, <1>5
  <2> QED
    BY <1>1, <1>6, <2>1, DebugCallInv DEF DebugCall, DieCall
<1>8. Len(shown') = 0 /\ shown' \in Seq({})
  BY <1>2
<1>9. rbp' = rsp - 2 /\ kernel' = kernel
  BY <1>2 DEF Call
<1>10. walk' = [rbp |-> Base(1)', rip |-> RipOf(1)']
  <2>1. rbp' = Base(1)'
    BY <1>4 DEF StackInv
  <2>2. RipOf(1)' = Place("mon_backtrace")
    BY <1>9 DEF RipOf, Place
  <2> QED
    BY <1>2, <1>9, <2>1, <2>2
<1>11. frames' # << >>
  <2>1. frames' = <<Frame("mon_backtrace", 0, Head(frames).fn)>> \o frames
    BY <1>2 DEF Call
  <2>2. frames \in Seq(FrameRecords)
    BY <1>1 DEF StackInv
  <2> QED
    BY <2>1, <2>2
<1>12. Len(shown') <= Len(frames')
  <2>1. frames' \in Seq(FrameRecords)'
    BY <1>4 DEF StackInv
  <2>2. Len(frames') \in Nat
    BY <2>1
  <2> QED
    BY <1>8, <2>2
<1>13. Walking'
  <2>1. Len(shown') + 1 = 1 /\ 1..Len(shown') = {}
    BY <1>8
  <2>2. walk' = [rbp |-> Base(Len(shown) + 1)', rip |-> RipOf(Len(shown) + 1)']
    BY <1>10, <2>1 DEF Base, RipOf, Place
  <2> QED
    BY <1>5, <1>7, <1>11, <1>12, <2>1, <2>2 DEF Walking
<1> QED
  BY <1>4, <1>7, <1>8, <1>13 DEF BtInv

LEMMA AskDebugInfoInv == ASSUME BtInv, AskDebugInfo PROVE BtInv'
<1>1. DebugStep /\ UNCHANGED <<stackVars, walk, shown>> /\ walk # NotWalking
  BY DEF AskDebugInfo
<1>2. StackInv' /\ DebugInv'
  BY <1>1, StackSame, DebugStepInv DEF BtInv
<1>3. UNCHANGED <<info, prog, header>>
  BY <1>1, DebugKeeps
<1>4. addr' = addr
  BY <1>1 DEF DebugStep, Srclines, dieVars, Search, DieNext, NextCu, NextCuBeyond, NoMoreCus,
              CuDie, ListFunc, NextSibling, NextArg, Goto
<1>5. Walking
  BY <1>1 DEF BtInv
<1>6. frames' = frames /\ shown' = shown /\ walk' = walk
  BY <1>1 DEF stackVars
<1>7. Walking'
  <2>1. \A k \in 1..Len(shown') : Listed(shown[k], k)'
    BY <1>1, <1>3, <1>5, <1>6, ListedSame DEF Walking
  <2>2. walk' = [rbp |-> Base(Len(shown) + 1)', rip |-> RipOf(Len(shown) + 1)']
    BY <1>1, <1>3, <1>5, <1>6, ListedSame DEF Walking
  <2> QED
    BY <1>4, <1>5, <1>6, <2>1, <2>2 DEF Walking
<1> QED
  BY <1>2, <1>6, <1>7 DEF BtInv

\* The call at which mon_backtrace is gets its line; its caller is the next.
LEMMA WalkFrameInv == ASSUME BtInv, WalkFrame PROVE BtInv'
<1>1. /\ StackInv /\ DebugInv /\ Walking /\ walk.rbp # 0 /\ DebugDone
      /\ UNCHANGED stackVars
      /\ shown' = Append(shown, Line(walk.rbp, walk.rip, Ripdebuginfo))
      /\ walk' = [rbp |-> stack[walk.rbp], rip |-> stack[walk.rbp + 1]] /\ DebugCall(walk'.rip)
  BY DEF BtInv, WalkFrame
<1> PICK m : m = Len(shown)
  OBVIOUS
<1> PICK l : l = Line(walk.rbp, walk.rip, Ripdebuginfo)
  OBVIOUS
<1>2. PICK S : shown \in Seq(S)
  BY DEF BtInv
<1>3. m \in Nat /\ m <= Len(frames) /\ Len(frames) \in Nat /\ frames \in Seq(FrameRecords)
  BY <1>1, <1>2 DEF Walking, StackInv
<1>4. walk.rbp = Base(m + 1) /\ walk.rip = RipOf(m + 1)
  BY <1>1 DEF Walking
<1>5. m + 1 \in 1..Len(frames)
  <2>1. m + 1 \in 1..Len(frames)+1
    BY <1>3
  <2>2. m + 1 <= Len(frames)
    BY <1>1, <1>4, <2>1, BaseIs
  <2> QED
    BY <1>3, <2>2
<1>6. /\ shown' \in Seq(S \cup {l}) /\ Len(shown') = m + 1 /\ shown'[m + 1] = l
      /\ \A k \in 1..m : shown'[k] = shown[k]
  BY <1>1, <1>2, AppendAny
<1>7. walk.rbp = frames[m + 1].base
  BY <1>4, <1>5 DEF Base
<1>8. /\ stack[walk.rbp] = Base(m + 1 + 1) /\ stack[walk.rbp + 1] = frames[m + 1].from
  BY <1>1, <1>5, <1>7 DEF StackInv
<1>9. RipOf(m + 1 + 1) = frames[m + 1].from
  BY <1>3 DEF RipOf
<1>10. walk' = [rbp |-> Base(m + 1 + 1), rip |-> RipOf(m + 1 + 1)]
  BY <1>1, <1>8, <1>9
<1>11. PICK a : a = walk'.rip
  OBVIOUS
<1>12. a \in Int
  <2>1. a = RipOf(m + 1 + 1) /\ m + 1 + 1 \in 1..Len(frames)+1
    BY <1>3, <1>5, <1>10, <1>11
  <2> QED
    BY <1>1, <2>1, RipIs
<1>13. DebugInv' /\ addr' = a /\ UNCHANGED <<info, prog, header>>
  <2>1. DebugCall(a)
    BY <1>1, <1>11
  <2> QED
    BY <1>1, <1>12, <2>1, DebugCallInv, DebugKeeps DEF DebugCall, DieCall
<1>14. StackInv' /\ frames' = frames
  BY <1>1, StackSame DEF stackVars
<1>15. Listed(l, m + 1)
  <2>1. /\ l.rbp = walk.rbp /\ l.rip = walk.rip /\ l.fn = Ripdebuginfo.fn
        /\ l.line = Ripdebuginfo.line /\ l.narg = Ripdebuginfo.narg
    BY DEF Line
  <2>2. addr = l.rip
    BY <1>1, <2>1 DEF Walking
  <2>3. Told(l)
    BY <1>1, <2>1, <2>2, ToldIs DEF Told
  <2> QED
    BY <1>4, <1>7, <2>1, <2>3 DEF Listed
<1>16. \A k \in 1..m : Listed(shown[k], k)
  BY <1>1 DEF Walking
<1>17. \A k \in 1..m+1 : Listed(shown'[k], k)
  <2>1. \A k \in 1..m+1 : k = m + 1 \/ k \in 1..m
    BY <1>3
  <2> QED
    BY <1>6, <1>15, <1>16, <2>1
<1>18. PICK s : s = shown'
  OBVIOUS
<1>19. \A k \in 1..m+1 : Listed(s[k], k)'
  BY <1>1, <1>13, <1>17, <1>18, ListedSame
<1>20. Base(m + 1 + 1)' = Base(m + 1 + 1) /\ RipOf(m + 1 + 1)' = RipOf(m + 1 + 1)
  BY <1>1, <1>13, ListedSame
<1>21. Walking'
  <2>1. frames' # << >> /\ Len(shown') <= Len(frames')
    BY <1>1, <1>5, <1>6, <1>14 DEF Walking
  <2>2. walk' = [rbp |-> Base(Len(shown) + 1)', rip |-> RipOf(Len(shown) + 1)']
    BY <1>6, <1>10, <1>14, <1>20 DEF Base, RipOf, Place
  <2>3. \A k \in 1..Len(shown') : Listed(shown[k], k)'
    BY <1>6, <1>18, <1>19 DEF Listed, Told
  <2> QED
    BY <1>11, <1>13, <2>1, <2>2, <2>3 DEF Walking
<1> QED
  BY <1>6, <1>13, <1>14, <1>21 DEF BtInv

LEMMA WalkEndInv == ASSUME BtInv, WalkEnd PROVE BtInv'
<1>1. StackInv /\ DebugInv /\ Walking /\ walk' = NotWalking /\ Ret /\ DebugIdle /\ shown' = shown
  BY DEF BtInv, WalkEnd
<1>2. StackInv' /\ DebugInv'
  BY <1>1, RetInv, DebugIdleInv DEF Walking
<1>3. \E S : shown' \in Seq(S)
  BY <1>1 DEF BtInv
<1> QED
  BY <1>1, <1>2, <1>3 DEF BtInv, NotWalking

LEMMA BtInitInv == ASSUME BtInit, Compiled PROVE BtInv
<1>1. PICK k \in Kernels : /\ kernel = k /\ DebugInit(k.info, k.prog, k.header)
                           /\ stack = [a \in 1..StackTop |-> Local]
                           /\ rsp = StackTop + 1 /\ rbp = EntryRbp
                           /\ frames = << >>
                           /\ walk = NotWalking /\ shown = << >>
  BY DEF BtInit
<1>2. DebugInv
  <2>1. k.info \in Seq(Entries) /\ k.prog \in Seq(Instructions)
        /\ k.header \in {"good", "short", "missing"}
    BY KernelsAssumption
  <2> QED
    BY <1>1, <2>1, DebugInitInv
<1>3. StackInv
  <2>1. stack \in [1..StackTop -> Int] /\ rsp \in 1..StackTop+1 /\ StackTop \in Nat
    BY <1>1, StackAssumption DEF Local
  <2>2. frames \in Seq(FrameRecords) /\ Len(frames) = 0
    BY <1>1
  <2>3. rbp = Base(1)
    BY <1>1, <2>2 DEF Base, EntryRbp
  <2>4. 1..Len(frames) = {}
    BY <2>2
  <2> QED
    BY <1>1, <2>1, <2>2, <2>3, <2>4 DEF StackInv
<1>4. shown \in Seq({})
  BY <1>1
<1> QED
  BY <1>1, <1>2, <1>3, <1>4 DEF BtInv

LEMMA BtStutters == ASSUME BtInv, UNCHANGED btVars PROVE BtInv'
<1>1. UNCHANGED stackVars /\ walk' = walk /\ shown' = shown /\ UNCHANGED debugVars
  BY DEF btVars
<1>2. StackInv' /\ DebugInv'
  BY <1>1, StackSame, DebugStutters DEF BtInv
<1>3. CASE walk = NotWalking
  BY <1>1, <1>2, <1>3, ElsewhereInv
<1>4. CASE walk # NotWalking
  <2>1. UNCHANGED <<info, prog, header>> /\ addr' = addr /\ frames' = frames
    BY <1>1 DEF debugVars, dieVars, lineVars, stackVars
  <2>2. Walking
    BY <1>4 DEF BtInv
  <2>3. \A k \in 1..Len(shown') : Listed(shown[k], k)'
    BY <1>1, <2>1, <2>2, ListedSame DEF Walking
  <2>4. walk' = [rbp |-> Base(Len(shown) + 1)', rip |-> RipOf(Len(shown) + 1)']
    BY <1>1, <2>1, <2>2, ListedSame DEF Walking
  <2>5. Walking'
    BY <1>1, <2>1, <2>2, <2>3, <2>4 DEF Walking
  <2>6. \E S : shown' \in Seq(S)
    BY <1>1 DEF BtInv
  <2> QED
    BY <1>2, <2>5, <2>6 DEF BtInv
<1> QED
  BY <1>3, <1>4

LEMMA BtNextInv == ASSUME BtInv, [BtNext]_btVars PROVE BtInv'
<1>1. CASE \E n \in kernel.locals :
             \/ CallInit(n) \/ CallTest(n) \/ Recurse(n) \/ CallBacktrace(n)
             \/ CallMonitor(n) \/ CallRuncmd(n)
  BY <1>1, CallsInv, CallBacktraceInv
<1>2. CASE AskDebugInfo
  BY <1>2, AskDebugInfoInv
<1>3. CASE WalkFrame
  BY <1>3, WalkFrameInv
<1>4. CASE WalkEnd
  BY <1>4, WalkEndInv
<1>5. CASE LeaveTest \/ LeaveRuncmd
  BY <1>5, LeavesInv
<1>6. CASE UNCHANGED btVars
  BY <1>6, BtStutters
<1> QED
  BY <1>1, <1>2, <1>3, <1>4, <1>5, <1>6 DEF BtNext

LEMMA ListsCallersIs == ASSUME BtInv PROVE ListsCallers
<1> SUFFICES ASSUME walk # NotWalking PROVE ListsCallers
  BY DEF ListsCallers
<1>1. Walking /\ StackInv
  BY DEF BtInv
<1> PICK m, n : m = Len(shown) /\ n = Len(frames)
  OBVIOUS
<1>2. PICK S : shown \in Seq(S)
  BY DEF BtInv
<1>3. m \in Nat /\ n \in Nat /\ m <= n
  BY <1>1, <1>2 DEF Walking, StackInv
<1>4. ASSUME walk.rbp = 0 PROVE m = n
  <2>1. Base(m + 1) = 0
    BY <1>1, <1>4 DEF Walking
  <2>2. m + 1 \in 1..n+1
    BY <1>3
  <2>3. ~(m + 1 <= n)
    BY <1>1, <2>1, <2>2, BaseIs
  <2> QED
    BY <1>3, <2>3
<1>5. \A k \in 1..m : Listed(shown[k], k)
  BY <1>1 DEF Walking
<1>6. \A k \in 1..m : /\ shown[k].rbp = frames[k].base /\ shown[k].rip = RipOf(k)
                      /\ shown[k].fn = -1 => shown[k].line = 0 /\ shown[k].narg = 0
  BY <1>5 DEF Listed, Told
<1>7. header = "good" /\ Sorted =>
        \A k \in 1..m : shown[k].fn # -1 => shown[k].line = LineOf(shown[k].rip)
  BY <1>5 DEF Listed, Told
<1>8. Readable =>
        \A k \in 1..m :
          /\ shown[k].fn = FunctionAt(shown[k].rip)
          /\ shown[k].fn # -1 => shown[k].narg = Cardinality(LeadingArgs(shown[k].fn))
  BY <1>5 DEF Listed, Told
<1> QED
  BY <1>3, <1>4, <1>6, <1>7, <1>8 DEF ListsCallers

LEMMA BtInvariant == BtSpec /\ Compiled => []BtInv
<1>1. BtInit /\ Compiled => BtInv
  BY BtInitInv
<1>2. BtInv /\ [BtNext]_btVars => BtInv'
  BY BtNextInv
<1> QED
  BY <1>1, <1>2, PTL DEF BtSpec

(***************************************************************************)
(* In every kernel whose .debug_info a compiler could have written,        *)
(* debuginfo_rip finds the function around the address it is asked about,  *)
(* the first at the top of a compilation unit, and says that there is none *)
(* only if there is none.                                                  *)
(***************************************************************************)
THEOREM FindsFunctionCorrect == BtSpec /\ Compiled => []FindsFunction
<1>1. BtInv => FindsFunction
  BY FindsFunctionIs DEF BtInv, DebugInv
<1> QED
  BY <1>1, BtInvariant, PTL

(***************************************************************************)
(* In every such kernel list_func_die counts the parameters that lead the  *)
(* children of the function, however many CUs, functions and blocks were   *)
(* passed before it, and takes the size of each from its own type.         *)
(***************************************************************************)
THEOREM ArgsAsDeclaredCorrect == BtSpec /\ Compiled => []ArgsAsDeclared
<1>1. BtInv => ArgsAsDeclared
  BY ArgsAsDeclaredIs DEF BtInv, DebugInv
<1> QED
  BY <1>1, BtInvariant, PTL

(***************************************************************************)
(* In every such kernel mon_backtrace lists the active calls, each once    *)
(* and in their order, for frames of any size and calls of any depth, and  *)
(* stops at entry.S; each with the function, line and number of arguments  *)
(* of its own address.                                                     *)
(***************************************************************************)
THEOREM ListsCallersCorrect == BtSpec /\ Compiled => []ListsCallers
<1>1. BtInv => ListsCallers
  BY ListsCallersIs
<1> QED
  BY <1>1, BtInvariant, PTL
=============================================================================
