--------------------------- MODULE LibraryProofs ---------------------------
(***************************************************************************)
(* Theorems about lib/string.c, snprintf and the readers of sections, for  *)
(* every call that C allows: memories, strings, blocks, buffers and fields *)
(* of any size.                                                            *)
(***************************************************************************)
EXTENDS Library, NatInduct, FiniteSetTheorems

(* The loops over strings. *)

\* The recursion that stands for a loop has a solution.
LEMMA FirstFunction ==
  ASSUME NEW S \in SUBSET Nat
  PROVE  \E f : f = [i \in Nat |-> IF i \in S THEN i ELSE f[i + 1]]
<1> DEFINE Later(i) == {k \in S : k >= i}
           Least(i) == CHOOSE k \in Later(i) : \A j \in Later(i) : k <= j
           f == [i \in Nat |-> IF Later(i) = {} THEN 0 ELSE Least(i)]
<1>1. ASSUME NEW i \in Nat, i \in S PROVE f[i] = i
  <2>1. i \in Later(i) /\ \A j \in Later(i) : i <= j
    BY <1>1
  <2>2. Least(i) \in Later(i) /\ \A j \in Later(i) : Least(i) <= j
    BY <2>1
  <2> QED
    BY <2>1, <2>2
<1>2. ASSUME NEW i \in Nat, i \notin S PROVE f[i] = f[i + 1]
  <2>1. \A k \in S : k \in Nat /\ k # i
    BY <1>2
  <2>2. \A k \in S : k >= i <=> k >= i + 1
    BY <2>1
  <2>3. Later(i) = Later(i + 1)
    BY <2>2
  <2>4. Least(i) = Least(i + 1)
    BY <2>3
  <2>5. i + 1 \in Nat
    OBVIOUS
  <2> HIDE DEF Later, Least
  <2> QED
    BY <2>3, <2>4, <2>5
<1> HIDE DEF Later, Least
<1>3. f = [i \in Nat |-> f[i]] /\ \A i \in Nat : f[i] = IF i \in S THEN i ELSE f[i + 1]
  BY <1>1, <1>2
<1> HIDE DEF f
<1>4. f = [i \in Nat |-> IF i \in S THEN i ELSE f[i + 1]]
  BY <1>3
<1> QED
  BY <1>4

\* A loop ends at the first place at which it can.
LEMMA FirstIs ==
  ASSUME NEW S \in SUBSET Nat, NEW p \in Nat, NEW q \in S, p <= q,
         \A k \in p..q-1 : k \notin S
  PROVE  First(p, S) = q
<1> DEFINE at == CHOOSE f : f = [i \in Nat |-> IF i \in S THEN i ELSE f[i + 1]]
<1>1. at = [i \in Nat |-> IF i \in S THEN i ELSE at[i + 1]]
  BY FirstFunction
<1>2. First(p, S) = at[p]
  BY DEF First
<1> HIDE DEF at
<1> DEFINE D == {d \in Nat : d <= q - p => at[q - d] = q}
<1>3. D = Nat
  <2>1. 0 \in D
    BY <1>1
  <2>2. ASSUME NEW d \in D PROVE d + 1 \in D
    <3> SUFFICES ASSUME d + 1 <= q - p PROVE at[q - (d + 1)] = q
      OBVIOUS
    <3>1. at[q - d] = q /\ q - (d + 1) \in p..q-1 /\ q - (d + 1) + 1 = q - d
      OBVIOUS
    <3> QED
      BY <1>1, <3>1
  <2> HIDE DEF D
  <2>3. D \in SUBSET Nat
    BY DEF D
  <2> QED
    BY <2>1, <2>2, <2>3, AllNat
<1>4. q - p \in Nat
  OBVIOUS
<1> QED
  <2>1. \A d \in D : d <= q - p => at[q - d] = q
    OBVIOUS
  <2>2. q - (q - p) = p /\ q - p <= q - p
    OBVIOUS
  <2> HIDE DEF D
  <2>3. at[q - (q - p)] = q
    BY <1>3, <1>4, <2>1, <2>2
  <2> QED
    BY <1>2, <2>2, <2>3
-----------------------------------------------------------------------------
(* memset and memmove. *)

IsBlock == op.f \in {"memset", "memmove"}

\* The bytes still to be moved, and what belongs at the k-th place.
Left == IF unit = 4 THEN 4 * cx ELSE cx
ByteFor(o, k) == IF o.f = "memset" THEN o.c % 256 ELSE o.mem[o.src + k]

\* The places written so far.
From == IF df THEN op.dst + Left ELSE op.dst
To == IF df THEN op.dst + op.n ELSE op.dst + op.n - Left

\* In the middle of a string instruction: the bytes so far are those of the old
\* memory, and the next ones to be read are not among the ones written.
Moved ==
  /\ unit \in {1, 4} /\ cx \in Nat /\ Left <= op.n /\ df \in BOOLEAN
  /\ di = IF df THEN op.dst + Left - unit ELSE op.dst + op.n - Left
  /\ df => op.f = "memmove" /\ op.src < op.dst
  /\ op.f = "memmove" =>
       /\ si = di + op.src - op.dst
       /\ ~df => op.dst <= op.src \/ op.src + op.n <= op.dst
  /\ \A p \in DOMAIN mem : mem[p] = IF p \in From..To-1 THEN ByteFor(op, p - op.dst) ELSE op.mem[p]

\* The inductive invariant.
StrInv ==
  /\ Legal(op) /\ DOMAIN mem = DOMAIN op.mem
  /\ str_at \in {"call", "rep", "returned"}
  /\ str_at = "call" => mem = op.mem /\ df = FALSE
  /\ str_at = "rep" => IsBlock /\ Moved
  /\ str_at # "returned" => res = [val |-> 0, end |-> Null]
  /\ CopiesExact

\* What the caller of a block function guarantees.
LEMMA BlockIs ==
  ASSUME Legal(op), IsBlock
  PROVE  /\ op.dst \in Nat /\ op.n \in Nat
         /\ op.f = "memset" => op.c % 256 \in 0..255
         /\ \A k \in 0..op.n-1 : op.dst + k \in DOMAIN op.mem
         /\ op.f = "memmove" => op.src \in Nat /\ \A k \in 0..op.n-1 : op.src + k \in DOMAIN op.mem
<1>1. PICK top : top = Max(DOMAIN op.mem)
  OBVIOUS
<1>2. top \in Nat /\ DOMAIN op.mem = 0..top
  BY <1>1 DEF Legal
<1>3. op.dst \in Nat /\ op.n \in Nat /\ op.dst + op.n <= top + 1
  BY <1>1 DEF Legal, IsBlock, InMemory
<1>4. op.f = "memset" => op.c % 256 \in 0..255
  <2>1. op.f = "memset" => op.c \in Int
    BY DEF Legal
  <2> QED
    BY <2>1
<1>5. op.f = "memmove" => op.src \in Nat /\ op.src + op.n <= top + 1
  BY <1>1 DEF Legal, InMemory
<1> QED
  BY <1>2, <1>3, <1>4, <1>5

LEMMA UnitsIs ==
  ASSUME NEW u \in {1, 4}, NEW n \in Nat, u = 4 => n % 4 = 0
  PROVE  n \div u \in Nat /\ (IF u = 4 THEN 4 * (n \div u) ELSE n \div u) = n
OBVIOUS

LEMMA WordsIs ==
  ASSUME NEW ps, NEW n \in ps
  PROVE  LET u == IF Words(ps) THEN 4 ELSE 1 IN u \in {1, 4} /\ (u = 4 => n % 4 = 0)
BY DEF Words

LEMMA RepStarts ==
  ASSUME StrInv, memset \/ memmove, op.f = "memmove" \/ op.n # 0
  PROVE  StrInv'
<1>1. IsBlock /\ str_at = "call" /\ op.f = (IF memset THEN "memset" ELSE "memmove")
  BY DEF memset, memmove, Calling, IsBlock
<1>2. Legal(op) /\ mem = op.mem /\ df = FALSE
  BY <1>1 DEF StrInv
<1>3. /\ op.dst \in Nat /\ op.n \in Nat
      /\ op.f = "memmove" => op.src \in Nat
  BY <1>1, <1>2, BlockIs
<1>4. UNCHANGED <<op, mem, res>> /\ str_at' = "rep"
  <2>1. CASE memset
    BY <2>1 DEF memset, Rep, Calling
  <2>2. CASE memmove
    BY <2>2 DEF memmove, Rep, Calling
  <2> QED
    BY <2>1, <2>2
<1>5. unit' \in {1, 4} /\ (unit' = 4 => op.n % 4 = 0) /\ cx' = op.n \div unit' /\ df' \in BOOLEAN
  <2>1. CASE memset
    <3>1. PICK u : u = (IF Words({op.dst, op.n}) THEN 4 ELSE 1)
      OBVIOUS
    <3>2. unit' = u /\ cx' = op.n \div u /\ df' = FALSE
      BY <2>1, <3>1 DEF memset, Rep, Calling
    <3> QED
      BY <3>1, <3>2, WordsIs
  <2>2. CASE memmove
    <3>1. CASE op.src < op.dst /\ op.src + op.n > op.dst
      <4>1. PICK u : u = (IF Words({op.src + op.n, op.dst + op.n, op.n}) THEN 4 ELSE 1)
        OBVIOUS
      <4>2. unit' = u /\ cx' = op.n \div u /\ df' = TRUE
        BY <2>2, <3>1, <4>1 DEF memmove, Rep
      <4> QED
        BY <4>1, <4>2, WordsIs
    <3>2. CASE ~(op.src < op.dst /\ op.src + op.n > op.dst)
      <4>1. PICK u : u = (IF Words({op.src, op.dst, op.n}) THEN 4 ELSE 1)
        OBVIOUS
      <4>2. unit' = u /\ cx' = op.n \div u /\ df' = FALSE
        BY <2>2, <3>2, <4>1 DEF memmove, Rep
      <4> QED
        BY <4>1, <4>2, WordsIs
    <3> QED
      BY <3>1, <3>2
  <2> QED
    BY <2>1, <2>2
<1>6. cx' \in Nat /\ Left' = op.n
  BY <1>3, <1>5, UnitsIs DEF Left
<1>7. /\ di' = IF df' THEN op.dst + op.n - unit' ELSE op.dst
      /\ df' => op.f = "memmove" /\ op.src < op.dst
      /\ op.f = "memmove" =>
           /\ si' = IF df' THEN op.src + op.n - unit' ELSE op.src
           /\ ~df' => op.dst <= op.src \/ op.src + op.n <= op.dst
  BY <1>3 DEF memset, memmove, Rep, Calling
<1>8. From' = op.dst + (IF df' THEN op.n ELSE 0) /\ To' = From'
  BY <1>3, <1>4, <1>5, <1>6 DEF From, To
<1>9. \A p \in DOMAIN mem : p \notin From'..To'-1
  BY <1>3, <1>8
<1>10. Moved'
  BY <1>2, <1>3, <1>4, <1>5, <1>6, <1>7, <1>9 DEF Moved
<1>11. CopiesExact'
  BY <1>4 DEF CopiesExact, BlocksMoved, StringsCopied, Done
<1>12. Legal(op)' /\ IsBlock'
  BY <1>1, <1>2, <1>4 DEF IsBlock
<1> QED
  BY <1>1, <1>2, <1>4, <1>10, <1>11, <1>12 DEF StrInv

\* One unit: the bytes that it reads are still those of the old memory.
LEMMA UnitMoves ==
  ASSUME StrInv, RepUnit
  PROVE  StrInv'
<1>1. str_at = "rep" /\ cx > 0 /\ IsBlock /\ Moved /\ Legal(op)
  BY DEF StrInv, RepUnit
<1>2. /\ op.dst \in Nat /\ op.n \in Nat
      /\ op.f = "memset" => op.c % 256 \in 0..255
      /\ \A k \in 0..op.n-1 : op.dst + k \in DOMAIN op.mem
      /\ op.f = "memmove" => op.src \in Nat /\ \A k \in 0..op.n-1 : op.src + k \in DOMAIN op.mem
  BY <1>1, BlockIs
<1>3. UNCHANGED <<op, str_at, unit, df, res>> /\ cx' = cx - 1
  BY DEF RepUnit
<1>4. /\ unit \in {1, 4} /\ cx \in Nat \ {0} /\ Left <= op.n /\ df \in BOOLEAN
      /\ di = IF df THEN op.dst + Left - unit ELSE op.dst + op.n - Left
      /\ df => op.f = "memmove" /\ op.src < op.dst
      /\ op.f = "memmove" =>
           /\ si = di + op.src - op.dst
           /\ ~df => op.dst <= op.src \/ op.src + op.n <= op.dst
      /\ \A p \in DOMAIN mem : mem[p] = IF p \in From..To-1 THEN ByteFor(op, p - op.dst) ELSE op.mem[p]
  BY <1>1 DEF Moved
<1>5. Left \in Nat /\ Left' = Left - unit /\ cx' \in Nat /\ Left' \in Nat
  BY <1>3, <1>4 DEF Left
<1>6. DOMAIN mem = DOMAIN op.mem
  BY DEF StrInv
<1>7. \A k \in 0..unit-1 :
        (IF op.f = "memset" THEN op.c % 256 ELSE mem[si + k]) = ByteFor(op, di + k - op.dst)
  <2> SUFFICES ASSUME NEW k \in 0..unit-1, op.f # "memset"
               PROVE  mem[si + k] = ByteFor(op, di + k - op.dst)
    BY DEF ByteFor
  <2>1. op.f = "memmove"
    BY <1>1 DEF IsBlock
  <2>2. si + k = op.src + (di + k - op.dst) /\ di + k - op.dst \in 0..op.n-1
    BY <1>2, <1>4, <1>5, <2>1
  <2>3. si + k \in DOMAIN mem
    BY <1>2, <1>6, <2>1, <2>2
  <2>4. si + k \notin From..To-1
    BY <1>2, <1>4, <1>5, <2>1 DEF From, To
  <2> QED
    BY <1>4, <2>2, <2>3, <2>4 DEF ByteFor
<1>8. \A p \in DOMAIN mem :
        mem'[p] = IF p \in di..di+unit-1 THEN ByteFor(op, p - op.dst) ELSE mem[p]
  <2> SUFFICES ASSUME NEW p \in DOMAIN mem
               PROVE  mem'[p] = IF p \in di..di+unit-1 THEN ByteFor(op, p - op.dst) ELSE mem[p]
    OBVIOUS
  <2>1. mem'[p] = IF p \in di..di+unit-1
                  THEN IF op.f = "memset" THEN op.c % 256 ELSE mem[si + (p - di)]
                  ELSE mem[p]
    BY DEF RepUnit
  <2>2. CASE p \in di..di+unit-1
    <3>1. p - di \in 0..unit-1 /\ di + (p - di) - op.dst = p - op.dst
      <4>1. di \in Int /\ op.dst \in Int
        BY <1>2, <1>4, <1>5
      <4>2. unit \in Int
        BY <1>4
      <4> QED
        BY ONLY <2>2, <4>1, <4>2
    <3>2. PICK k \in 0..unit-1 : k = p - di
      BY <3>1
    <3>3. (IF op.f = "memset" THEN op.c % 256 ELSE mem[si + k]) = ByteFor(op, p - op.dst)
      BY ONLY <1>7, <3>1, <3>2
    <3> QED
      BY ONLY <2>1, <2>2, <3>2, <3>3
  <2> QED
    BY <2>1, <2>2
<1>9. DOMAIN mem' = DOMAIN mem
  BY DEF RepUnit
<1>10. /\ di' = IF df THEN di - unit ELSE di + unit
       /\ op.f = "memmove" => si' = IF df THEN si - unit ELSE si + unit
  BY DEF RepUnit
<1>11. \A p : p \in From'..To'-1 <=> p \in From..To-1 \/ p \in di..di+unit-1
  BY <1>2, <1>3, <1>4, <1>5 DEF From, To
<1>12. \A p \in DOMAIN mem' :
         mem'[p] = IF p \in From'..To'-1 THEN ByteFor(op, p - op.dst) ELSE op.mem[p]
  BY <1>4, <1>8, <1>9, <1>11
<1>13. \A k : ByteFor(op', k) = ByteFor(op, k)
  BY <1>3 DEF ByteFor
<1>14. Moved'
  <2>1. /\ unit' \in {1, 4} /\ cx' \in Nat /\ Left' <= op'.n /\ df' \in BOOLEAN
        /\ df' => op'.f = "memmove" /\ op'.src < op'.dst
        /\ op'.f = "memmove" /\ ~df' => op'.dst <= op'.src \/ op'.src + op'.n <= op'.dst
    BY <1>2, <1>3, <1>4, <1>5
  <2>2. di' = IF df' THEN op'.dst + Left' - unit' ELSE op'.dst + op'.n - Left'
    BY <1>2, <1>3, <1>4, <1>5, <1>10
  <2>3. op'.f = "memmove" => si' = di' + op'.src - op'.dst
    BY <1>2, <1>3, <1>4, <1>5, <1>10
  <2>4. \A p \in DOMAIN mem' :
          mem'[p] = IF p \in From'..To'-1 THEN ByteFor(op', p - op'.dst) ELSE op'.mem[p]
    BY <1>3, <1>12, <1>13
  <2> QED
    BY <2>1, <2>2, <2>3, <2>4 DEF Moved
<1>15. CopiesExact'
  BY <1>1, <1>3 DEF CopiesExact, BlocksMoved, StringsCopied, Done
<1> QED
  BY <1>1, <1>3, <1>6, <1>9, <1>14, <1>15 DEF StrInv, IsBlock

LEMMA RepEnds ==
  ASSUME StrInv, RepEnd
  PROVE  StrInv'
<1>1. str_at = "rep" /\ cx = 0 /\ IsBlock /\ Moved /\ Legal(op)
  BY DEF StrInv, RepEnd
<1>2. /\ op.dst \in Nat /\ op.n \in Nat
      /\ \A k \in 0..op.n-1 : op.dst + k \in DOMAIN op.mem
  BY <1>1, BlockIs
<1>3. UNCHANGED <<op, mem>> /\ str_at' = "returned" /\ df' = FALSE
  BY DEF RepEnd
<1>4. res'.val = op.dst
  <2>1. res = [val |-> 0, end |-> Null]
    BY <1>1 DEF StrInv
  <2>2. res' = [val |-> op.dst, end |-> Null]
    BY <2>1 DEF RepEnd
  <2> QED
    BY <2>2
<1>5. Left = 0 /\ From = op.dst /\ To = op.dst + op.n
  BY <1>1, <1>2 DEF Left, From, To, Moved
<1>6. \A p \in DOMAIN mem : mem[p] = IF p \in op.dst..op.dst+op.n-1 THEN ByteFor(op, p - op.dst) ELSE op.mem[p]
  <2>1. \A p \in DOMAIN mem : mem[p] = IF p \in From..To-1 THEN ByteFor(op, p - op.dst) ELSE op.mem[p]
    BY <1>1 DEF Moved
  <2>2. From..To-1 = op.dst..op.dst+op.n-1
    BY <1>2, <1>5
  <2> QED
    BY <2>1, <2>2, Zenon
<1>7. DOMAIN mem = DOMAIN op.mem
  BY DEF StrInv
<1>8. \A k \in 0..op.n-1 : mem[op.dst + k] = ByteFor(op, k)
  <2> SUFFICES ASSUME NEW k \in 0..op.n-1 PROVE mem[op.dst + k] = ByteFor(op, k)
    OBVIOUS
  <2>1. PICK p : p = op.dst + k
    OBVIOUS
  <2>2. p \in DOMAIN mem /\ p \in op.dst..op.dst+op.n-1 /\ p - op.dst = k
    BY <1>2, <1>7, <2>1
  <2> QED
    BY <1>6, <2>1, <2>2, Zenon
<1>9. Outside(op.dst, op.n)
  BY <1>6 DEF Outside
<1>10. BlocksMoved'
  BY <1>3, <1>4, <1>8, <1>9 DEF BlocksMoved, Outside, ByteFor
<1>11. StringsCopied'
  BY <1>1, <1>3 DEF StringsCopied, Done, IsBlock
<1> QED
  BY <1>1, <1>3, <1>7, <1>10, <1>11 DEF StrInv, CopiesExact

\* memset of no bytes.
LEMMA NothingSet ==
  ASSUME StrInv, memset, op.n = 0
  PROVE  StrInv'
<1>1. str_at = "call" /\ op.f = "memset" /\ Legal(op) /\ mem = op.mem /\ df = FALSE
  BY DEF memset, Calling, StrInv
<1>2. UNCHANGED <<op, mem, df>> /\ str_at' = "returned" /\ res' = [val |-> op.dst, end |-> Null]
  BY DEF memset, Returns, repVars
<1>3. BlocksMoved'
  BY <1>1, <1>2 DEF BlocksMoved, Outside
<1>4. StringsCopied'
  BY <1>1, <1>2 DEF StringsCopied, Done
<1> QED
  BY <1>1, <1>2, <1>3, <1>4 DEF StrInv, CopiesExact
-----------------------------------------------------------------------------
(* The functions that copy strings. *)

\* A memory from address 0 to top.
IsMemory(m, top) == top \in Nat /\ top = Max(DOMAIN m) /\ DOMAIN m = 0..top

\* The string from p to e, as strlen and as the reference see it.
StringAt(m, p, e) ==
  /\ e - p \in Nat /\ strlenOf(m, p) = e - p
  /\ Str(m, p) = [k \in 1..(e - p) |-> m[p + k - 1]]
  /\ Len(Str(m, p)) = e - p

LEMMA StringIs ==
  ASSUME NEW m, NEW top, IsMemory(m, top), NEW p \in Nat, NEW e \in 0..top, Ends(m, p, e)
  PROVE  StringAt(m, p, e)
<1> USE DEF IsMemory
<1>1. p <= e /\ m[e] = NUL /\ \A k \in p..e-1 : m[k] # NUL
  BY DEF Ends
<1>2. First(p, {i \in Nat : m[i] = NUL}) = e
  <2> DEFINE S == {i \in Nat : m[i] = NUL}
  <2>1. S \in SUBSET Nat /\ e \in S /\ \A k \in p..e-1 : k \notin S
    BY <1>1
  <2> HIDE DEF S
  <2>2. First(p, S) = e
    BY <1>1, <2>1, FirstIs
  <2> QED
    BY <2>2 DEF S
<1>3. strlenOf(m, p) = e - p
  BY <1>2 DEF strlenOf
<1> DEFINE EndsAt(k) == m[k] = NUL /\ \A j \in p..k-1 : m[j] # NUL
           n == CHOOSE k \in p..Max(DOMAIN m) : EndsAt(k)
<1>4. e \in p..Max(DOMAIN m) /\ EndsAt(e)
  BY <1>1
<1>5. n \in p..Max(DOMAIN m) /\ EndsAt(n)
  BY <1>4, Zenon
<1>6. n = e
  <2> HIDE DEF n
  <2>1. n \in Nat /\ n <= top /\ p <= n
    BY <1>5
  <2>2. ~(n < e)
    BY <1>1, <1>5, <2>1
  <2>3. ~(e < n)
    BY <1>1, <1>5, <2>1
  <2> QED
    BY <2>1, <2>2, <2>3
<1>7. Str(m, p) = [k \in 1..(n - p) |-> m[p + k - 1]]
  BY DEF Str
<1> HIDE DEF n
<1>8. Str(m, p) = [k \in 1..(e - p) |-> m[p + k - 1]] /\ e - p \in Nat
  BY <1>1, <1>6, <1>7
<1>9. Len(Str(m, p)) = e - p
  BY <1>8
<1> QED
  BY <1>3, <1>8, <1>9 DEF StringAt

\* What the caller of a function that copies a string guarantees.
LEMMA CopyCallIs ==
  ASSUME Legal(op), op.f \in {"strcpy", "strcat", "strncpy", "strlcpy"}
  PROVE  \E top, e, d \in Nat :
           /\ IsMemory(op.mem, top)
           /\ e \in 0..top /\ d \in 0..top
           /\ op.src \in Nat /\ op.dst \in Nat
           /\ Ends(op.mem, op.src, e)
           /\ IF op.f = "strcat" THEN Ends(op.mem, op.dst, d) ELSE d = op.dst
           /\ IF op.f \in {"strncpy", "strlcpy"} THEN op.n \in Nat /\ d + op.n <= top + 1
              ELSE d + (e - op.src) <= top
<1>1. PICK top : top = Max(DOMAIN op.mem)
  OBVIOUS
<1>2. top \in Nat /\ DOMAIN op.mem = 0..top
  BY <1>1 DEF Legal
<1>3. op.src \in Nat /\ op.dst \in Nat /\ \E e, d \in DOMAIN op.mem : Copies(op, e, d)
  BY DEF Legal
<1>4. PICK e \in 0..top, d \in 0..top : Copies(op, e, d)
  BY <1>2, <1>3
<1>5. /\ Ends(op.mem, op.src, e)
      /\ IF op.f = "strcat" THEN Ends(op.mem, op.dst, d) ELSE d = op.dst
      /\ InMemory(op.mem, d, IF op.f \in {"strncpy", "strlcpy"} THEN op.n ELSE e - op.src + 1)
  BY <1>4, Zenon DEF Copies
<1>6. IF op.f \in {"strncpy", "strlcpy"} THEN op.n \in Nat /\ d + op.n <= top + 1
      ELSE d + (e - op.src) <= top
  <2>1. CASE op.f \in {"strncpy", "strlcpy"}
    <3>1. InMemory(op.mem, d, op.n)
      BY <1>5, <2>1
    <3> QED
      BY <1>1, <2>1, <3>1 DEF InMemory
  <2>2. CASE op.f \notin {"strncpy", "strlcpy"}
    <3>1. InMemory(op.mem, d, e - op.src + 1)
      BY <1>5, <2>2
    <3>2. d + (e - op.src + 1) <= top + 1
      BY <1>1, <3>1 DEF InMemory
    <3> QED
      BY <1>2, <1>3, <1>4, <2>2, <3>2
  <2> QED
    BY <2>1, <2>2
<1>7. IsMemory(op.mem, top)
  BY <1>1, <1>2 DEF IsMemory
<1> QED
  BY <1>2, <1>3, <1>4, <1>5, <1>6, <1>7

\* In w, the k + 1 bytes at d, of which only the last is null, are those at s of m.
CopiedAt(m, w, s, d, k) ==
  /\ Ends(w, d, d + k)
  /\ \A j \in 0..k : w[d + j] = m[s + j]
  /\ \A p \in DOMAIN m \ (d..d+k) : w[p] = m[p]

LEMMA CopiedIs ==
  ASSUME NEW m, NEW top, IsMemory(m, top),
         NEW s \in Nat, NEW d \in Nat, NEW k \in Nat, s + k <= top, d + k <= top,
         Ends(m, s, s + k),
         NEW w, w = CopyTo(m, d, s, k + 1)
  PROVE  IsMemory(w, top) /\ CopiedAt(m, w, s, d, k)
<1> USE DEF IsMemory
<1>1. IsMemory(w, top)
  BY DEF CopyTo
<1>2. \A p \in 0..top : w[p] = IF p \in d..d+k THEN m[s + p - d] ELSE m[p]
  <2>1. d..d+(k+1)-1 = d..d+k
    OBVIOUS
  <2> QED
    BY <2>1 DEF CopyTo
<1>3. ASSUME NEW j \in 0..k PROVE w[d + j] = m[s + j]
  <2>1. PICK p : p = d + j
    OBVIOUS
  <2>2. p \in 0..top /\ p \in d..d+k /\ s + p - d = s + j
    BY <2>1
  <2> QED
    BY <1>2, <2>1, <2>2
<1>4. m[s + k] = NUL /\ \A i \in s..s+k-1 : m[i] # NUL
  BY DEF Ends
<1>5. w[d + k] = NUL
  BY <1>3, <1>4
<1>6. ASSUME NEW i \in d..d+k-1 PROVE w[i] # NUL
  <2>1. i - d \in 0..k /\ s + (i - d) \in s..s+k-1 /\ d + (i - d) = i
    OBVIOUS
  <2>2. w[d + (i - d)] = m[s + (i - d)]
    BY <1>3, <2>1
  <2> QED
    BY <1>4, <2>1, <2>2
<1>7. Ends(w, d, d + k)
  BY <1>5, <1>6 DEF Ends
<1> QED
  BY <1>1, <1>2, <1>3, <1>7 DEF CopiedAt

\* A string function returns: what is left to show is what it has copied.
LEMMA StringReturns ==
  ASSUME StrInv, str_at = "call", ~IsBlock, NEW m, NEW v, NEW end, Returns(m, v, end),
         DOMAIN m = DOMAIN mem, StringsCopied'
  PROVE  StrInv'
<1>1. op' = op /\ mem' = m /\ str_at' = "returned"
  BY DEF Returns
<1>2. Legal(op) /\ DOMAIN mem = DOMAIN op.mem
  BY DEF StrInv
<1>3. BlocksMoved'
  BY <1>1 DEF BlocksMoved, Done, IsBlock
<1> QED
  BY <1>1, <1>2, <1>3 DEF StrInv, CopiesExact

LEMMA StrcpyCopies ==
  ASSUME StrInv, strcpy
  PROVE  StrInv'
<1>1. Legal(op) /\ mem = op.mem /\ str_at = "call" /\ op.f = "strcpy"
  BY DEF StrInv, strcpy, Calling
<1>2. PICK m, s, d : m = op.mem /\ s = op.src /\ d = op.dst
  OBVIOUS
<1>3. PICK top \in Nat, e \in Nat :
        /\ IsMemory(m, top)
        /\ s \in Nat /\ d \in Nat /\ Ends(m, s, e) /\ d + (e - s) <= top /\ e \in 0..top
  BY <1>1, <1>2, CopyCallIs
<1>4. StringAt(m, s, e)
  BY <1>3, StringIs, Zenon
<1>5. PICK k \in Nat : k = e - s
  BY <1>4 DEF StringAt
<1>6. /\ strlenOf(m, s) = k /\ Len(Str(m, s)) = k
      /\ Str(m, s) = [j \in 1..k |-> m[s + j - 1]]
  BY <1>4, <1>5 DEF StringAt
<1>7. e = s + k /\ s + k <= top /\ d + k <= top /\ d + k \in 0..top /\ d + k - d = k /\ Ends(m, s, s + k)
  BY <1>3, <1>5
<1>8. PICK w : w = CopyTo(m, d, s, k + 1)
  OBVIOUS
<1>9. Returns(w, d, Null)
  BY <1>1, <1>2, <1>6, <1>8 DEF strcpy
<1>10. IsMemory(w, top) /\ CopiedAt(m, w, s, d, k)
  BY <1>3, <1>7, <1>8, CopiedIs, Zenon
<1>11. Str(w, d) = Str(m, s)
  <2>1. PICK f : f = d + k
    OBVIOUS
  <2>2. Ends(w, d, f) /\ f \in 0..top /\ f - d = k
    <3>1. Ends(w, d, d + k)
      BY <1>10, Zenon DEF CopiedAt
    <3> QED
      BY <1>3, <1>7, <2>1, <3>1
  <2>3. StringAt(w, d, f)
    BY <1>3, <1>10, <2>2, StringIs, Zenon
  <2>4. Str(w, d) = [j \in 1..k |-> w[d + j - 1]]
    BY <2>2, <2>3, Zenon DEF StringAt
  <2>5. ASSUME NEW j \in 1..k PROVE w[d + j - 1] = m[s + j - 1]
    <3>1. j - 1 \in 0..k /\ d + (j - 1) = d + j - 1 /\ s + (j - 1) = s + j - 1
      BY <1>3
    <3> QED
      BY <1>10, <3>1 DEF CopiedAt
  <2>6. [j \in 1..k |-> w[d + j - 1]] = [j \in 1..k |-> m[s + j - 1]]
    BY <2>5, Zenon
  <2> QED
    BY <1>6, <2>4, <2>6, Zenon
<1>12. op' = op /\ mem' = w /\ str_at' = "returned"
  BY <1>9 DEF Returns
<1>13. Outside(op.dst, Len(Str(op.mem, op.src)) + 1)'
  <2>1. d..d+(k+1)-1 = d..d+k
    BY <1>3
  <2>2. \A p \in DOMAIN w \ (d..d+(k+1)-1) : w[p] = m[p]
    BY <1>3, <1>10, <2>1, Zenon DEF CopiedAt, IsMemory
  <2> QED
    BY <1>2, <1>6, <1>12, <2>2, Zenon DEF Outside
<1>14. StringsCopied'
  BY <1>1, <1>2, <1>11, <1>12, <1>13 DEF StringsCopied, Done
<1> QED
  BY <1>1, <1>2, <1>3, <1>9, <1>10, <1>14, StringReturns DEF IsBlock, IsMemory

LEMMA BytesOf ==
  ASSUME Legal(op), NEW top, IsMemory(op.mem, top)
  PROVE  op.mem \in [0..top -> 0..255]
BY DEF Legal, IsMemory

\* Two sequences, one after the other; the first z elements of one.
IsJoin(f, g, a, z) == f \o g = [j \in 1..(a + z) |-> IF j <= a THEN f[j] ELSE g[j - a]]
IsCut(f, z) == SubSeq(f, 1, z) = [j \in 1..z |-> f[j]] /\ Len(SubSeq(f, 1, z)) = z

LEMMA JoinIs ==
  ASSUME NEW S, NEW a \in Nat, NEW z \in Nat, NEW f \in [1..a -> S], NEW g \in [1..z -> S]
  PROVE  IsJoin(f, g, a, z)
<1>1. f \in Seq(S) /\ g \in Seq(S) /\ Len(f) = a /\ Len(g) = z
  OBVIOUS
<1>2. f \o g \in Seq(S) /\ Len(f \o g) = a + z /\ DOMAIN (f \o g) = 1..(a+z)
  BY <1>1
<1>3. \A j \in 1..(a+z) : (f \o g)[j] = IF j <= a THEN f[j] ELSE g[j - a]
  BY <1>1
<1>4. PICK h : h = f \o g
  OBVIOUS
<1>5. h \in [1..(a + z) -> S]
  <2>1. h \in Seq(S) /\ Len(h) = a + z
    BY <1>2, <1>4
  <2> QED
    BY <2>1
<1>6. \A j \in 1..(a + z) : h[j] = IF j <= a THEN f[j] ELSE g[j - a]
  BY <1>3, <1>4
<1>7. h = [j \in 1..(a + z) |-> IF j <= a THEN f[j] ELSE g[j - a]]
  BY <1>5, <1>6
<1> QED
  BY <1>4, <1>7 DEF IsJoin

LEMMA SubIs ==
  ASSUME NEW S, NEW a \in Nat, NEW z \in 0..a, NEW f \in [1..a -> S]
  PROVE  IsCut(f, z)
<1>1. f \in Seq(S) /\ Len(f) = a
  OBVIOUS
<1>2. SubSeq(f, 1, z) \in Seq(S) /\ Len(SubSeq(f, 1, z)) = z
  BY <1>1
<1> QED
  BY <1>1, <1>2 DEF IsCut

LEMMA StrcatCopies ==
  ASSUME StrInv, strcat
  PROVE  StrInv'
<1>1. Legal(op) /\ mem = op.mem /\ str_at = "call" /\ op.f = "strcat"
  BY DEF StrInv, strcat, Calling
<1>2. PICK m, s, r : m = op.mem /\ s = op.src /\ r = op.dst
  OBVIOUS
<1>3. PICK top \in Nat, e \in Nat, d \in Nat :
        /\ IsMemory(m, top)
        /\ s \in Nat /\ r \in Nat /\ Ends(m, s, e) /\ Ends(m, r, d)
        /\ e \in 0..top /\ d \in 0..top /\ d + (e - s) <= top
  BY <1>1, <1>2, CopyCallIs
<1>4. StringAt(m, s, e) /\ StringAt(m, r, d)
  BY <1>3, StringIs, Zenon
<1>5. PICK k \in Nat, h \in Nat : k = e - s /\ h = d - r
  BY <1>4 DEF StringAt
<1>6. /\ strlenOf(m, s) = k /\ Len(Str(m, s)) = k
      /\ Str(m, s) = [j \in 1..k |-> m[s + j - 1]]
      /\ strlenOf(m, r) = h /\ Len(Str(m, r)) = h
      /\ Str(m, r) = [j \in 1..h |-> m[r + j - 1]]
  BY <1>4, <1>5 DEF StringAt
<1>7. /\ e = s + k /\ s + k <= top /\ d + k <= top /\ d + k \in 0..top /\ Ends(m, s, s + k)
      /\ d = r + h /\ d + k - r = h + k
  BY <1>3, <1>5
<1>8. PICK w : w = CopyTo(m, d, s, k + 1)
  OBVIOUS
<1>9. Returns(w, r, Null)
  BY <1>1, <1>2, <1>6, <1>7, <1>8 DEF strcat
<1>10. IsMemory(w, top) /\ CopiedAt(m, w, s, d, k)
  BY <1>3, <1>7, <1>8, CopiedIs, Zenon
<1>11. /\ \A j \in 0..k : w[d + j] = m[s + j]
       /\ \A p \in DOMAIN m \ (d..d+k) : w[p] = m[p]
       /\ Ends(w, d, d + k) /\ DOMAIN m = 0..top /\ DOMAIN w = 0..top
  BY <1>3, <1>10 DEF CopiedAt, IsMemory
<1>12. \A p \in r..d-1 : w[p] = m[p]
  BY <1>3, <1>7, <1>11
<1>13. Ends(w, r, d + k)
  <2>1. r <= d + k /\ w[d + k] = NUL
    BY <1>3, <1>7, <1>11 DEF Ends
  <2>2. ASSUME NEW i \in r..d+k-1 PROVE w[i] # NUL
    <3>1. CASE i < d
      BY <1>3, <1>12, <3>1 DEF Ends
    <3>2. CASE i >= d
      BY <1>3, <1>11, <3>2 DEF Ends
    <3> QED
      BY <1>3, <3>1, <3>2
  <2> QED
    BY <2>1, <2>2 DEF Ends
<1>14. Str(w, r) = [j \in 1..(h + k) |-> w[r + j - 1]]
  <2>1. PICK f : f = d + k
    OBVIOUS
  <2>2. Ends(w, r, f) /\ f \in 0..top /\ f - r = h + k
    BY <1>3, <1>7, <1>13, <2>1
  <2>3. StringAt(w, r, f)
    BY <1>3, <1>10, <2>2, StringIs, Zenon
  <2> QED
    BY <2>2, <2>3, Zenon DEF StringAt
<1>15. PICK x, y, B : x = Str(m, r) /\ y = Str(m, s) /\ B = 0..255
  OBVIOUS
<1>16. x \in [1..h -> B] /\ y \in [1..k -> B]
  <2>1. m \in [0..top -> B]
    BY <1>1, <1>2, <1>3, <1>15, BytesOf
  <2>2. \A j \in 1..h : r + j - 1 \in 0..top
    BY <1>3, <1>7
  <2>3. \A j \in 1..k : s + j - 1 \in 0..top
    BY <1>3, <1>7
  <2> QED
    BY <1>6, <1>15, <2>1, <2>2, <2>3
<1>17. x \o y = [j \in 1..(h + k) |-> IF j <= h THEN x[j] ELSE y[j - h]]
  <2>1. IsJoin(x, y, h, k)
    BY <1>16, JoinIs, Zenon
  <2> QED
    BY <2>1 DEF IsJoin
<1>18. ASSUME NEW j \in 1..(h + k) PROVE w[r + j - 1] = IF j <= h THEN x[j] ELSE y[j - h]
  <2>1. CASE j <= h
    <3>1. r + j - 1 \in r..d-1 /\ j \in 1..h
      BY <1>3, <1>7, <2>1
    <3>2. x[j] = m[r + j - 1]
      BY <1>6, <1>15, <3>1
    <3> QED
      BY <1>12, <2>1, <3>1, <3>2
  <2>2. CASE ~(j <= h)
    <3>1. PICK i : i = j - h
      OBVIOUS
    <3>2. i \in 1..k /\ i - 1 \in 0..k /\ d + (i - 1) = r + j - 1 /\ s + (i - 1) = s + i - 1
      BY <1>3, <1>7, <2>2, <3>1
    <3>3. y[i] = m[s + i - 1]
      BY <1>6, <1>15, <3>2
    <3>4. w[d + (i - 1)] = m[s + (i - 1)]
      BY <1>11, <3>2
    <3> QED
      BY <2>2, <3>1, <3>2, <3>3, <3>4
  <2> QED
    BY <2>1, <2>2
<1>19. Str(w, r) = x \o y
  <2>1. [j \in 1..(h + k) |-> w[r + j - 1]] = [j \in 1..(h + k) |-> IF j <= h THEN x[j] ELSE y[j - h]]
    BY <1>18, Zenon
  <2> QED
    BY <1>14, <1>17, <2>1, Zenon
<1>20. Len(x \o y) = h + k
  <2>1. x \in Seq(B) /\ y \in Seq(B) /\ Len(x) = h /\ Len(y) = k
    BY <1>16
  <2> QED
    BY <2>1
<1>21. op' = op /\ mem' = w /\ str_at' = "returned"
  BY <1>9 DEF Returns
<1>22. Outside(op.dst, Len(x \o y) + 1)'
  <2>1. \A p \in DOMAIN w \ (r..r+(h+k+1)-1) : w[p] = m[p]
    BY <1>3, <1>7, <1>11
  <2> QED
    BY <1>2, <1>20, <1>21, <2>1, Zenon DEF Outside
<1>23. StringsCopied'
  BY <1>1, <1>2, <1>15, <1>19, <1>21, <1>22 DEF StringsCopied, Done
<1> QED
  BY <1>1, <1>2, <1>3, <1>9, <1>10, <1>23, StringReturns DEF IsBlock, IsMemory

LEMMA StrncpyCopies ==
  ASSUME StrInv, strncpy
  PROVE  StrInv'
<1>1. Legal(op) /\ mem = op.mem /\ str_at = "call" /\ op.f = "strncpy"
  BY DEF StrInv, strncpy, Calling
<1>2. PICK m, s, d, n : m = op.mem /\ s = op.src /\ d = op.dst /\ n = op.n
  OBVIOUS
<1>3. PICK top \in Nat, e \in Nat :
        /\ IsMemory(m, top) /\ Ends(m, s, e) /\ e \in 0..top
        /\ s \in Nat /\ d \in Nat /\ n \in Nat /\ d + n <= top + 1
  BY <1>1, <1>2, CopyCallIs
<1>4. StringAt(m, s, e)
  BY <1>3, StringIs, Zenon
<1>5. PICK k \in Nat : k = e - s
  BY <1>4 DEF StringAt
<1>6. /\ strlenOf(m, s) = k /\ Len(Str(m, s)) = k
      /\ Str(m, s) = [j \in 1..k |-> m[s + j - 1]]
  BY <1>4, <1>5 DEF StringAt
<1>7. PICK w : w = [p \in DOMAIN m |->
                      IF p \in d..d+n-1 THEN IF p - d < k THEN m[s + (p - d)] ELSE NUL ELSE m[p]]
  OBVIOUS
<1>8. Returns(w, d, Null)
  BY <1>1, <1>2, <1>6, <1>7 DEF strncpy
<1>9. op' = op /\ mem' = w /\ str_at' = "returned"
  BY <1>8 DEF Returns
<1>10. DOMAIN w = DOMAIN m /\ DOMAIN m = 0..top
  BY <1>3, <1>7 DEF IsMemory
<1>11. Outside(op.dst, op.n)'
  <2>1. \A p \in DOMAIN w \ (d..d+n-1) : w[p] = m[p]
    BY <1>7
  <2> QED
    BY <1>2, <1>9, <2>1, Zenon DEF Outside
<1>12. \A j \in 1..n : w[d + j - 1] = IF j <= k THEN Str(m, s)[j] ELSE NUL
  <2> SUFFICES ASSUME NEW j \in 1..n PROVE w[d + j - 1] = IF j <= k THEN Str(m, s)[j] ELSE NUL
    OBVIOUS
  <2>1. PICK p : p = d + j - 1
    OBVIOUS
  <2>2. p \in DOMAIN m /\ p \in d..d+n-1 /\ (p - d < k <=> j <= k) /\ s + (p - d) = s + j - 1
    BY <1>3, <1>10, <2>1
  <2>3. w[p] = IF p - d < k THEN m[s + (p - d)] ELSE NUL
    BY <1>7, <2>2
  <2>4. CASE j <= k
    <3>1. Str(m, s)[j] = m[s + j - 1]
      BY <1>6, <2>4
    <3> QED
      BY <2>1, <2>2, <2>3, <2>4, <3>1
  <2>5. CASE ~(j <= k)
    BY <2>1, <2>2, <2>3, <2>5
  <2> QED
    BY <2>4, <2>5
<1>13. StringsCopied'
  BY <1>1, <1>2, <1>6, <1>9, <1>11, <1>12 DEF StringsCopied, Done
<1> QED
  BY <1>1, <1>2, <1>8, <1>10, <1>13, StringReturns DEF IsBlock

\* In m, strlcpy of the string at s to n bytes copies q.
StopsAt(m, s, n, q) == First(0, {i \in Nat : i = n - 1 \/ m[s + i] = NUL}) = q

\* strlcpy stops at the terminator or one byte before the end of the room.
LEMMA StrlcpyStops ==
  ASSUME NEW m, NEW s \in Nat, NEW k \in Nat, Ends(m, s, s + k), NEW n \in Nat \ {0},
         NEW q, q = IF n - 1 < k THEN n - 1 ELSE k
  PROVE  StopsAt(m, s, n, q)
<1> DEFINE S == {i \in Nat : i = n - 1 \/ m[s + i] = NUL}
<1>1. m[s + k] = NUL /\ \A j \in s..s+k-1 : m[j] # NUL
  BY DEF Ends
<1>2. q \in S /\ 0 <= q /\ S \in SUBSET Nat
  BY <1>1
<1>3. ASSUME NEW i \in 0..q-1 PROVE i \notin S
  <2>1. s + i \in s..s+k-1 /\ i # n - 1
    OBVIOUS
  <2> QED
    BY <1>1, <2>1
<1> HIDE DEF S
<1>4. First(0, S) = q
  BY <1>2, <1>3, FirstIs
<1> QED
  BY <1>4 DEF S, StopsAt

LEMMA StrlcpyCopies ==
  ASSUME StrInv, strlcpy, op.n # 0
  PROVE  StrInv'
<1>1. Legal(op) /\ mem = op.mem /\ str_at = "call" /\ op.f = "strlcpy"
  BY DEF StrInv, strlcpy, Calling
<1>2. PICK m, s, d, n : m = op.mem /\ s = op.src /\ d = op.dst /\ n = op.n
  OBVIOUS
<1>3. PICK top \in Nat, e \in Nat :
        /\ IsMemory(m, top) /\ Ends(m, s, e) /\ e \in 0..top
        /\ s \in Nat /\ d \in Nat /\ n \in Nat \ {0} /\ d + n <= top + 1
  BY <1>1, <1>2, CopyCallIs
<1>4. StringAt(m, s, e)
  BY <1>3, StringIs, Zenon
<1>5. PICK k \in Nat : k = e - s
  BY <1>4 DEF StringAt
<1>6. Len(Str(m, s)) = k /\ Str(m, s) = [j \in 1..k |-> m[s + j - 1]]
  BY <1>4, <1>5 DEF StringAt
<1>7. e = s + k /\ Ends(m, s, s + k) /\ s + k <= top
  BY <1>3, <1>5
<1>8. PICK q \in Nat : q = IF n - 1 < k THEN n - 1 ELSE k
  BY <1>3
<1>9. q <= k /\ q <= n - 1 /\ (q = n - 1 \/ q = k) /\ d + q \in 0..top
  BY <1>3, <1>8
<1>10. First(0, {i \in Nat : i = n - 1 \/ m[s + i] = NUL}) = q
  <2>1. StopsAt(m, s, n, q)
    BY <1>3, <1>7, <1>8, StrlcpyStops, Zenon
  <2> QED
    BY <2>1 DEF StopsAt
<1>11. PICK w : w = [CopyTo(m, d, s, q) EXCEPT ![d + q] = NUL]
  OBVIOUS
<1>12. Returns(w, q, Null)
  BY <1>1, <1>2, <1>10, <1>11 DEF strlcpy
<1>13. op' = op /\ mem' = w /\ str_at' = "returned" /\ res' = [val |-> q, end |-> Null]
  BY <1>12 DEF Returns
<1>14. DOMAIN w = DOMAIN m /\ DOMAIN m = 0..top
  BY <1>3, <1>11 DEF IsMemory, CopyTo
<1>15. \A p \in 0..top : w[p] = IF p = d + q THEN NUL ELSE IF p \in d..d+q-1 THEN m[s + p - d] ELSE m[p]
  BY <1>11, <1>14 DEF CopyTo
<1>16. Outside(op.dst, op.n)'
  <2>1. \A p \in DOMAIN w \ (d..d+n-1) : w[p] = m[p]
    BY <1>3, <1>9, <1>14, <1>15
  <2> QED
    BY <1>2, <1>13, <2>1, Zenon DEF Outside
<1>17. w[d + q] = NUL /\ \A j \in 0..q-1 : w[d + j] = m[s + j] /\ m[s + j] # NUL
  <2>1. w[d + q] = NUL
    BY <1>9, <1>15
  <2>2. ASSUME NEW j \in 0..q-1 PROVE w[d + j] = m[s + j] /\ m[s + j] # NUL
    <3>1. PICK p : p = d + j
      OBVIOUS
    <3>2. p \in 0..top /\ p # d + q /\ p \in d..d+q-1 /\ s + p - d = s + j /\ s + j \in s..s+k-1
      BY <1>3, <1>9, <3>1
    <3>3. m[s + j] # NUL
      <4>1. \A i \in s..s+k-1 : m[i] # NUL
        BY <1>3, <1>7 DEF Ends
      <4> QED
        BY <3>2, <4>1, Zenon
    <3> QED
      BY <1>15, <3>1, <3>2, <3>3
  <2> QED
    BY <2>1, <2>2
<1>18. Ends(w, d, d + q)
  <2>1. ASSUME NEW i \in d..d+q-1 PROVE w[i] # NUL
    <3>1. i - d \in 0..q-1 /\ d + (i - d) = i
      BY <1>3
    <3> QED
      BY <1>17, <3>1
  <2> QED
    BY <1>3, <1>17, <2>1 DEF Ends
<1>19. Str(w, d) = [j \in 1..q |-> w[d + j - 1]]
  <2>1. PICK f : f = d + q
    OBVIOUS
  <2>2. Ends(w, d, f) /\ f \in 0..top /\ f - d = q /\ IsMemory(w, top)
    BY <1>3, <1>9, <1>14, <1>18, <2>1 DEF IsMemory
  <2>3. StringAt(w, d, f)
    BY <1>3, <2>2, StringIs, Zenon
  <2> QED
    BY <2>2, <2>3, Zenon DEF StringAt
<1>20. PICK x, B : x = Str(m, s) /\ B = 0..255
  OBVIOUS
<1>21. x \in [1..k -> B] /\ q \in 0..k
  <2>1. m \in [0..top -> B]
    BY <1>1, <1>2, <1>3, <1>20, BytesOf
  <2>2. \A j \in 1..k : s + j - 1 \in 0..top
    BY <1>3, <1>7
  <2> QED
    <3>1. x = [j \in 1..k |-> m[s + j - 1]]
      BY <1>6, <1>20
    <3>2. x \in [1..k -> B]
      BY <2>1, <2>2, <3>1
    <3> QED
      BY <1>9, <3>2
<1>22. SubSeq(x, 1, q) = [j \in 1..q |-> x[j]] /\ Len(SubSeq(x, 1, q)) = q
  <2>1. IsCut(x, q)
    BY <1>21, SubIs, Zenon
  <2> QED
    BY <2>1 DEF IsCut
<1>23. Str(w, d) = SubSeq(x, 1, q)
  <2>1. ASSUME NEW j \in 1..q PROVE w[d + j - 1] = x[j]
    <3>1. j - 1 \in 0..q-1 /\ d + (j - 1) = d + j - 1 /\ s + (j - 1) = s + j - 1 /\ j \in 1..k
      BY <1>3, <1>9
    <3>2. x[j] = m[s + j - 1]
      BY <1>6, <1>20, <3>1
    <3> QED
      BY <1>17, <3>1, <3>2
  <2>2. [j \in 1..q |-> w[d + j - 1]] = [j \in 1..q |-> x[j]]
    BY <2>1, Zenon
  <2> QED
    BY <1>19, <1>22, <2>2, Zenon
<1>24. q = IF op.n - 1 < Len(Str(op.mem, op.src)) THEN op.n - 1 ELSE Len(Str(op.mem, op.src))
  BY <1>2, <1>6, <1>8, Zenon
<1>25. res'.val = Len(SubSeq(x, 1, q))
  BY <1>13, <1>22
<1>26. StringsCopied'
  BY <1>1, <1>2, <1>13, <1>16, <1>20, <1>23, <1>24, <1>25 DEF StringsCopied, Done
<1> QED
  BY <1>1, <1>2, <1>12, <1>14, <1>26, StringReturns DEF IsBlock

\* The functions that only look leave the memory as it is, and strlcpy to no room.
Looks ==
  \/ strlen \/ strcmp \/ strncmp \/ memcmp \/ strchr \/ strfind \/ memfind \/ strstr \/ strtol

LEMMA LooksOnly ==
  ASSUME StrInv, Looks \/ (strlcpy /\ op.n = 0)
  PROVE  StrInv'
<1>1. /\ str_at = "call" /\ \E v, end : Returns(mem, v, end)
      /\ op.f \notin {"memset", "memmove", "strcpy", "strcat", "strncpy"}
      /\ op.f = "strlcpy" => op.n = 0
  <2>1. CASE strlen
    BY <2>1 DEF strlen, Calling
  <2>2. CASE strcmp
    BY <2>2 DEF strcmp, Calling
  <2>3. CASE strncmp
    BY <2>3 DEF strncmp, Calling
  <2>4. CASE memcmp
    BY <2>4 DEF memcmp, Calling
  <2>5. CASE strchr
    BY <2>5 DEF strchr, Calling
  <2>6. CASE strfind
    BY <2>6 DEF strfind, Calling
  <2>7. CASE memfind
    BY <2>7 DEF memfind, Calling
  <2>8. CASE strstr
    BY <2>8 DEF strstr, Calling
  <2>9. CASE strtol
    BY <2>9 DEF strtol, Calling
  <2>10. CASE strlcpy /\ op.n = 0
    BY <2>10 DEF strlcpy, Calling
  <2> QED
    BY <2>1, <2>2, <2>3, <2>4, <2>5, <2>6, <2>7, <2>8, <2>9, <2>10 DEF Looks
<1>2. PICK v, end : Returns(mem, v, end)
  BY <1>1
<1>3. op' = op
  BY <1>2 DEF Returns
<1>4. StringsCopied'
  BY <1>1, <1>3 DEF StringsCopied, Done
<1> QED
  BY <1>1, <1>2, <1>4, StringReturns DEF IsBlock
-----------------------------------------------------------------------------
(* The functions that search and compare. *)

\* Place i is the first of T from p on.
IsFirst(i, p, T) == i \in T /\ p <= i /\ \A k \in p..i-1 : k \notin T

\* A loop that can end does, at the first such place.
LEMMA FirstExists ==
  ASSUME NEW T \in SUBSET Nat, NEW p \in Nat, NEW q \in T, p <= q
  PROVE  First(p, T) \in p..q /\ IsFirst(First(p, T), p, T)
<1> DEFINE S == {k \in T : p <= k}
<1>1. S \in SUBSET Nat /\ S # {}
  OBVIOUS
<1>2. PICK i \in S : \A k \in S : i <= k
  <2> HIDE DEF S
  <2> QED
    BY <1>1, LeastNat
<1>3. i \in p..q /\ IsFirst(i, p, T)
  BY <1>2 DEF IsFirst
<1>4. First(p, T) = i
  BY <1>3, FirstIs DEF IsFirst
<1> QED
  BY <1>3, <1>4

LEMMA MinIs ==
  ASSUME NEW S \in SUBSET Nat, NEW x \in S, \A y \in S : x <= y
  PROVE  Min(S) = x
<1>1. Min(S) \in S /\ \A y \in S : Min(S) <= y
  BY DEF Min
<1>2. PICK m \in Nat : m = Min(S)
  BY <1>1
<1>3. x \in Nat /\ m <= x /\ x <= m
  BY <1>1, <1>2
<1> QED
  BY <1>2, <1>3

\* A search of n places from p on ends at i: where it is, or there is none.
FoundAt(S, p, n, i) ==
  IF i = p + n THEN S = {} ELSE S # {} /\ p + Min(S) - 1 = i

LEMMA FoundIs ==
  ASSUME NEW p \in Nat, NEW n \in Nat, NEW S \in SUBSET (1..n), NEW i \in p..p+n,
         i < p + n => i - p + 1 \in S, \A j \in p..i-1 : j - p + 1 \notin S
  PROVE  FoundAt(S, p, n, i)
<1>1. \A y \in S : y \in Nat /\ y >= 1 /\ y <= n /\ y >= i - p + 1
  <2> SUFFICES ASSUME NEW y \in S, ~(y >= i - p + 1) PROVE FALSE
    OBVIOUS
  <2>1. p + y - 1 \in p..i-1 /\ (p + y - 1) - p + 1 = y
    OBVIOUS
  <2> QED
    BY <2>1
<1>2. CASE i = p + n
  BY <1>1, <1>2 DEF FoundAt
<1>3. CASE i < p + n
  <2>1. PICK x \in Nat : x = i - p + 1
    OBVIOUS
  <2>2. x \in S /\ S \in SUBSET Nat /\ \A y \in S : x <= y
    BY <1>1, <1>3, <2>1
  <2>3. Min(S) = x
    BY <2>2, MinIs
  <2> QED
    BY <1>3, <2>1, <2>2, <2>3 DEF FoundAt
<1> QED
  BY <1>2, <1>3

\* What the caller of a function that reads a string at p guarantees.
LEMMA ReadIs ==
  ASSUME Legal(op), NEW p, Reads(op, p)
  PROVE  \E top, e \in Nat : /\ IsMemory(op.mem, top) /\ op.mem \in [0..top -> 0..255]
                             /\ p \in Nat /\ e \in 0..top /\ Ends(op.mem, p, e)
<1>1. PICK top : top = Max(DOMAIN op.mem)
  OBVIOUS
<1>2. top \in Nat /\ op.mem \in [0..top -> 0..255] /\ DOMAIN op.mem = 0..top
  BY <1>1 DEF Legal
<1>3. p \in Nat /\ \E e \in 0..top : Ends(op.mem, p, e)
  BY <1>2 DEF Reads
<1>4. IsMemory(op.mem, top)
  BY <1>1, <1>2 DEF IsMemory
<1>5. PICK e \in 0..top : Ends(op.mem, p, e)
  BY <1>3
<1>6. e \in Nat
  BY <1>2
<1> QED
  BY <1>2, <1>3, <1>4, <1>5, <1>6, Zenon

\* strchr's and strfind's loop.
LetterAt(m, p, e, c, i) ==
  /\ FoundAt({k \in 1..Len(Str(m, p)) : Str(m, p)[k] = c}, p, e - p, i)
  /\ i \in p..e /\ (m[i] = NUL <=> i = e)

LEMMA LetterIs ==
  ASSUME NEW m, NEW top, IsMemory(m, top), NEW p \in Nat, NEW e \in 0..top, Ends(m, p, e),
         NEW c, NEW i, i = First(p, {q \in Nat : m[q] \in {NUL, c}})
  PROVE  LetterAt(m, p, e, c, i)
<1> DEFINE T == {q \in Nat : m[q] \in {NUL, c}}
<1>1. p <= e /\ m[e] = NUL /\ (\A k \in p..e-1 : m[k] # NUL) /\ top \in Nat
  BY DEF Ends, IsMemory
<1>2. T \in SUBSET Nat /\ e \in T
  BY <1>1
<1>3. i \in p..e /\ IsFirst(i, p, T)
  <2>1. i = First(p, T)
    OBVIOUS
  <2> HIDE DEF T
  <2> QED
    BY <1>1, <1>2, <2>1, FirstExists
<1>4. m[i] \in {NUL, c} /\ \A k \in p..i-1 : m[k] # c
  BY <1>3 DEF IsFirst
<1>5. m[i] = NUL <=> i = e
  BY <1>1, <1>3
<1>6. PICK n \in Nat : n = e - p
  BY <1>1
<1>7. PICK x : x = Str(m, p)
  OBVIOUS
<1>8. Len(x) = n /\ x = [k \in 1..n |-> m[p + k - 1]]
  <2>1. StringAt(m, p, e)
    BY StringIs, Zenon
  <2> QED
    BY <1>6, <1>7, <2>1 DEF StringAt
<1>9. PICK S : S = {k \in 1..Len(x) : x[k] = c}
  OBVIOUS
<1>10. \A k \in 1..n : k \in S <=> m[p + k - 1] = c
  BY <1>8, <1>9
<1>11. S \in SUBSET (1..n) /\ i \in p..p+n /\ p + n = e
  BY <1>3, <1>6, <1>8, <1>9
<1>12. i < p + n => i - p + 1 \in S
  <2> SUFFICES ASSUME i < p + n PROVE i - p + 1 \in S
    OBVIOUS
  <2>1. i - p + 1 \in 1..n /\ p + (i - p + 1) - 1 = i /\ i # e
    BY <1>11
  <2>2. m[i] = c
    BY <1>4, <1>5, <2>1
  <2> QED
    BY <1>10, <2>1, <2>2
<1>13. ASSUME NEW j \in p..i-1 PROVE j - p + 1 \notin S
  <2>1. j - p + 1 \in 1..n /\ p + (j - p + 1) - 1 = j
    BY <1>11
  <2> QED
    BY <1>4, <1>10, <2>1
<1>14. FoundAt(S, p, n, i)
  BY <1>11, <1>12, <1>13, FoundIs
<1> QED
  BY <1>3, <1>5, <1>6, <1>7, <1>9, <1>14 DEF LetterAt

\* memfind's loop.
LEMMA ByteIs ==
  ASSUME NEW m, NEW p \in Nat, NEW n \in Nat, NEW c,
         NEW i, i = First(p, {q \in Nat : q = p + n \/ m[q] = c}),
         NEW S, S = {k \in 1..n : m[p + k - 1] = c}
  PROVE  FoundAt(S, p, n, i)
<1> DEFINE T == {q \in Nat : q = p + n \/ m[q] = c}
<1>1. i \in p..p+n /\ IsFirst(i, p, T)
  <2>1. T \in SUBSET Nat /\ p + n \in T /\ i = First(p, T) /\ p <= p + n
    OBVIOUS
  <2> HIDE DEF T
  <2> QED
    BY <2>1, FirstExists
<1>2. (i < p + n => m[i] = c) /\ \A k \in p..i-1 : m[k] # c
  BY <1>1 DEF IsFirst
<1>3. i < p + n => i - p + 1 \in S
  <2> SUFFICES ASSUME i < p + n PROVE i - p + 1 \in S
    OBVIOUS
  <2>1. i - p + 1 \in 1..n /\ p + (i - p + 1) - 1 = i
    BY <1>1
  <2> QED
    BY <1>2, <2>1
<1>4. ASSUME NEW j \in p..i-1 PROVE j - p + 1 \notin S
  <2>1. j - p + 1 \in 1..n /\ p + (j - p + 1) - 1 = j
    BY <1>1
  <2> QED
    BY <1>2, <2>1
<1>5. S \in SUBSET (1..n)
  OBVIOUS
<1> QED
  BY <1>1, <1>3, <1>4, <1>5, FoundIs

\* What one call returns, for a call that looks.
LookReturns(v) == StrInv /\ str_at = "call" /\ Returns(mem, v, Null)

LEMMA LookIs ==
  ASSUME NEW v, LookReturns(v)
  PROVE  Legal(op) /\ mem = op.mem /\ op' = op /\ res'.val = v
<1>1. Legal(op) /\ mem = op.mem
  BY DEF LookReturns, StrInv
<1>2. op' = op /\ res' = [val |-> v, end |-> Null]
  BY DEF LookReturns, Returns
<1> QED
  BY <1>1, <1>2

LEMMA StrlenFinds ==
  ASSUME StrInv, strlen
  PROVE  SearchesFind'
<1>1. LookReturns(strlenOf(mem, op.src)) /\ op.f = "strlen"
  BY DEF strlen, Calling, LookReturns
<1>2. Legal(op) /\ mem = op.mem /\ op' = op /\ res'.val = strlenOf(mem, op.src)
  BY <1>1, LookIs
<1>3. PICK m, p : m = op.mem /\ p = op.src
  OBVIOUS
<1>4. Reads(op, p)
  BY <1>1, <1>2, <1>3 DEF Legal
<1>5. PICK top \in Nat, e \in Nat :
        /\ IsMemory(m, top) /\ p \in Nat /\ e \in 0..top /\ Ends(m, p, e)
  BY <1>2, <1>3, <1>4, ReadIs
<1>6. StringAt(m, p, e)
  BY <1>5, StringIs, Zenon
<1>7. res'.val = Len(Str(op.mem, op.src))
  BY <1>2, <1>3, <1>6 DEF StringAt
<1> QED
  BY <1>1, <1>2, <1>7 DEF SearchesFind, Done

LEMMA StrchrFinds ==
  ASSUME StrInv, strchr \/ strfind
  PROVE  SearchesFind'
<1>1. PICK m, p, c : m = op.mem /\ p = op.src /\ c = op.c
  OBVIOUS
<1>2. PICK i : i = First(p, {q \in Nat : m[q] \in {NUL, c}})
  OBVIOUS
<1>3. PICK v : v = IF strchr THEN IF m[i] = NUL THEN Null ELSE i ELSE i
  OBVIOUS
<1>4. mem = m
  BY <1>1 DEF strchr, strfind, Calling, StrInv
<1>5. LookReturns(v) /\ op.f = (IF strchr THEN "strchr" ELSE "strfind")
  <2>1. CASE strchr
    BY <1>1, <1>2, <1>3, <1>4, <2>1 DEF strchr, Calling, LookReturns
  <2>2. CASE strfind /\ ~strchr
    BY <1>1, <1>2, <1>3, <1>4, <2>2 DEF strfind, Calling, LookReturns
  <2> QED
    BY <2>1, <2>2
<1>6. Legal(op) /\ op' = op /\ res'.val = v
  BY <1>5, LookIs
<1>7. Reads(op, p)
  BY <1>1, <1>5, <1>6 DEF Legal
<1>8. PICK top \in Nat, e \in Nat :
        /\ IsMemory(m, top) /\ p \in Nat /\ e \in 0..top /\ Ends(m, p, e)
  BY <1>1, <1>6, <1>7, ReadIs
<1>9. LetterAt(m, p, e, c, i)
  BY <1>2, <1>8, LetterIs, Zenon
<1>10. PICK x, S : x = Str(m, p) /\ S = {k \in 1..Len(x) : x[k] = c}
  OBVIOUS
<1>11. FoundAt(S, p, e - p, i) /\ i \in p..e /\ (m[i] = NUL <=> i = e) /\ p + (e - p) = e
  BY <1>8, <1>9, <1>10 DEF LetterAt
<1>12. p + Len(x) = e
  <2>1. StringAt(m, p, e)
    BY <1>8, StringIs, Zenon
  <2> QED
    BY <1>8, <1>10, <2>1 DEF StringAt
<1>13. v = IF S = {} THEN IF strchr THEN Null ELSE p + Len(x) ELSE p + Min(S) - 1
  BY <1>3, <1>11, <1>12 DEF FoundAt
<1> QED
  BY <1>1, <1>5, <1>6, <1>10, <1>13 DEF SearchesFind, Done

LEMMA MemfindFinds ==
  ASSUME StrInv, memfind
  PROVE  SearchesFind'
<1>1. PICK m, p, n, c : m = op.mem /\ p = op.src /\ n = op.n /\ c = op.c % 256
  OBVIOUS
<1>2. PICK i : i = First(p, {q \in Nat : q = p + n \/ m[q] = c})
  OBVIOUS
<1>3. mem = m /\ op.f = "memfind"
  BY <1>1 DEF memfind, Calling, StrInv
<1>4. LookReturns(i)
  BY <1>1, <1>2, <1>3 DEF memfind, Calling, LookReturns
<1>5. Legal(op) /\ op' = op /\ res'.val = i
  BY <1>4, LookIs
<1>6. p \in Nat /\ n \in Nat
  BY <1>1, <1>3, <1>5 DEF Legal, InMemory
<1>7. PICK S : S = {k \in 1..n : m[p + k - 1] = c}
  OBVIOUS
<1>8. FoundAt(S, p, n, i)
  BY <1>2, <1>6, <1>7, ByteIs
<1>9. S = {k \in 1..n : [j \in 1..n |-> m[p + j - 1]][k] = c}
  BY <1>7
<1>10. i = IF S = {} THEN p + n ELSE p + Min(S) - 1
  BY <1>8 DEF FoundAt
<1> QED
  BY <1>1, <1>3, <1>5, <1>9, <1>10 DEF SearchesFind, Done

\* Two sequences that agree in their first q elements, and how they go on.
Agree(x, y, a, z, q) ==
  /\ q <= a /\ q <= z /\ \A j \in 1..q : x[j] = y[j]
  /\ q < a /\ q < z => x[q + 1] # y[q + 1]

ComparesAt(x, y, a, z, q) ==
  Compare(x, y) = IF q = a THEN IF q = z THEN 0 ELSE -1
                  ELSE IF q < z /\ x[q + 1] < y[q + 1] THEN -1 ELSE 1

LEMMA CompareIs ==
  ASSUME NEW a \in Nat, NEW z \in Nat, NEW q \in Nat, NEW B, B = 0..255,
         NEW x \in [1..a -> B], NEW y \in [1..z -> B], Agree(x, y, a, z, q)
  PROVE  ComparesAt(x, y, a, z, q)
<1> USE DEF ComparesAt
<1>1. Len(x) = a /\ Len(y) = z
  OBVIOUS
<1>2. CASE q = a /\ q = z
  <2>1. x = y
    BY <1>2 DEF Agree
  <2> QED
    BY <1>2, <2>1 DEF Compare
<1>3. CASE ~(q = a /\ q = z)
  <2>1. x # y
    <3>1. CASE a # z
      BY <1>1, <3>1
    <3>2. CASE a = z
      <4>1. q + 1 \in 1..a /\ x[q + 1] # y[q + 1]
        BY <1>3, <3>2 DEF Agree
      <4> QED
        BY <4>1
    <3> QED
      BY <3>1, <3>2
  <2>2. PICK S : S = {j \in 1..a+1 : j > a \/ j > z \/ x[j] # y[j]}
    OBVIOUS
  <2>3. q + 1 \in S /\ S \in SUBSET Nat
    BY <1>3, <2>2 DEF Agree
  <2>4. ASSUME NEW j \in S PROVE q + 1 <= j
    <3> SUFFICES ASSUME j <= q PROVE FALSE
      BY <2>2
    <3>1. j \in 1..q /\ j <= a /\ j <= z
      BY <2>2 DEF Agree
    <3>2. x[j] = y[j]
      BY <3>1 DEF Agree
    <3> QED
      BY <2>2, <3>1, <3>2
  <2>5. Min(S) = q + 1
    BY <2>3, <2>4, MinIs
  <2>6. Compare(x, y) = IF q + 1 > a \/ (q + 1 <= z /\ x[q + 1] < y[q + 1]) THEN -1 ELSE 1
    BY <1>1, <2>1, <2>2, <2>5 DEF Compare
  <2>7. CASE q = a
    BY <1>3, <2>6, <2>7
  <2>8. CASE q # a
    <3>1. ~(q + 1 > a) /\ (q + 1 <= z <=> q < z)
      BY <2>8 DEF Agree
    <3> QED
      BY <2>6, <2>8, <3>1
  <2> QED
    BY <2>7, <2>8
<1> QED
  BY <1>2, <1>3

\* The n bytes from p on.
Slice(m, p, n) == [j \in 1..n |-> m[p + j - 1]]

\* d has the sign of the order of a bytes at p and z at r.
Orders(d, m, p, r, a, z) == Sign(d) = Compare(Slice(m, p, a), Slice(m, r, z))

\* A comparison of a bytes at p with z bytes at r that ends at the q-th with d.
DiffersAt(m, p, r, a, z, q, d) ==
  /\ q <= a /\ q <= z /\ \A j \in 0..q-1 : m[p + j] = m[r + j]
  /\ \/ q = a /\ q = z /\ d = 0
     \/ q = a /\ q < z /\ d < 0
     \/ q < a /\ q = z /\ d > 0
     \/ q < a /\ q < z /\ m[p + q] # m[r + q] /\ d = m[p + q] - m[r + q]

LEMMA DiffIs ==
  ASSUME NEW top \in Nat, NEW m \in [0..top -> 0..255], NEW p \in Nat, NEW r \in Nat,
         NEW a \in Nat, NEW z \in Nat, p + a <= top + 1, r + z <= top + 1,
         NEW q \in Nat, NEW d \in Int, DiffersAt(m, p, r, a, z, q, d)
  PROVE  Orders(d, m, p, r, a, z)
<1>1. PICK x, y, B : x = Slice(m, p, a) /\ y = Slice(m, r, z) /\ B = 0..255
  OBVIOUS
<1>2. x = [j \in 1..a |-> m[p + j - 1]] /\ y = [j \in 1..z |-> m[r + j - 1]]
  BY <1>1 DEF Slice
<1>3. x \in [1..a -> B] /\ y \in [1..z -> B]
  <2>1. \A j \in 1..a : p + j - 1 \in 0..top
    OBVIOUS
  <2>2. \A j \in 1..z : r + j - 1 \in 0..top
    OBVIOUS
  <2> QED
    BY <1>1, <1>2, <2>1, <2>2
<1>4. /\ q <= a /\ q <= z /\ \A j \in 0..q-1 : m[p + j] = m[r + j]
      /\ \/ q = a /\ q = z /\ d = 0
         \/ q = a /\ q < z /\ d < 0
         \/ q < a /\ q = z /\ d > 0
         \/ q < a /\ q < z /\ m[p + q] # m[r + q] /\ d = m[p + q] - m[r + q]
  BY DEF DiffersAt
<1>5. q < a => x[q + 1] = m[p + q]
  <2>1. q < a => q + 1 \in 1..a /\ p + (q + 1) - 1 = p + q
    OBVIOUS
  <2> QED
    BY <1>2, <2>1
<1>6. q < z => y[q + 1] = m[r + q]
  <2>1. q < z => q + 1 \in 1..z /\ r + (q + 1) - 1 = r + q
    OBVIOUS
  <2> QED
    BY <1>2, <2>1
<1>7. Agree(x, y, a, z, q)
  <2>1. ASSUME NEW j \in 1..q PROVE x[j] = y[j]
    <3>1. j \in 1..a /\ j \in 1..z /\ j - 1 \in 0..q-1 /\ p + (j - 1) = p + j - 1 /\ r + (j - 1) = r + j - 1
      BY <1>4
    <3> QED
      BY <1>2, <1>4, <3>1
  <2> QED
    BY <1>4, <1>5, <1>6, <2>1 DEF Agree
<1>8. Compare(x, y) = IF q = a THEN IF q = z THEN 0 ELSE -1
                      ELSE IF q < z /\ x[q + 1] < y[q + 1] THEN -1 ELSE 1
  <2>1. ComparesAt(x, y, a, z, q)
    BY <1>1, <1>3, <1>7, CompareIs, Zenon
  <2> QED
    BY <2>1 DEF ComparesAt
<1>9. q < a => m[p + q] \in 0..255
  OBVIOUS
<1>10. q < z => m[r + q] \in 0..255
  OBVIOUS
<1>11. Sign(d) = IF d < 0 THEN -1 ELSE IF d = 0 THEN 0 ELSE 1
  BY DEF Sign
<1>12. Sign(d) = Compare(x, y)
  <2>1. CASE q = a
    BY <1>4, <1>8, <1>11, <2>1
  <2>2. CASE q # a /\ q = z
    BY <1>4, <1>8, <1>11, <2>2
  <2>3. CASE q # a /\ q # z
    <3>1. PICK u \in 0..255, v \in 0..255 : u = m[p + q] /\ v = m[r + q]
      BY <1>4, <1>9, <1>10, <2>3
    <3>2. u # v /\ d = u - v /\ x[q + 1] = u /\ y[q + 1] = v /\ q < z
      BY <1>4, <1>5, <1>6, <2>3, <3>1
    <3>3. Compare(x, y) = IF u < v THEN -1 ELSE 1
      BY <1>8, <2>3, <3>2
    <3> QED
      BY <1>11, <3>2, <3>3
  <2> QED
    BY <2>1, <2>2, <2>3
<1> QED
  BY <1>1, <1>12 DEF Orders

\* The q bytes at p and at r are the same, and none is null.
SameBytes(m, p, r, q) == \A j \in 0..q-1 : m[p + j] # NUL /\ m[p + j] = m[r + j]

\* Bytes that are equal and not null belong to both strings.
LEMMA EqualInside ==
  ASSUME NEW m, NEW p \in Nat, NEW r \in Nat, NEW a \in Nat, NEW z \in Nat,
         Ends(m, p, p + a), Ends(m, r, r + z),
         NEW q \in Nat, SameBytes(m, p, r, q)
  PROVE  q <= a /\ q <= z
<1>1. m[p + a] = NUL /\ m[r + z] = NUL
  BY DEF Ends
<1>2. q <= a
  <2> SUFFICES ASSUME a < q PROVE FALSE
    OBVIOUS
  <2>1. a \in 0..q-1
    OBVIOUS
  <2> QED
    BY <1>1, <2>1 DEF SameBytes
<1>3. q <= z
  <2> SUFFICES ASSUME z < q PROVE FALSE
    OBVIOUS
  <2>1. z \in 0..q-1
    OBVIOUS
  <2> QED
    BY <1>1, <2>1 DEF SameBytes
<1> QED
  BY <1>2, <1>3

\* The place where strcmp and strncmp stop, for strings of a and z bytes.
LEMMA StringsDiffer ==
  ASSUME NEW top \in Nat, NEW m \in [0..top -> 0..255], NEW p \in Nat, NEW r \in Nat,
         NEW a \in Nat, NEW z \in Nat, p + a <= top, r + z <= top,
         Ends(m, p, p + a), Ends(m, r, r + z),
         NEW q \in Nat, SameBytes(m, p, r, q),
         m[p + q] = NUL \/ m[p + q] # m[r + q]
  PROVE  DiffersAt(m, p, r, a, z, q, m[p + q] - m[r + q]) /\ m[p + q] - m[r + q] \in Int
<1>1. /\ m[p + a] = NUL /\ m[r + z] = NUL
      /\ \A k \in p..p+a-1 : m[k] # NUL
      /\ \A k \in r..r+z-1 : m[k] # NUL
  BY DEF Ends
<1>2. q <= a /\ q <= z
  BY EqualInside, Zenon
<1>4. PICK u \in 0..255, v \in 0..255 : u = m[p + q] /\ v = m[r + q]
  <2>1. p + q \in 0..top /\ r + q \in 0..top
    BY <1>2
  <2> QED
    BY <2>1
<1>5. (q < a => u # 0) /\ (q = a => u = 0)
  <2>1. q < a => p + q \in p..p+a-1
    OBVIOUS
  <2> QED
    BY <1>1, <1>4, <2>1 DEF NUL
<1>6. (q < z => v # 0) /\ (q = z => v = 0)
  <2>1. q < z => r + q \in r..r+z-1
    OBVIOUS
  <2> QED
    BY <1>1, <1>4, <2>1 DEF NUL
<1>7. u = 0 \/ u # v
  BY <1>4 DEF NUL
<1>8. \/ q = a /\ q = z /\ u - v = 0
      \/ q = a /\ q < z /\ u - v < 0
      \/ q < a /\ q = z /\ u - v > 0
      \/ q < a /\ q < z /\ u # v
  BY <1>2, <1>5, <1>6, <1>7
<1>9. DiffersAt(m, p, r, a, z, q, u - v) /\ u - v \in Int
  <2>1. \A j \in 0..q-1 : m[p + j] = m[r + j]
    BY DEF SameBytes
  <2>2. PICK d \in Int : d = u - v
    OBVIOUS
  <2>3. \/ q = a /\ q = z /\ d = 0
        \/ q = a /\ q < z /\ d < 0
        \/ q < a /\ q = z /\ d > 0
        \/ q < a /\ q < z /\ m[p + q] # m[r + q] /\ d = m[p + q] - m[r + q]
    BY <1>4, <1>8, <2>2
  <2>4. DiffersAt(m, p, r, a, z, q, d)
    BY <1>2, <2>1, <2>3 DEF DiffersAt
  <2> QED
    BY <2>2, <2>4
<1> QED
  BY <1>4, <1>9

\* A string of n bytes at p, as the callers of these functions give it.
HasString(m, top, p, n) ==
  /\ p \in Nat /\ n \in Nat /\ p + n <= top /\ Ends(m, p, p + n)
  /\ Str(m, p) = Slice(m, p, n) /\ Len(Str(m, p)) = n /\ strlenOf(m, p) = n

LEMMA StringGiven ==
  ASSUME Legal(op), NEW p, Reads(op, p),
         NEW top, top = Max(DOMAIN op.mem)
  PROVE  /\ top \in Nat /\ IsMemory(op.mem, top) /\ op.mem \in [0..top -> 0..255]
         /\ \E n \in Nat : HasString(op.mem, top, p, n)
<1>1. PICK m : m = op.mem
  OBVIOUS
<1>2. PICK t \in Nat, e \in Nat :
        /\ IsMemory(m, t) /\ m \in [0..t -> 0..255] /\ p \in Nat /\ e \in 0..t /\ Ends(m, p, e)
  BY <1>1, ReadIs
<1>3. t = top
  BY <1>1, <1>2 DEF IsMemory
<1>4. StringAt(m, p, e)
  BY <1>2, StringIs, Zenon
<1>5. PICK n \in Nat : n = e - p
  BY <1>4 DEF StringAt
<1>6. p + n = e
  BY <1>2, <1>5
<1>7. Str(m, p) = Slice(m, p, n) /\ Len(Str(m, p)) = n /\ strlenOf(m, p) = n
  BY <1>4, <1>5 DEF StringAt, Slice
<1>8. HasString(m, top, p, n)
  BY <1>2, <1>3, <1>6, <1>7 DEF HasString
<1> QED
  BY <1>1, <1>2, <1>3, <1>8

LEMMA StrcmpFinds ==
  ASSUME StrInv, strcmp
  PROVE  SearchesFind'
<1>1. PICK m, p, r, top : m = op.mem /\ p = op.src /\ r = op.dst /\ top = Max(DOMAIN m)
  OBVIOUS
<1>2. mem = m /\ op.f = "strcmp" /\ Legal(op)
  BY <1>1 DEF strcmp, Calling, StrInv
<1>3. Reads(op, p) /\ Reads(op, r)
  BY <1>1, <1>2 DEF Legal
<1>4. /\ top \in Nat /\ m \in [0..top -> 0..255]
      /\ \E n \in Nat : HasString(m, top, p, n)
      /\ \E n \in Nat : HasString(m, top, r, n)
  BY <1>1, <1>2, <1>3, StringGiven
<1>5. PICK a \in Nat, z \in Nat : HasString(m, top, p, a) /\ HasString(m, top, r, z)
  BY <1>4
<1>6. /\ p \in Nat /\ r \in Nat /\ p + a <= top /\ r + z <= top
      /\ Ends(m, p, p + a) /\ Ends(m, r, r + z)
      /\ Str(m, p) = Slice(m, p, a) /\ Str(m, r) = Slice(m, r, z)
  BY <1>5 DEF HasString
<1> DEFINE T == {i \in Nat : m[p + i] = NUL \/ m[p + i] # m[r + i]}
<1>7. PICK q : q = First(0, T)
  OBVIOUS
<1>8. T \in SUBSET Nat /\ a \in T
  BY <1>6 DEF Ends
<1>9. q \in 0..a /\ IsFirst(q, 0, T)
  <2> HIDE DEF T
  <2> QED
    BY <1>7, <1>8, FirstExists
<1>10. /\ q \in Nat /\ SameBytes(m, p, r, q)
       /\ m[p + q] = NUL \/ m[p + q] # m[r + q]
  BY <1>9 DEF IsFirst, SameBytes
<1>11. PICK v : v = m[p + q] - m[r + q]
  OBVIOUS
<1>12. DiffersAt(m, p, r, a, z, q, v) /\ v \in Int
  BY <1>4, <1>6, <1>10, <1>11, StringsDiffer
<1>13. Sign(v) = Compare(Str(m, p), Str(m, r))
  <2>1. /\ top \in Nat /\ m \in [0..top -> 0..255] /\ p \in Nat /\ r \in Nat /\ q \in Nat
        /\ p + a <= top + 1 /\ r + z <= top + 1
    BY <1>4, <1>6, <1>10
  <2>2. Orders(v, m, p, r, a, z)
    BY <1>12, <2>1, DiffIs
  <2> QED
    BY <1>6, <2>2 DEF Orders
<1>14. LookReturns(v)
  BY <1>1, <1>2, <1>7, <1>11 DEF strcmp, Calling, LookReturns
<1>15. op' = op /\ res'.val = v
  BY <1>14, LookIs
<1> QED
  BY <1>1, <1>2, <1>13, <1>15 DEF SearchesFind, Done

LEMMA MemcmpFinds ==
  ASSUME StrInv, memcmp
  PROVE  SearchesFind'
<1>1. PICK m, p, r, n, top : m = op.mem /\ p = op.src /\ r = op.dst /\ n = op.n /\ top = Max(DOMAIN m)
  OBVIOUS
<1>2. mem = m /\ op.f = "memcmp" /\ Legal(op)
  BY <1>1 DEF memcmp, Calling, StrInv
<1>3. /\ top \in Nat /\ m \in [0..top -> 0..255] /\ p \in Nat /\ r \in Nat /\ n \in Nat
      /\ p + n <= top + 1 /\ r + n <= top + 1
  BY <1>1, <1>2 DEF Legal, InMemory
<1> DEFINE T == {i \in Nat : i = n \/ m[p + i] # m[r + i]}
<1>4. PICK q : q = First(0, T)
  OBVIOUS
<1>5. q \in 0..n /\ IsFirst(q, 0, T)
  <2>1. T \in SUBSET Nat /\ n \in T /\ 0 <= n
    BY <1>3
  <2> HIDE DEF T
  <2> QED
    BY <1>4, <2>1, FirstExists
<1>6. q \in Nat /\ (\A j \in 0..q-1 : m[p + j] = m[r + j]) /\ (q # n => m[p + q] # m[r + q])
  BY <1>5 DEF IsFirst
<1>7. PICK v : v = IF q = n THEN 0 ELSE m[p + q] - m[r + q]
  OBVIOUS
<1>8. q # n => m[p + q] \in 0..255 /\ m[r + q] \in 0..255
  <2>1. q # n => p + q \in 0..top /\ r + q \in 0..top
    BY <1>3, <1>5
  <2> QED
    BY <1>3, <2>1
<1>9. v \in Int
  BY <1>7, <1>8
<1>10. DiffersAt(m, p, r, n, n, q, v)
  <2>1. q <= n /\ (q # n => q < n)
    BY <1>3, <1>5
  <2>2. CASE q = n
    BY <1>6, <1>7, <2>1, <2>2 DEF DiffersAt
  <2>3. CASE q # n
    BY <1>6, <1>7, <2>1, <2>3 DEF DiffersAt
  <2> QED
    BY <2>2, <2>3
<1>11. Orders(v, m, p, r, n, n)
  BY <1>3, <1>6, <1>9, <1>10, DiffIs
<1>12. LookReturns(v)
  BY <1>1, <1>2, <1>4, <1>7 DEF memcmp, Calling, LookReturns
<1>13. op' = op /\ res'.val = v
  BY <1>12, LookIs
<1> QED
  BY <1>1, <1>2, <1>11, <1>13 DEF SearchesFind, Done, Slice, Orders

\* strncmp of n bytes at p and r stops after q of them.
ComparedTo(m, p, r, n, q) ==
  /\ q \in Nat /\ q <= n
  /\ SameBytes(m, p, r, q)
  /\ q # n => m[p + q] = NUL \/ m[p + q] # m[r + q]
  /\ strncmpOf(m, p, r, n) = IF q = n THEN 0 ELSE m[p + q] - m[r + q]

LEMMA StrncmpStops ==
  ASSUME NEW m, NEW p, NEW r, NEW n \in Nat
  PROVE  \E q : ComparedTo(m, p, r, n, q)
<1> DEFINE T == {i \in Nat : i = n \/ m[p + i] = NUL \/ m[p + i] # m[r + i]}
<1>1. PICK q : q = First(0, T)
  OBVIOUS
<1>2. q \in 0..n /\ IsFirst(q, 0, T)
  <2>1. T \in SUBSET Nat /\ n \in T /\ 0 <= n
    OBVIOUS
  <2> HIDE DEF T
  <2> QED
    BY <1>1, <2>1, FirstExists
<1>3. strncmpOf(m, p, r, n) = IF q = n THEN 0 ELSE m[p + q] - m[r + q]
  BY <1>1 DEF strncmpOf
<1>4. ComparedTo(m, p, r, n, q)
  BY <1>2, <1>3 DEF ComparedTo, IsFirst, SameBytes
<1> QED
  BY <1>4

\* The first n bytes of a string, which are k.
CutTo(m, p, n, k) == SubSeq(Str(m, p), 1, Min({n, Len(Str(m, p))})) = Slice(m, p, k)

LEMMA CutIs ==
  ASSUME NEW top \in Nat, NEW m \in [0..top -> 0..255], NEW p, NEW a, HasString(m, top, p, a),
         NEW n \in Nat, NEW k, k = IF n < a THEN n ELSE a
  PROVE  CutTo(m, p, n, k)
<1>1. /\ p \in Nat /\ a \in Nat /\ p + a <= top
      /\ Str(m, p) = Slice(m, p, a) /\ Len(Str(m, p)) = a
  BY DEF HasString
<1>2. k \in 0..a
  BY <1>1
<1>3. Min({n, a}) = k
  <2>1. PICK S : S = {n, a}
    OBVIOUS
  <2>2. S \in SUBSET Nat /\ k \in S /\ \A y \in S : k <= y
    BY <1>1, <2>1
  <2> QED
    BY <2>1, <2>2, MinIs
<1>4. PICK x, B : x = Slice(m, p, a) /\ B = 0..255
  OBVIOUS
<1>5. x \in [1..a -> B]
  <2>1. \A j \in 1..a : p + j - 1 \in 0..top
    BY <1>1
  <2> QED
    BY <1>4, <2>1 DEF Slice
<1>6. IsCut(x, k)
  BY <1>1, <1>2, <1>5, SubIs, Zenon
<1>7. \A j \in 1..k : x[j] = m[p + j - 1]
  BY <1>1, <1>2, <1>4 DEF Slice
<1>8. SubSeq(x, 1, k) = Slice(m, p, k)
  BY <1>6, <1>7 DEF IsCut, Slice
<1> QED
  BY <1>1, <1>3, <1>4, <1>8 DEF CutTo

LEMMA StrncmpDiffers ==
  ASSUME NEW top \in Nat, NEW m \in [0..top -> 0..255], NEW p, NEW r, NEW a, NEW z,
         HasString(m, top, p, a), HasString(m, top, r, z), NEW n \in Nat,
         NEW c, c = IF n < a THEN n ELSE a, NEW d, d = IF n < z THEN n ELSE z
  PROVE  Orders(strncmpOf(m, p, r, n), m, p, r, c, d)
<1>1. /\ p \in Nat /\ a \in Nat /\ p + a <= top /\ Ends(m, p, p + a)
      /\ r \in Nat /\ z \in Nat /\ r + z <= top /\ Ends(m, r, r + z)
  BY DEF HasString
<1>2. PICK q : ComparedTo(m, p, r, n, q)
  BY StrncmpStops
<1>3. /\ q \in Nat /\ q <= n
      /\ SameBytes(m, p, r, q)
      /\ q # n => m[p + q] = NUL \/ m[p + q] # m[r + q]
  BY <1>2 DEF ComparedTo
<1>4. q <= a /\ q <= z
  BY <1>1, <1>3, EqualInside, Zenon
<1>5. PICK v : v = IF q = n THEN 0 ELSE m[p + q] - m[r + q]
  OBVIOUS
<1>6. strncmpOf(m, p, r, n) = v
  BY <1>2, <1>5 DEF ComparedTo
<1>7. DiffersAt(m, p, r, c, d, q, v) /\ v \in Int
  <2>1. CASE q = n
    <3>1. c = q /\ d = q /\ v = 0
      BY <1>1, <1>3, <1>4, <1>5, <2>1
    <3> QED
      BY <1>3, <3>1 DEF DiffersAt, SameBytes
  <2>2. CASE q # n
    <3>1. DiffersAt(m, p, r, a, z, q, v) /\ v \in Int
      BY <1>1, <1>3, <1>5, <2>2, StringsDiffer
    <3>2. (q = a <=> q = c) /\ (q < a <=> q < c) /\ (q = z <=> q = d) /\ (q < z <=> q < d)
      BY <1>1, <1>3, <1>4, <2>2
    <3>3. q <= c /\ q <= d
      BY <1>1, <1>3, <1>4
    <3> QED
      BY <3>1, <3>2, <3>3 DEF DiffersAt
  <2> QED
    BY <2>1, <2>2
<1>8. c \in Nat /\ d \in Nat /\ p + c <= top + 1 /\ r + d <= top + 1
  BY <1>1
<1>9. Orders(v, m, p, r, c, d)
  <2>1. p \in Nat /\ r \in Nat /\ q \in Nat
    BY <1>1, <1>3
  <2> QED
    BY <1>7, <1>8, <2>1, DiffIs
<1> QED
  BY <1>6, <1>9

LEMMA StrncmpFinds ==
  ASSUME StrInv, strncmp
  PROVE  SearchesFind'
<1>1. PICK m, p, r, n, top : m = op.mem /\ p = op.src /\ r = op.dst /\ n = op.n /\ top = Max(DOMAIN m)
  OBVIOUS
<1>2. mem = m /\ op.f = "strncmp" /\ Legal(op)
  BY <1>1 DEF strncmp, Calling, StrInv
<1>3. Reads(op, p) /\ Reads(op, r) /\ n \in Nat
  BY <1>1, <1>2 DEF Legal
<1>4. /\ top \in Nat /\ m \in [0..top -> 0..255]
      /\ \E k \in Nat : HasString(m, top, p, k)
      /\ \E k \in Nat : HasString(m, top, r, k)
  BY <1>1, <1>2, <1>3, StringGiven
<1>5. PICK a \in Nat, z \in Nat : HasString(m, top, p, a) /\ HasString(m, top, r, z)
  BY <1>4
<1>6. PICK c, d : c = (IF n < a THEN n ELSE a) /\ d = (IF n < z THEN n ELSE z)
  OBVIOUS
<1>7. PICK v : v = strncmpOf(m, p, r, n)
  OBVIOUS
<1>8. Orders(v, m, p, r, c, d)
  BY <1>3, <1>4, <1>5, <1>6, <1>7, StrncmpDiffers, Zenon
<1>9. CutTo(m, p, n, c) /\ CutTo(m, r, n, d)
  BY <1>3, <1>4, <1>5, <1>6, CutIs, Zenon
<1>10. LookReturns(v)
  BY <1>1, <1>2, <1>7 DEF strncmp, Calling, LookReturns
<1>11. op' = op /\ res'.val = v
  BY <1>10, LookIs
<1> QED
  BY <1>1, <1>2, <1>8, <1>9, <1>11 DEF SearchesFind, Done, Orders, CutTo

\* What follows in a string is a string.
LEMMA TailString ==
  ASSUME NEW top \in Nat, NEW m \in [0..top -> 0..255], IsMemory(m, top),
         NEW p, NEW n, HasString(m, top, p, n), NEW j \in Nat, j <= n,
         NEW s, s = p + j, NEW k, k = n - j
  PROVE  HasString(m, top, s, k)
<1>1. p \in Nat /\ n \in Nat /\ p + n <= top /\ Ends(m, p, p + n)
  BY DEF HasString
<1>2. PICK e : e = p + n
  OBVIOUS
<1>3. s \in Nat /\ k \in Nat /\ e \in 0..top /\ s + k = e /\ s <= e
  BY <1>1, <1>2
<1>4. Ends(m, s, e)
  <2>1. m[e] = NUL /\ \A i \in p..e-1 : m[i] # NUL
    BY <1>1, <1>2 DEF Ends
  <2>2. \A i \in s..e-1 : i \in p..e-1
    BY <1>1, <1>3
  <2> QED
    BY <1>3, <2>1, <2>2 DEF Ends
<1>5. StringAt(m, s, e)
  BY <1>3, <1>4, StringIs, Zenon
<1>6. e - s = k
  BY <1>3
<1>7. Str(m, s) = Slice(m, s, k) /\ Len(Str(m, s)) = k /\ strlenOf(m, s) = k
  BY <1>5, <1>6 DEF StringAt, Slice
<1> QED
  BY <1>1, <1>2, <1>3, <1>4, <1>7 DEF HasString

\* The string of z bytes at r is found at x, n bytes before the end of the text.
FoundHere(m, x, n, r, z) == z <= n /\ \A j \in 0..z-1 : m[x + j] = m[r + j]

\* strncmp with the whole of a string of n bytes at r.
LEMMA StrncmpZero ==
  ASSUME NEW top \in Nat, NEW m \in [0..top -> 0..255],
         NEW p, NEW r, NEW a, NEW n, HasString(m, top, p, a), HasString(m, top, r, n)
  PROVE  strncmpOf(m, p, r, n) = 0 <=> FoundHere(m, p, a, r, n)
<1> USE DEF FoundHere
<1>1. /\ p \in Nat /\ a \in Nat /\ p + a <= top /\ Ends(m, p, p + a)
      /\ r \in Nat /\ n \in Nat /\ r + n <= top /\ Ends(m, r, r + n)
  BY DEF HasString
<1>2. PICK q : ComparedTo(m, p, r, n, q)
  BY <1>1, StrncmpStops
<1>3. /\ q \in Nat /\ q <= n /\ SameBytes(m, p, r, q)
      /\ q # n => m[p + q] = NUL \/ m[p + q] # m[r + q]
      /\ strncmpOf(m, p, r, n) = IF q = n THEN 0 ELSE m[p + q] - m[r + q]
  BY <1>2 DEF ComparedTo
<1>4. q <= a /\ q <= n
  BY <1>1, <1>3, EqualInside, Zenon
<1>5. CASE q = n
  <2>1. \A j \in 0..n-1 : m[p + j] = m[r + j]
    BY <1>3, <1>5 DEF SameBytes
  <2> QED
    BY <1>3, <1>4, <1>5, <2>1
<1>6. CASE q # n
  <2>1. q \in 0..n-1 /\ r + q \in r..r+n-1 /\ p + q \in 0..top /\ r + q \in 0..top
    BY <1>1, <1>3, <1>4, <1>6
  <2>2. PICK u \in 0..255, v \in 0..255 : u = m[p + q] /\ v = m[r + q]
    BY <2>1
  <2>3. \A k \in r..r+n-1 : m[k] # NUL
    BY <1>1 DEF Ends
  <2>4. v # NUL
    BY <2>1, <2>2, <2>3
  <2>5. u # v
    BY <1>3, <1>6, <2>2, <2>4
  <2>6. strncmpOf(m, p, r, n) # 0
    BY <1>3, <1>6, <2>2, <2>5
  <2> QED
    BY <2>1, <2>2, <2>5, <2>6
<1> QED
  BY <1>5, <1>6

\* strstr's test, by the first letter and by strncmp of what follows it.
LEMMA MatchesIs ==
  ASSUME NEW top \in Nat, NEW m \in [0..top -> 0..255], IsMemory(m, top),
         NEW x, NEW n, HasString(m, top, x, n), n # 0,
         NEW r, NEW z, HasString(m, top, r, z), z # 0, NEW in
  PROVE  Matches(m, x, in, r) <=> FoundHere(m, x, n, r, z)
<1>1. x \in Nat /\ n \in Nat \ {0} /\ r \in Nat /\ z \in Nat \ {0} /\ 1 \in Nat
  BY DEF HasString
<1>2. PICK y, s, k, c : y = x + 1 /\ s = r + 1 /\ k = n - 1 /\ c = z - 1
  OBVIOUS
<1>3. HasString(m, top, y, k)
  <2>1. 1 <= n
    BY <1>1
  <2> QED
    BY <1>1, <1>2, <2>1, TailString, Zenon
<1>4. HasString(m, top, s, c)
  <2>1. 1 <= z
    BY <1>1
  <2> QED
    BY <1>1, <1>2, <2>1, TailString, Zenon
<1>5. strlenOf(m, s) = c
  BY <1>4 DEF HasString
<1>6. Matches(m, x, in, r) <=> m[x] = m[r] /\ strncmpOf(m, y, s, c) = 0
  BY <1>2, <1>5 DEF Matches
<1>7. strncmpOf(m, y, s, c) = 0 <=> c <= k /\ \A j \in 0..c-1 : m[y + j] = m[s + j]
  <2>1. strncmpOf(m, y, s, c) = 0 <=> FoundHere(m, y, k, s, c)
    BY <1>3, <1>4, StrncmpZero, Zenon
  <2> QED
    BY <2>1 DEF FoundHere
<1>8. c <= k <=> z <= n
  BY <1>1, <1>2
<1>9. (m[x] = m[r] /\ \A j \in 0..c-1 : m[y + j] = m[s + j]) <=> \A j \in 0..z-1 : m[x + j] = m[r + j]
  <2>1. ASSUME m[x] = m[r], \A j \in 0..c-1 : m[y + j] = m[s + j], NEW j \in 0..z-1
        PROVE  m[x + j] = m[r + j]
    <3>1. CASE j = 0
      BY <1>1, <2>1, <3>1
    <3>2. CASE j # 0
      <4>1. j - 1 \in 0..c-1 /\ y + (j - 1) = x + j /\ s + (j - 1) = r + j
        BY <1>1, <1>2, <3>2
      <4> QED
        BY <2>1, <4>1
    <3> QED
      BY <3>1, <3>2
  <2>2. ASSUME \A j \in 0..z-1 : m[x + j] = m[r + j]
        PROVE  m[x] = m[r] /\ \A j \in 0..c-1 : m[y + j] = m[s + j]
    <3>1. 0 \in 0..z-1 /\ x + 0 = x /\ r + 0 = r
      BY <1>1
    <3>2. m[x] = m[r]
      BY <2>2, <3>1
    <3>3. ASSUME NEW j \in 0..c-1 PROVE m[y + j] = m[s + j]
      <4>1. j + 1 \in 0..z-1 /\ y + j = x + (j + 1) /\ s + j = r + (j + 1)
        BY <1>1, <1>2
      <4> QED
        BY <2>2, <4>1
    <3> QED
      BY <3>2, <3>3
  <2> QED
    BY <2>1, <2>2
<1> QED
  BY <1>6, <1>7, <1>8, <1>9 DEF FoundHere

\* The text f from its k-th letter on, which are n.
RestFrom(f, k, a, n, S) ==
  SubSeq(f, k, a) \in [1..n -> S] /\ \A j \in 1..n : SubSeq(f, k, a)[j] = f[k + j - 1]

LEMMA SuffixIs ==
  ASSUME NEW S, NEW a \in Nat, NEW f \in [1..a -> S], NEW k \in 1..a, NEW n, n = a - k + 1
  PROVE  RestFrom(f, k, a, n, S)
<1>1. f \in Seq(S) /\ Len(f) = a
  OBVIOUS
<1>2. PICK g : g = SubSeq(f, k, a)
  OBVIOUS
<1>3. g \in Seq(S) /\ Len(g) = n
  BY <1>1, <1>2
<1>4. g \in [1..n -> S]
  BY <1>3
<1>5. \A j \in 1..n : g[j] = f[k + j - 1]
  BY <1>1, <1>2
<1> QED
  BY <1>2, <1>4, <1>5 DEF RestFrom

\* A prefix, element by element.
StartsWith(t, z, g, n) == z <= n /\ \A j \in 1..z : t[j] = g[j]

LEMMA PrefixIs ==
  ASSUME NEW S, NEW z \in Nat, NEW t \in [1..z -> S], NEW n \in Nat, NEW g \in [1..n -> S]
  PROVE  IsPrefix(t, g) <=> StartsWith(t, z, g, n)
<1>1. t \in Seq(S) /\ Len(t) = z /\ g \in Seq(S) /\ Len(g) = n
  OBVIOUS
<1>2. SubSeq(t, 1, z) = [j \in 1..z |-> t[j]]
  <2>1. z \in 0..z
    OBVIOUS
  <2>2. IsCut(t, z)
    BY <2>1, SubIs, Zenon
  <2> QED
    BY <2>2 DEF IsCut
<1>3. z <= n => SubSeq(g, 1, z) = [j \in 1..z |-> g[j]]
  <2> SUFFICES ASSUME z <= n PROVE SubSeq(g, 1, z) = [j \in 1..z |-> g[j]]
    OBVIOUS
  <2>1. z \in 0..n
    OBVIOUS
  <2>2. IsCut(g, z)
    BY <2>1, SubIs, Zenon
  <2> QED
    BY <2>2 DEF IsCut
<1>4. IsPrefix(t, g) <=> z <= n /\ SubSeq(t, 1, z) = SubSeq(g, 1, z)
  BY <1>1 DEF IsPrefix
<1>5. [j \in 1..z |-> t[j]] = [j \in 1..z |-> g[j]] <=> \A j \in 1..z : t[j] = g[j]
  <2>1. ASSUME [j \in 1..z |-> t[j]] = [j \in 1..z |-> g[j]], NEW i \in 1..z PROVE t[i] = g[i]
    <3>1. [j \in 1..z |-> t[j]][i] = [j \in 1..z |-> g[j]][i]
      BY <2>1
    <3> QED
      BY <3>1
  <2> QED
    BY <2>1
<1> QED
  BY <1>2, <1>3, <1>4, <1>5 DEF StartsWith

\* x is the place of the k-th letter of a text of a letters at p, n before its end.
LetterOf(p, a, k, x, n) == k \in 1..a /\ x = p + k - 1 /\ n = a - k + 1

\* The reference's test is the one of the code.
IsHit(m, p, a, k, r) == IsPrefix(Str(m, r), SubSeq(Str(m, p), k, a))

LEMMA HitIs ==
  ASSUME NEW top \in Nat, NEW m \in [0..top -> 0..255],
         NEW p, NEW a, HasString(m, top, p, a), NEW r, NEW z, HasString(m, top, r, z),
         NEW k, NEW x, NEW n, LetterOf(p, a, k, x, n)
  PROVE  IsHit(m, p, a, k, r) <=> FoundHere(m, x, n, r, z)
<1>1. /\ p \in Nat /\ a \in Nat /\ p + a <= top /\ Str(m, p) = Slice(m, p, a)
      /\ r \in Nat /\ z \in Nat /\ r + z <= top /\ Str(m, r) = Slice(m, r, z)
  BY DEF HasString
<1>2. k \in 1..a /\ x = p + k - 1 /\ n \in Nat /\ n = a - k + 1
  BY <1>1 DEF LetterOf
<1>3. PICK s, t, B : s = Slice(m, p, a) /\ t = Slice(m, r, z) /\ B = 0..255
  OBVIOUS
<1>4. s \in [1..a -> B]
  <2>1. \A j \in 1..a : p + j - 1 \in 0..top
    BY <1>1
  <2> QED
    BY <1>3, <2>1 DEF Slice
<1>5. t \in [1..z -> B]
  <2>1. \A j \in 1..z : r + j - 1 \in 0..top
    BY <1>1
  <2> QED
    BY <1>3, <2>1 DEF Slice
<1>6. PICK g : g = SubSeq(s, k, a)
  OBVIOUS
<1>7. g \in [1..n -> B] /\ \A j \in 1..n : g[j] = s[k + j - 1]
  <2>1. RestFrom(s, k, a, n, B)
    BY <1>1, <1>2, <1>4, SuffixIs, Zenon
  <2> QED
    BY <1>6, <2>1 DEF RestFrom
<1>8. IsPrefix(t, g) <=> z <= n /\ \A j \in 1..z : t[j] = g[j]
  <2>1. IsPrefix(t, g) <=> StartsWith(t, z, g, n)
    BY <1>1, <1>2, <1>5, <1>7, PrefixIs, Zenon
  <2> QED
    BY <2>1 DEF StartsWith
<1>9. \A j \in 1..n : g[j] = m[x + (j - 1)]
  <2> SUFFICES ASSUME NEW j \in 1..n PROVE g[j] = m[x + (j - 1)]
    OBVIOUS
  <2>1. PICK i : i = k + j - 1
    OBVIOUS
  <2>2. i \in 1..a /\ p + i - 1 = x + (j - 1)
    BY <1>1, <1>2, <2>1
  <2>3. s[i] = m[p + i - 1]
    BY <1>3, <2>2 DEF Slice
  <2> QED
    BY <1>7, <2>1, <2>2, <2>3
<1>10. \A j \in 1..z : t[j] = m[r + (j - 1)]
  <2> SUFFICES ASSUME NEW j \in 1..z PROVE t[j] = m[r + (j - 1)]
    OBVIOUS
  <2>1. r + j - 1 = r + (j - 1)
    BY <1>1
  <2> QED
    BY <1>3, <2>1 DEF Slice
<1>11. z <= n => ((\A j \in 1..z : t[j] = g[j]) <=> \A j \in 0..z-1 : m[x + j] = m[r + j])
  <2> SUFFICES ASSUME z <= n
               PROVE  (\A j \in 1..z : t[j] = g[j]) <=> \A j \in 0..z-1 : m[x + j] = m[r + j]
    OBVIOUS
  <2>1. ASSUME \A j \in 1..z : t[j] = g[j], NEW j \in 0..z-1 PROVE m[x + j] = m[r + j]
    <3>1. PICK i : i = j + 1
      OBVIOUS
    <3>2. i \in 1..z /\ i \in 1..n /\ i - 1 = j
      BY <1>1, <1>2, <3>1
    <3> QED
      BY <1>9, <1>10, <2>1, <3>2
  <2>2. ASSUME \A j \in 0..z-1 : m[x + j] = m[r + j], NEW i \in 1..z PROVE t[i] = g[i]
    <3>1. PICK j : j = i - 1
      OBVIOUS
    <3>2. j \in 0..z-1 /\ i \in 1..n
      BY <1>1, <1>2, <3>1
    <3> QED
      BY <1>9, <1>10, <2>2, <3>1, <3>2
  <2> QED
    BY <2>1, <2>2
<1> QED
  BY <1>1, <1>3, <1>6, <1>8, <1>11 DEF FoundHere, IsHit

LEMMA StrstrFinds ==
  ASSUME StrInv, strstr
  PROVE  SearchesFind'
<1>1. PICK m, p, r, top : m = op.mem /\ p = op.src /\ r = op.dst /\ top = Max(DOMAIN m)
  OBVIOUS
<1>2. mem = m /\ op.f = "strstr" /\ Legal(op)
  BY <1>1 DEF strstr, Calling, StrInv
<1>3. Reads(op, p) /\ Reads(op, r)
  BY <1>1, <1>2 DEF Legal
<1>4. /\ top \in Nat /\ m \in [0..top -> 0..255] /\ IsMemory(m, top)
      /\ \E n \in Nat : HasString(m, top, p, n)
      /\ \E n \in Nat : HasString(m, top, r, n)
  BY <1>1, <1>2, <1>3, StringGiven
<1>5. PICK a \in Nat, z \in Nat : HasString(m, top, p, a) /\ HasString(m, top, r, z)
  BY <1>4
<1>6. /\ p \in Nat /\ r \in Nat /\ Len(Str(m, p)) = a /\ Len(Str(m, r)) = z
      /\ Ends(m, p, p + a) /\ Ends(m, r, r + z) /\ Str(m, r) = Slice(m, r, z)
  BY <1>5 DEF HasString
<1>7. PICK T : T = {x \in Nat : m[x] = NUL \/ Matches(m, x, p, r)}
  OBVIOUS
<1>8. PICK i : i = First(p, T)
  OBVIOUS
<1>9. PICK v : v = IF m[r] = NUL THEN p ELSE IF m[i] = NUL THEN Null ELSE i
  OBVIOUS
<1>10. LookReturns(v)
  BY <1>1, <1>2, <1>7, <1>8, <1>9 DEF strstr, Calling, LookReturns
<1>11. op' = op /\ res'.val = v
  BY <1>10, LookIs
<1>12. PICK s, t, S : /\ s = Str(m, p) /\ t = Str(m, r)
                      /\ S = {k \in 1..Len(s) : IsPrefix(t, SubSeq(s, k, Len(s)))}
  OBVIOUS
<1>13. CASE z = 0
  <2>1. m[r] = NUL
    BY <1>6, <1>13 DEF Ends
  <2>2. t = << >>
    BY <1>6, <1>12, <1>13 DEF Slice
  <2>3. v = IF t = << >> THEN p ELSE IF S = {} THEN Null ELSE p + Min(S) - 1
    BY <1>9, <2>1, <2>2
  <2> QED
    BY <1>1, <1>2, <1>11, <1>12, <2>3 DEF SearchesFind, Done
<1>14. CASE z # 0
  <2>1. t # << >> /\ m[r] # NUL
    <3>1. r \in r..r+z-1
      BY <1>6, <1>14
    <3>2. m[r] # NUL
      BY <1>6, <3>1 DEF Ends
    <3>3. t # << >>
      BY <1>6, <1>12, <1>14
    <3> QED
      BY <3>2, <3>3
  <2>2. p + a \in T /\ T \in SUBSET Nat /\ p <= p + a
    BY <1>6, <1>7 DEF Ends
  <2>3. i \in p..p+a /\ IsFirst(i, p, T)
    BY <1>6, <1>8, <2>2, FirstExists
  <2>4. ASSUME NEW x \in p..p+a-1 PROVE m[x] # NUL /\ (x \in T <=> x - p + 1 \in S)
    <3>1. PICK n, k, j : n = p + a - x /\ k = x - p + 1 /\ j = x - p
      OBVIOUS
    <3>2. n # 0 /\ k \in 1..a /\ j \in Nat /\ j <= a /\ x = p + j /\ n = a - j /\ x \in Nat
      BY <1>6, <3>1
    <3>3. HasString(m, top, x, n)
      BY <1>4, <1>5, <3>2, TailString, Zenon
    <3>4. Matches(m, x, p, r) <=> FoundHere(m, x, n, r, z)
      BY <1>4, <1>5, <1>14, <3>2, <3>3, MatchesIs, Zenon
    <3>5. IsPrefix(t, SubSeq(s, k, a)) <=> FoundHere(m, x, n, r, z)
      <4>1. IsHit(m, p, a, k, r) <=> FoundHere(m, x, n, r, z)
        <5>1. LetterOf(p, a, k, x, n)
          BY <1>6, <3>1, <3>2 DEF LetterOf
        <5>2. top \in Nat /\ m \in [0..top -> 0..255]
          BY <1>4
        <5> QED
          BY <1>5, <5>1, <5>2, HitIs, Zenon
      <4> QED
        BY <1>12, <4>1, Zenon DEF IsHit
    <3>6. m[x] # NUL
      <4>1. \A y \in p..p+a-1 : m[y] # NUL
        BY <1>6 DEF Ends
      <4> QED
        BY <4>1
    <3>7. x \in T <=> Matches(m, x, p, r)
      BY <1>7, <3>2, <3>6
    <3>8. k \in S <=> IsPrefix(t, SubSeq(s, k, a))
      BY <1>6, <1>12, <3>2
    <3> QED
      BY <3>1, <3>4, <3>5, <3>6, <3>7, <3>8
  <2>5. m[i] = NUL <=> i = p + a
    <3>1. m[p + a] = NUL
      BY <1>6 DEF Ends
    <3>2. i # p + a => i \in p..p+a-1
      BY <1>6, <2>3
    <3> QED
      BY <2>4, <3>1, <3>2
  <2>6. FoundAt(S, p, a, i)
    <3>1. S \in SUBSET (1..a)
      BY <1>6, <1>12
    <3>2. i < p + a => i - p + 1 \in S
      <4>1. i < p + a => i \in p..p+a-1 /\ i \in T
        BY <1>6, <2>3 DEF IsFirst
      <4> QED
        BY <2>4, <4>1
    <3>3. ASSUME NEW j \in p..i-1 PROVE j - p + 1 \notin S
      <4>1. j \in p..p+a-1 /\ j \notin T
        BY <1>6, <2>3 DEF IsFirst
      <4> QED
        BY <2>4, <4>1
    <3> QED
      BY <1>6, <2>3, <3>1, <3>2, <3>3, FoundIs
  <2>7. v = IF t = << >> THEN p ELSE IF S = {} THEN Null ELSE p + Min(S) - 1
    BY <1>9, <2>1, <2>5, <2>6 DEF FoundAt
  <2> QED
    BY <1>1, <1>2, <1>11, <1>12, <2>7 DEF SearchesFind, Done
<1> QED
  BY <1>13, <1>14
-----------------------------------------------------------------------------
LEMMA StrInvInit == ASSUME NEW o, Legal(o), StrInit(o) PROVE StrInv
<1>1. /\ op = o /\ mem = op.mem /\ str_at = "call" /\ df = FALSE
      /\ res = [val |-> 0, end |-> Null]
  BY DEF StrInit
<1>2. CopiesExact
  BY <1>1 DEF CopiesExact, BlocksMoved, StringsCopied, Done
<1> QED
  BY <1>1, <1>2 DEF StrInv

LEMMA StrInvStutters == ASSUME StrInv, UNCHANGED strVars PROVE StrInv'
<1>1. /\ op' = op /\ mem' = mem /\ str_at' = str_at /\ df' = df /\ res' = res
      /\ cx' = cx /\ unit' = unit /\ si' = si /\ di' = di
  BY DEF strVars
<1>2. Moved => Moved'
  BY <1>1 DEF Moved, From, To, Left
<1>3. CopiesExact => CopiesExact'
  BY <1>1 DEF CopiesExact, BlocksMoved, StringsCopied, Done, Outside
<1> QED
  BY <1>1, <1>2, <1>3 DEF StrInv, IsBlock

LEMMA StrInvStep == ASSUME StrInv, [LibNext]_libVars PROVE StrInv'
<1>1. CASE StrNext
  <2>1. CASE memset \/ memmove
    <3>1. CASE op.f = "memmove" \/ op.n # 0
      BY <2>1, <3>1, RepStarts
    <3>2. CASE ~(op.f = "memmove" \/ op.n # 0)
      <4>1. memset /\ op.n = 0
        BY <2>1, <3>2 DEF memmove, Calling
      <4> QED
        BY <4>1, NothingSet
    <3> QED
      BY <3>1, <3>2
  <2>2. CASE RepUnit
    BY <2>2, UnitMoves
  <2>3. CASE RepEnd
    BY <2>3, RepEnds
  <2>4. CASE strcpy
    BY <2>4, StrcpyCopies
  <2>5. CASE strcat
    BY <2>5, StrcatCopies
  <2>6. CASE strncpy
    BY <2>6, StrncpyCopies
  <2>7. CASE strlcpy
    BY <2>7, StrlcpyCopies, LooksOnly
  <2>8. CASE Looks
    BY <2>8, LooksOnly
  <2> QED
    BY <1>1, <2>1, <2>2, <2>3, <2>4, <2>5, <2>6, <2>7, <2>8 DEF StrNext, Looks
<1>2. CASE UNCHANGED strVars
  BY <1>2, StrInvStutters
<1> QED
  BY <1>1, <1>2 DEF LibNext, libVars

LEMMA StrInvHolds == LibSpec => []StrInv
<1>1. LibInit => StrInv
  BY StrInvInit, StrCallsAssumption, PlainAssumption DEF LibInit
<1> QED
  BY <1>1, StrInvStep, PTL DEF LibSpec

\* For every memory and every call that C allows, memmove and memset move or fill
\* just the n bytes, however the blocks overlap and whatever the unit, and leave
\* the direction flag clear; strcpy, strcat, strncpy and strlcpy leave the string
\* or its cut, and no other byte changes (lib/string.c).
THEOREM CopiesExactCorrect == LibSpec => []CopiesExact
<1>1. StrInv => CopiesExact
  BY DEF StrInv
<1> QED
  BY <1>1, StrInvHolds, PTL

\* The functions with something to find, and the step of one of them.
Searched == {"strlen", "strcmp", "strncmp", "memcmp", "strchr", "strfind", "memfind", "strstr"}
Searching ==
  strlen \/ strcmp \/ strncmp \/ memcmp \/ strchr \/ strfind \/ memfind \/ strstr

\* No other step ends a search.
LEMMA OthersSearchNothing ==
  ASSUME StrInv, StrNext, ~Searching
  PROVE  SearchesFind'
<1>1. op' = op /\ (op.f \notin Searched \/ str_at' = "rep")
  <2>1. CASE memset
    BY <2>1 DEF memset, Calling, Returns, Rep, Searched
  <2>2. CASE memmove
    BY <2>2 DEF memmove, Calling, Rep, Searched
  <2>3. CASE RepUnit
    BY <2>3 DEF RepUnit
  <2>4. CASE RepEnd
    <3>1. IsBlock
      BY <2>4 DEF StrInv, RepEnd
    <3>2. op' = op
      BY <2>4 DEF RepEnd
    <3> QED
      BY <3>1, <3>2 DEF IsBlock, Searched
  <2>5. CASE strcpy
    BY <2>5 DEF strcpy, Calling, Returns, Searched
  <2>6. CASE strcat
    BY <2>6 DEF strcat, Calling, Returns, Searched
  <2>7. CASE strncpy
    BY <2>7 DEF strncpy, Calling, Returns, Searched
  <2>8. CASE strlcpy
    BY <2>8 DEF strlcpy, Calling, Returns, Searched
  <2>9. CASE strtol
    BY <2>9 DEF strtol, Calling, Returns, Searched
  <2> QED
    BY <2>1, <2>2, <2>3, <2>4, <2>5, <2>6, <2>7, <2>8, <2>9 DEF StrNext, Searching
<1> QED
  BY <1>1 DEF SearchesFind, Done, Searched

\* For every memory, text and pattern that C allows, the loops of lib/string.c
\* find what their names say: strlen the length, strchr, strfind and memfind the
\* first place, strstr the first match, also where a partial match overlaps it,
\* and strcmp, strncmp and memcmp the order of what they compare.
THEOREM SearchesFindCorrect == LibSpec => []SearchesFind
<1>1. LibInit => SearchesFind
  <2>1. LibInit => str_at = "call"
    BY DEF LibInit, StrInit
  <2> QED
    BY <2>1 DEF SearchesFind, Done
<1>2. ASSUME StrInv, SearchesFind, [LibNext]_libVars PROVE SearchesFind'
  <2>1. CASE StrNext
    <3>1. CASE ~Searching
      BY <1>2, <2>1, <3>1, OthersSearchNothing
    <3>2. CASE Searching
      BY <1>2, <3>2, StrlenFinds, StrcmpFinds, StrncmpFinds, MemcmpFinds, StrchrFinds,
         MemfindFinds, StrstrFinds DEF Searching
    <3> QED
      BY <3>1, <3>2
  <2>2. CASE UNCHANGED strVars
    BY <1>2, <2>2 DEF SearchesFind, Done, strVars
  <2> QED
    BY <1>2, <2>1, <2>2 DEF LibNext, libVars
<1> QED
  BY <1>1, <1>2, StrInvHolds, PTL DEF LibSpec
-----------------------------------------------------------------------------
(* snprintf: what a format takes, what its parts print, and where it is stored. *)

\* A recursion over 0..N has a solution.
Runs(N, S, a, st) == \E g \in [0..N -> S] : g[0] = a /\ \A k \in 1..N : g[k] = st[k][g[k - 1]]

LEMMA RecursionExists ==
  ASSUME NEW N \in Nat, NEW S, NEW a \in S, NEW st \in [1..N -> [S -> S]]
  PROVE  Runs(N, S, a, st)
<1> DEFINE Upto(n, g) == g \in [0..n -> S] /\ g[0] = a /\ \A k \in 1..n : g[k] = st[k][g[k - 1]]
           D == {n \in Nat : n <= N => \E g : Upto(n, g)}
<1>1. 0 \in D
  <2>1. Upto(0, [k \in 0..0 |-> a])
    OBVIOUS
  <2> QED
    BY <2>1
<1>2. ASSUME NEW n \in D PROVE n + 1 \in D
  <2> SUFFICES ASSUME n + 1 <= N PROVE \E g : Upto(n + 1, g)
    OBVIOUS
  <2>1. PICK g : Upto(n, g)
    OBVIOUS
  <2>2. PICK x : x = st[n + 1][g[n]]
    OBVIOUS
  <2>3. x \in S
    BY <2>1, <2>2
  <2> DEFINE h == [k \in 0..n+1 |-> IF k = n + 1 THEN x ELSE g[k]]
  <2>4. h \in [0..n+1 -> S] /\ h[0] = a /\ h[n + 1] = x /\ h[n] = g[n]
    BY <2>1, <2>3
  <2>5. ASSUME NEW k \in 1..n+1 PROVE h[k] = st[k][h[k - 1]]
    <3>1. CASE k = n + 1
      BY <2>2, <2>4, <3>1
    <3>2. CASE k \in 1..n
      <4>1. h[k] = g[k] /\ h[k - 1] = g[k - 1]
        BY <3>2
      <4> QED
        BY <2>1, <3>2, <4>1
    <3> QED
      BY <3>1, <3>2
  <2> HIDE DEF h
  <2> QED
    BY <2>4, <2>5
<1> HIDE DEF Upto
<1>3. D \in SUBSET Nat
  OBVIOUS
<1> HIDE DEF D
<1>4. N \in D
  BY <1>1, <1>2, <1>3, AllNat
<1> QED
  BY <1>4 DEF D, Upto, Runs

\* Sequences one after the other, so many of them.
Flattens(S, N, parts) ==
  \E g \in [0..N -> Seq(S)] :
    /\ g[0] = << >> /\ \A k \in 1..N : g[k] = g[k - 1] \o parts[k]
    /\ \A k \in 0..N : FlattenSeq([j \in 1..k |-> parts[j]]) = g[k]

LEMMA FlattenIs ==
  ASSUME NEW S, NEW N \in Nat, NEW parts, \A k \in 1..N : parts[k] \in Seq(S)
  PROVE  Flattens(S, N, parts)
<1> DEFINE st == [k \in 1..N |-> [s \in Seq(S) |-> s \o parts[k]]]
<1>1. st \in [1..N -> [Seq(S) -> Seq(S)]]
  OBVIOUS
<1>2. Runs(N, Seq(S), << >>, st)
  <2>1. << >> \in Seq(S)
    OBVIOUS
  <2> HIDE DEF st
  <2> QED
    BY <1>1, <2>1, RecursionExists
<1>3. PICK g \in [0..N -> Seq(S)] : g[0] = << >> /\ \A k \in 1..N : g[k] = st[k][g[k - 1]]
  <2> HIDE DEF st
  <2> QED
    BY <1>2 DEF Runs
<1>4. \A k \in 1..N : g[k] = g[k - 1] \o parts[k]
  <2>1. \A k \in 1..N : g[k - 1] \in Seq(S)
    OBVIOUS
  <2> QED
    BY <1>3, <2>1
<1>5. ASSUME NEW k \in 0..N PROVE FlattenSeq([j \in 1..k |-> parts[j]]) = g[k]
  <2>1. PICK p : p = [j \in 1..k |-> parts[j]]
    OBVIOUS
  <2>2. Len(p) = k
    <3>1. p = [j \in 1..k |-> p[j]] /\ k \in Nat
      BY <2>1
    <3> QED
      BY ONLY <3>1
  <2>3. CASE k = 0
    <3>1. FlattenSeq(p) = p
      BY ONLY <2>2, <2>3 DEF FlattenSeq
    <3>2. p = << >>
      BY <2>1, <2>3
    <3> QED
      BY <1>3, <2>1, <2>3, <3>1, <3>2
  <2>4. CASE k # 0
    <3> DEFINE fl == CHOOSE f : f = [i \in 1..k |-> IF i = 1 THEN p[i] ELSE f[i - 1] \o p[i]]
    <3>1. FlattenSeq(p) = fl[k]
      BY ONLY <2>2, <2>4 DEF FlattenSeq
    <3>2. PICK h : h = [i \in 1..k |-> g[i]]
      OBVIOUS
    <3>3. h = [i \in 1..k |-> IF i = 1 THEN p[i] ELSE h[i - 1] \o p[i]]
      <4>1. ASSUME NEW i \in 1..k PROVE h[i] = IF i = 1 THEN p[i] ELSE h[i - 1] \o p[i]
        <5>1. i \in 1..N /\ h[i] = g[i] /\ p[i] = parts[i] /\ g[i] = g[i - 1] \o parts[i]
          <6>1. i \in 1..N
            OBVIOUS
          <6>2. g[i] = g[i - 1] \o parts[i]
            BY ONLY <1>4, <6>1
          <6>3. h[i] = g[i] /\ p[i] = parts[i]
            BY ONLY <2>1, <3>2, i \in 1..k
          <6> QED
            BY ONLY <6>1, <6>2, <6>3
        <5>2. CASE i = 1
          <6>1. g[i - 1] = << >> /\ parts[i] \in Seq(S)
            BY <1>3, <5>1, <5>2
          <6>2. PICK x \in Seq(S) : x = parts[i]
            BY <6>1
          <6>3. << >> \o x = x
            OBVIOUS
          <6> QED
            BY ONLY <5>1, <5>2, <6>1, <6>2, <6>3
        <5>3. CASE i # 1
          <6>1. i - 1 \in 1..k
            BY <5>3
          <6>2. h[i - 1] = g[i - 1]
            BY <3>2, <6>1
          <6> QED
            BY ONLY <5>1, <5>3, <6>2
        <5> QED
          BY <5>2, <5>3
      <4>2. h = [i \in 1..k |-> h[i]]
        BY <3>2
      <4> QED
        BY <4>1, <4>2
    <3>4. fl = [i \in 1..k |-> IF i = 1 THEN p[i] ELSE fl[i - 1] \o p[i]]
      BY <3>3
    <3> HIDE DEF fl
    <3> DEFINE D == {i \in Nat : i + 1 <= k => fl[i + 1] = g[i + 1]}
    <3>5. 0 \in D
      <4>1. fl[1] = p[1] /\ p[1] = parts[1] /\ 1 \in 1..k /\ 1 \in 1..N
        BY <2>1, <2>4, <3>4
      <4>2. h[1] = p[1] /\ h[1] = g[1]
        BY <3>2, <3>3, <4>1
      <4> QED
        BY <4>1, <4>2
    <3>6. ASSUME NEW i \in D PROVE i + 1 \in D
      <4> SUFFICES ASSUME (i + 1) + 1 <= k PROVE fl[(i + 1) + 1] = g[(i + 1) + 1]
        OBVIOUS
      <4>1. PICK n \in Nat : n = i + 1
        OBVIOUS
      <4>2. n + 1 \in 1..k /\ n \in 1..k /\ n + 1 # 1 /\ n + 1 \in 1..N /\ (n + 1) - 1 = n
        BY <4>1
      <4>3. fl[n] = g[n]
        BY <4>1, <4>2
      <4>4. fl[n + 1] = fl[n] \o p[n + 1]
        BY ONLY <3>4, <4>2
      <4>5. g[n + 1] = g[n] \o parts[n + 1] /\ p[n + 1] = parts[n + 1]
        BY <1>4, <2>1, <4>2
      <4> QED
        BY ONLY <4>1, <4>3, <4>4, <4>5
    <3>7. D \in SUBSET Nat
      OBVIOUS
    <3> HIDE DEF D
    <3>8. k - 1 \in D
      <4>1. D = Nat
        BY ONLY <3>5, <3>6, <3>7, AllNat
      <4>2. k - 1 \in Nat
        BY <2>4
      <4> QED
        BY ONLY <4>1, <4>2
    <3>9. fl[k] = g[k]
      <4>1. (k - 1) + 1 = k
        OBVIOUS
      <4> QED
        BY <3>8, <4>1 DEF D
    <3> QED
      BY ONLY <2>1, <3>1, <3>9
  <2> QED
    BY <2>3, <2>4
<1> SUFFICES \E h \in [0..N -> Seq(S)] :
               /\ h[0] = << >> /\ \A k \in 1..N : h[k] = h[k - 1] \o parts[k]
               /\ \A k \in 0..N : FlattenSeq([j \in 1..k |-> parts[j]]) = h[k]
  BY DEF Flattens
<1> WITNESS g \in [0..N -> Seq(S)]
<1> QED
  BY <1>3, <1>4, <1>5

\* They are a sequence.
LEMMA FlatIs ==
  ASSUME NEW S, NEW N \in Nat, NEW t, t = [k \in 1..N |-> t[k]], \A k \in 1..N : t[k] \in Seq(S)
  PROVE  FlattenSeq(t) \in Seq(S)
<1>1. Flattens(S, N, t)
  BY ONLY N \in Nat, \A k \in 1..N : t[k] \in Seq(S), FlattenIs
<1>2. PICK g \in [0..N -> Seq(S)] : \A k \in 0..N : FlattenSeq([j \in 1..k |-> t[j]]) = g[k]
  BY ONLY <1>1 DEF Flattens
<1>3. N \in 0..N
  OBVIOUS
<1>4. FlattenSeq([j \in 1..N |-> t[j]]) = g[N] /\ g[N] \in Seq(S)
  BY ONLY <1>2, <1>3
<1>5. PICK u : u = [j \in 1..N |-> t[j]]
  OBVIOUS
<1>6. u = t
  BY ONLY <1>5, t = [k \in 1..N |-> t[k]]
<1> QED
  BY ONLY <1>4, <1>5, <1>6

KindNames == {"number", "char", "string"}
Kinds == [text : Seq(KindNames), flags : Seq(KindNames)]
TakesNothing == [text |-> << >>, flags |-> << >>]

\* What each character of a format adds.
LEMMA BeforeIs ==
  ASSUME NEW c, NEW r \in Kinds
  PROVE  /\ Before(c, r) \in Kinds
         /\ c # "NUL" /\ c # "%" => Before(c, r).text = r.text
         /\ c = "%" => Before(c, r).text = r.flags
         /\ c \in Goes => Before(c, r).flags = r.flags
         /\ c = "*" => Before(c, r).flags = <<"number">> \o r.flags
         /\ c \in {"d", "o", "u", "x", "p", "e"} => Before(c, r).flags = <<"number">> \o r.text
         /\ c = "c" => Before(c, r).flags = <<"char">> \o r.text
         /\ c = "s" => Before(c, r).flags = <<"string">> \o r.text
         /\ c = "%" \/ (c # "NUL" /\ c \notin Known) => Before(c, r).flags = r.text
         /\ c = "NUL" => Before(c, r) = TakesNothing
<1>1. r.text \in Seq(KindNames) /\ r.flags \in Seq(KindNames)
  BY DEF Kinds
<1>2. Goes = {"-", "0", "#", "l", ".", "1", "2", "3", "4", "5", "6", "7", "8", "9"}
  BY DEF Goes, Digit, DigitOf
<1>3. CASE c = "NUL"
  BY <1>2, <1>3 DEF Before, Kinds, TakesNothing
<1>4. CASE c # "NUL"
  <2>1. PICK t : t = IF c = "%" THEN r.flags ELSE r.text
    OBVIOUS
  <2>2. PICK g : g = CASE c \in Goes -> r.flags
                       [] c = "*" -> <<"number">> \o r.flags
                       [] c \in DOMAIN KindOf -> <<KindOf[c]>> \o r.text
                       [] OTHER -> r.text
    OBVIOUS
  <2>3. Before(c, r) = [text |-> t, flags |-> g]
    BY <1>4, <2>1, <2>2 DEF Before
  <2>4. Before(c, r).text = t /\ Before(c, r).flags = g
    BY ONLY <2>3
  <2>5. DOMAIN KindOf = {"d", "o", "u", "x", "p", "e", "c", "s"}
    BY DEF KindOf
  <2>6. /\ \A k \in {"d", "o", "u", "x", "p", "e"} : KindOf[k] = "number"
        /\ KindOf["c"] = "char" /\ KindOf["s"] = "string"
    BY DEF KindOf
  <2>7. c \in Goes => g = r.flags
    BY ONLY <1>2, <2>2, <2>5
  <2>8. c = "*" => g = <<"number">> \o r.flags
    BY ONLY <1>2, <2>2, <2>5
  <2>9. c \in DOMAIN KindOf => g = <<KindOf[c]>> \o r.text
    BY ONLY <1>2, <2>2, <2>5
  <2>10. c \notin Goes \cup {"*"} \cup DOMAIN KindOf => g = r.text
    BY ONLY <2>2
  <2>11. c \in {"d", "o", "u", "x", "p", "e"} => g = <<"number">> \o r.text
    BY ONLY <2>5, <2>6, <2>9
  <2>12. c = "c" => g = <<"char">> \o r.text
    BY ONLY <2>5, <2>6, <2>9
  <2>13. c = "s" => g = <<"string">> \o r.text
    BY ONLY <2>5, <2>6, <2>9
  <2>14. c = "%" \/ c \notin Known => g = r.text
    <3>1. c \notin Known => c \notin Goes \cup {"*"} \cup DOMAIN KindOf
      BY ONLY DEF Known
    <3>2. c = "%" => c \notin Goes \cup {"*"} \cup DOMAIN KindOf
      BY ONLY <1>2, <2>5
    <3> QED
      BY ONLY <2>10, <3>1, <3>2
  <2>15. t \in Seq(KindNames) /\ (c # "%" => t = r.text) /\ (c = "%" => t = r.flags)
    BY ONLY <1>1, <2>1
  <2>16. \A k \in KindNames, s \in Seq(KindNames) : <<k>> \o s \in Seq(KindNames)
    OBVIOUS
  <2>17. g \in Seq(KindNames)
    <3>1. "number" \in KindNames /\ "char" \in KindNames /\ "string" \in KindNames
      BY DEF KindNames
    <3>2. CASE c \in DOMAIN KindOf
      <4>1. KindOf[c] \in KindNames
        BY ONLY <2>5, <2>6, <3>1, <3>2
      <4>2. PICK k : k = KindOf[c]
        OBVIOUS
      <4> QED
        BY ONLY <1>1, <2>9, <2>16, <3>2, <4>1, <4>2
    <3>3. CASE c = "*"
      BY ONLY <1>1, <2>8, <2>16, <3>1, <3>3
    <3> QED
      BY ONLY <1>1, <2>7, <2>10, <3>2, <3>3
  <2>18. Before(c, r) \in Kinds
    BY ONLY <2>3, <2>15, <2>17 DEF Kinds
  <2> QED
    BY ONLY <1>4, <2>4, <2>7, <2>8, <2>11, <2>12, <2>13, <2>14, <2>15, <2>18
<1> QED
  BY ONLY <1>3, <1>4

\* The recursion that Takes is.
TakesTo(f, g) ==
  g = [m \in 0..Len(f) |-> IF m = 0 THEN TakesNothing ELSE Before(f[Len(f) - m + 1], g[m - 1])]

LEMMA NothingTaken == TakesNothing \in Kinds
<1>1. << >> \in Seq(KindNames)
  OBVIOUS
<1> QED
  BY <1>1 DEF TakesNothing, Kinds

LEMMA TakesExists ==
  ASSUME NEW S, NEW f \in Seq(S)
  PROVE  \E g : TakesTo(f, g)
<1>1. PICK N \in Nat : N = Len(f)
  OBVIOUS
<1> DEFINE st == [m \in 1..N |-> [r \in Kinds |-> Before(f[N - m + 1], r)]]
<1>2. st \in [1..N -> [Kinds -> Kinds]]
  BY BeforeIs
<1>3. Runs(N, Kinds, TakesNothing, st)
  <2> HIDE DEF st
  <2> QED
    BY <1>2, NothingTaken, RecursionExists
<1>4. PICK g \in [0..N -> Kinds] : g[0] = TakesNothing /\ \A k \in 1..N : g[k] = st[k][g[k - 1]]
  <2> HIDE DEF st
  <2> QED
    BY <1>3 DEF Runs
<1>5. \A m \in 1..N : g[m] = Before(f[N - m + 1], g[m - 1])
  <2>1. \A m \in 1..N : g[m - 1] \in Kinds
    OBVIOUS
  <2> QED
    BY <1>4, <2>1
<1>6. \A m \in 0..N : m # 0 => m \in 1..N
  OBVIOUS
<1>7. g = [m \in 0..N |-> IF m = 0 THEN TakesNothing ELSE Before(f[N - m + 1], g[m - 1])]
  BY <1>4, <1>5, <1>6
<1> QED
  BY <1>1, <1>7 DEF TakesTo

LEMMA TakesIs ==
  ASSUME NEW S, NEW f \in Seq(S)
  PROVE  /\ Takes(f) \in Kinds
         /\ f # << >> => Takes(f) = Before(Head(f), Takes(Tail(f)))
<1> DEFINE TakesFun(h) == CHOOSE g : TakesTo(h, g)
<1>1. \A h \in Seq(S) : Takes(h) = TakesFun(h)[Len(h)] /\ TakesTo(h, TakesFun(h))
  <2>1. ASSUME NEW h \in Seq(S) PROVE TakesTo(h, TakesFun(h))
    BY TakesExists
  <2>2. ASSUME NEW h \in Seq(S) PROVE Takes(h) = TakesFun(h)[Len(h)]
    BY DEF Takes, TakesTo, TakesNothing
  <2> QED
    BY <2>1, <2>2
<1> HIDE DEF TakesFun
<1>2. PICK r : r = TakesFun(f)
  OBVIOUS
<1>3. Takes(f) = r[Len(f)] /\ r[0] = TakesNothing
      /\ \A m \in 1..Len(f) : r[m] = Before(f[Len(f) - m + 1], r[m - 1])
  BY <1>1, <1>2 DEF TakesTo
<1>4. PICK N \in Nat : N = Len(f)
  OBVIOUS
<1>5. Takes(f) \in Kinds
  <2> DEFINE D == {m \in Nat : m <= N => r[m] \in Kinds}
  <2>1. 0 \in D
    BY <1>3, NothingTaken
  <2>2. ASSUME NEW m \in D PROVE m + 1 \in D
    <3> SUFFICES ASSUME m + 1 <= N PROVE r[m + 1] \in Kinds
      OBVIOUS
    <3>1. m + 1 \in 1..N /\ (m + 1) - 1 = m /\ r[m] \in Kinds
      OBVIOUS
    <3>2. r[m + 1] = Before(f[N - (m + 1) + 1], r[m])
      BY <1>3, <1>4, <3>1
    <3> QED
      BY <3>1, <3>2, BeforeIs
  <2>3. D \in SUBSET Nat
    OBVIOUS
  <2> HIDE DEF D
  <2>4. N \in D
    BY <2>1, <2>2, <2>3, AllNat
  <2> QED
    BY <1>3, <1>4, <2>4 DEF D
<1>6. ASSUME f # << >> PROVE Takes(f) = Before(Head(f), Takes(Tail(f)))
  <2>1. PICK t : t = TakesFun(Tail(f))
    OBVIOUS
  <2>2. Tail(f) \in Seq(S) /\ Len(Tail(f)) = N - 1 /\ N >= 1
    BY <1>4, <1>6
  <2>3. Takes(Tail(f)) = t[N - 1] /\ t[0] = TakesNothing
        /\ \A m \in 1..N-1 : t[m] = Before(Tail(f)[N - 1 - m + 1], t[m - 1])
    <3>1. PICK h : h = Tail(f)
      OBVIOUS
    <3>2. h \in Seq(S) /\ Len(h) = N - 1
      BY <2>2, <3>1
    <3>3. Takes(h) = t[N - 1] /\ TakesTo(h, t)
      BY <1>1, <2>1, <3>1, <3>2
    <3>4. \A m \in 0..N-1 : t[m] = IF m = 0 THEN TakesNothing
                                           ELSE Before(h[N - 1 - m + 1], t[m - 1])
      BY ONLY <3>2, <3>3 DEF TakesTo
    <3>5. 0 \in 0..N-1 /\ \A m \in 1..N-1 : m \in 0..N-1 /\ m # 0
      BY <2>2
    <3> QED
      BY ONLY <3>1, <3>3, <3>4, <3>5
  <2>4. \A m \in 1..N-1 : Tail(f)[N - 1 - m + 1] = f[N - m + 1]
    BY <1>4, <2>2
  <2> DEFINE D == {m \in Nat : m <= N - 1 => r[m] = t[m]}
  <2>5. 0 \in D
    BY <1>3, <2>3
  <2>6. ASSUME NEW m \in D PROVE m + 1 \in D
    <3> SUFFICES ASSUME m + 1 <= N - 1 PROVE r[m + 1] = t[m + 1]
      OBVIOUS
    <3>1. m + 1 \in 1..N-1 /\ m + 1 \in 1..N /\ (m + 1) - 1 = m /\ r[m] = t[m]
      OBVIOUS
    <3>2. r[m + 1] = Before(f[N - (m + 1) + 1], r[m])
      BY <1>3, <1>4, <3>1
    <3>3. t[m + 1] = Before(f[N - (m + 1) + 1], t[m])
      BY <2>3, <2>4, <3>1
    <3> QED
      BY <3>1, <3>2, <3>3
  <2>7. D \in SUBSET Nat
    OBVIOUS
  <2> HIDE DEF D
  <2>8. N - 1 \in D /\ N - 1 \in Nat
    <3>1. D = Nat
      BY ONLY <2>5, <2>6, <2>7, AllNat
    <3>2. N - 1 \in Nat
      BY ONLY N \in Nat, <2>2
    <3> QED
      BY ONLY <3>1, <3>2
  <2>9. r[N - 1] = t[N - 1]
    BY <2>8 DEF D
  <2>10. r[N] = Before(f[1], r[N - 1])
    <3>1. N \in 1..N /\ N - N + 1 = 1
      BY <2>2
    <3> QED
      BY ONLY <1>3, <1>4, <3>1
  <2>11. Head(f) = f[1]
    BY <1>6
  <2> QED
    BY <1>3, <1>4, <2>3, <2>9, <2>10, <2>11
<1> QED
  BY <1>5, <1>6

IsSeq(s) == \E S : s \in Seq(S)

LEMMA IsSeqLen ==
  ASSUME NEW s, IsSeq(s)
  PROVE  Len(s) \in Nat
BY DEF IsSeq

LEMMA IsSeqJoin ==
  ASSUME NEW s, IsSeq(s), NEW t, IsSeq(t)
  PROVE  IsSeq(s \o t)
<1>1. PICK S : s \in Seq(S)
  BY DEF IsSeq
<1>2. PICK T : t \in Seq(T)
  BY DEF IsSeq
<1>3. s \in Seq(S \cup T) /\ t \in Seq(S \cup T)
  BY <1>1, <1>2
<1>4. s \o t \in Seq(S \cup T)
  BY <1>3
<1> QED
  BY <1>4 DEF IsSeq

LEMMA IsSeqOne == ASSUME NEW x PROVE IsSeq(<<x>>)
<1>1. <<x>> \in Seq({x})
  OBVIOUS
<1> QED
  BY <1>1 DEF IsSeq

LEMMA IsSeqTail ==
  ASSUME NEW s, IsSeq(s), s # << >>
  PROVE  IsSeq(Tail(s)) /\ Len(Tail(s)) = Len(s) - 1 /\ Len(s) >= 1 /\ Head(s) = s[1]
         /\ \A k \in 1..Len(s)-1 : Tail(s)[k] = s[k + 1]
BY DEF IsSeq

LEMMA PadIs ==
  ASSUME NEW n \in Int, NEW c
  PROVE  IsSeq(Pad(n, c)) /\ Len(Pad(n, c)) = IF n > 0 THEN n ELSE 0
<1>1. PICK m \in Nat : m = IF n > 0 THEN n ELSE 0
  OBVIOUS
<1>2. Pad(n, c) = [i \in 1..m |-> c]
  BY <1>1 DEF Pad
<1>3. [i \in 1..m |-> c] \in Seq({c})
  OBVIOUS
<1>4. Len([i \in 1..m |-> c]) = m
  BY <1>3
<1> QED
  BY <1>1, <1>2, <1>3, <1>4 DEF IsSeq

\* The first of the arguments is of the first kind, and the others are left.
LEMMA FitsOne ==
  ASSUME NEW args, IsSeq(args), NEW kind \in KindNames, NEW rest \in Seq(KindNames),
         Fits(args, <<kind>> \o rest)
  PROVE  /\ OfKind(Head(args), kind) /\ args # << >>
         /\ IsSeq(Tail(args)) /\ Fits(Tail(args), rest)
<1> DEFINE all == <<kind>> \o rest
<1>1. Len(all) = Len(rest) + 1 /\ all[1] = kind /\ \A k \in 1..Len(rest) : all[k + 1] = rest[k]
  OBVIOUS
<1>2. Len(rest) \in Nat /\ Len(args) \in Nat
  BY IsSeqLen
<1> HIDE DEF all
<1>3. Len(all) <= Len(args) /\ \A k \in 1..Len(all) : OfKind(args[k], all[k])
  BY DEF Fits, all
<1>4. args # << >>
  BY <1>1, <1>2, <1>3
<1>5. /\ IsSeq(Tail(args)) /\ Len(Tail(args)) = Len(args) - 1 /\ Head(args) = args[1]
      /\ \A k \in 1..Len(args)-1 : Tail(args)[k] = args[k + 1]
  BY <1>4, IsSeqTail
<1>6. OfKind(args[1], kind)
  <2>1. 1 \in 1..Len(all)
    BY <1>1, <1>2
  <2> QED
    BY <1>1, <1>3, <2>1
<1>7. ASSUME NEW k \in 1..Len(rest) PROVE OfKind(Tail(args)[k], rest[k])
  <2>1. k + 1 \in 1..Len(all) /\ k \in 1..Len(args)-1
    BY <1>1, <1>2, <1>3
  <2>2. OfKind(args[k + 1], all[k + 1])
    BY <1>3, <2>1
  <2> QED
    BY <1>1, <1>5, <2>1, <2>2
<1>8. Len(rest) <= Len(Tail(args))
  BY <1>1, <1>2, <1>3, <1>5
<1> QED
  BY <1>4, <1>5, <1>6, <1>7, <1>8 DEF Fits

LEMMA PowerOfTwo == ASSUME NEW n \in Nat PROVE 2^n \in Nat \ {0}
<1>1. IsFiniteSet(1..n) /\ Cardinality(1..n) = n
  BY FS_Interval
<1>2. PICK S : S = SUBSET (1..n)
  OBVIOUS
<1>3. IsFiniteSet(S) /\ Cardinality(S) = 2^n
  BY <1>1, <1>2, FS_SUBSET
<1>4. Cardinality(S) \in Nat /\ (Cardinality(S) = 0 => S = {})
  BY <1>3, FS_CardinalityType, FS_EmptySet
<1>5. S # {}
  BY <1>2
<1> QED
  BY <1>3, <1>4, <1>5

LEMMA SignedIs ==
  ASSUME NEW x \in Int, NEW w \in Nat \ {0}
  PROVE  Signed(x, w) \in Int
<1>1. PICK p \in Nat \ {0} : p = 2^w
  BY PowerOfTwo
<1>2. PICK h \in Nat \ {0} : h = 2^(w-1)
  <2>1. w - 1 \in Nat
    OBVIOUS
  <2> QED
    BY <2>1, PowerOfTwo
<1>3. PICK y : y = x % p
  OBVIOUS
<1>4. y \in Int
  BY <1>3
<1>5. Signed(x, w) = IF y >= h THEN y - p ELSE y
  BY <1>1, <1>2, <1>3 DEF Signed
<1> QED
  BY <1>4, <1>5

Bases == {8, 10, 16}

LEMMA DivideIs ==
  ASSUME NEW n \in Nat, NEW base \in Bases
  PROVE  /\ n \div base \in Nat /\ n \div base <= n
         /\ n > 0 => n \div base < n
         /\ n % base \in 0..base-1
<1>1. CASE base = 8
  BY <1>1
<1>2. CASE base = 10
  BY <1>2
<1>3. CASE base = 16
  BY <1>3
<1> QED
  BY <1>1, <1>2, <1>3 DEF Bases

\* The recursion that printnum is: the digits of n, if r is those of the rest.
PrintRow(n, base, padc, r) ==
  [w \in Int |-> IF n >= base THEN Append(r[w - 1], Digit(n % base))
                              ELSE Append(Pad(w - 1, padc), Digit(n))]

PrintTo(base, padc, n, g) == \A k \in 0..n : g[k] = PrintRow(k, base, padc, g[k \div base])

LEMMA PrintRowFirst ==
  ASSUME NEW base \in Bases, NEW padc, NEW r, NEW q
  PROVE  PrintRow(0, base, padc, r) = PrintRow(0, base, padc, q)
BY DEF PrintRow, Bases

LEMMA PrintToExists ==
  ASSUME NEW base \in Bases, NEW padc, NEW n \in Nat
  PROVE  \E g : PrintTo(base, padc, n, g)
<1> DEFINE D == {m \in Nat : \E g : PrintTo(base, padc, m, g)}
<1>1. 0 \in D
  <2>1. PICK r : r = PrintRow(0, base, padc, 0)
    OBVIOUS
  <2> DEFINE g == [k \in Nat |-> r]
  <2>2. \A k \in 0..0 : k = 0 /\ g[k] = r
    OBVIOUS
  <2>3. \A q : r = PrintRow(0, base, padc, q)
    BY <2>1, PrintRowFirst
  <2> HIDE DEF g
  <2>4. PrintTo(base, padc, 0, g)
    BY <2>2, <2>3 DEF PrintTo
  <2> QED
    BY <2>4
<1>2. ASSUME NEW m \in D PROVE m + 1 \in D
  <2>1. PICK g : PrintTo(base, padc, m, g)
    OBVIOUS
  <2>2. PICK r : r = PrintRow(m + 1, base, padc, g[(m + 1) \div base])
    OBVIOUS
  <2> DEFINE h == [k \in Nat |-> IF k = m + 1 THEN r ELSE g[k]]
  <2>3. h[m + 1] = r /\ \A k \in 0..m : h[k] = g[k]
    OBVIOUS
  <2>4. ASSUME NEW k \in 0..m+1 PROVE h[k] = PrintRow(k, base, padc, h[k \div base])
    <3>1. k \div base \in 0..m
      <4>1. k \in Nat /\ k <= m + 1
        OBVIOUS
      <4>2. k \div base \in Nat /\ k \div base <= k /\ (k > 0 => k \div base < k)
        BY ONLY <4>1, base \in Bases, DivideIs
      <4>3. PICK d : d = k \div base
        OBVIOUS
      <4> QED
        BY ONLY <4>1, <4>2, <4>3, m \in Nat
    <3>2. h[k \div base] = g[k \div base]
      BY <2>3, <3>1
    <3>3. CASE k = m + 1
      BY <2>2, <2>3, <3>2, <3>3
    <3>4. CASE k \in 0..m
      BY <2>1, <2>3, <3>2, <3>4 DEF PrintTo
    <3> HIDE DEF h
    <3> QED
      BY <3>3, <3>4
  <2> HIDE DEF h
  <2>5. PrintTo(base, padc, m + 1, h)
    BY <2>4 DEF PrintTo
  <2> QED
    BY <2>5
<1>3. D \in SUBSET Nat
  OBVIOUS
<1> HIDE DEF D
<1>4. n \in D
  BY <1>1, <1>2, <1>3, AllNat
<1> QED
  BY <1>4 DEF D

LEMMA PrintToOne ==
  ASSUME NEW base \in Bases, NEW padc, NEW n \in Nat, NEW m \in Nat, NEW k \in Nat,
         k <= n, k <= m, NEW g, NEW h, PrintTo(base, padc, n, g), PrintTo(base, padc, m, h)
  PROVE  g[k] = h[k]
<1> DEFINE D == {j \in Nat : j <= n /\ j <= m /\ g[j] # h[j]}
<1>1. CASE D = {}
  BY <1>1
<1>2. CASE D # {}
  <2>1. D \in SUBSET Nat
    OBVIOUS
  <2>2. PICK j \in D : \A i \in D : j <= i
    <3> HIDE DEF D
    <3> QED
      BY <1>2, <2>1, LeastNat
  <2>3. j \in Nat /\ j \in 0..n /\ j \in 0..m /\ g[j] # h[j]
    OBVIOUS
  <2>4. /\ g[j] = PrintRow(j, base, padc, g[j \div base])
        /\ h[j] = PrintRow(j, base, padc, h[j \div base])
    BY <2>3 DEF PrintTo
  <2>5. j # 0
    BY <2>3, <2>4, PrintRowFirst
  <2>6. PICK d : d = j \div base
    OBVIOUS
  <2>7. d \in Nat /\ d < j
    BY ONLY <2>3, <2>5, <2>6, base \in Bases, DivideIs
  <2>8. g[d] = h[d]
    BY <2>2, <2>3, <2>7
  <2> QED
    BY <2>3, <2>4, <2>6, <2>8
<1> QED
  BY <1>1, <1>2

LEMMA PrintExists ==
  ASSUME NEW base \in Bases, NEW padc
  PROVE  \E g : g = [n \in Nat |-> PrintRow(n, base, padc, g[n \div base])]
<1> DEFINE C(n) == CHOOSE g : PrintTo(base, padc, n, g)
           G == [n \in Nat |-> C(n)[n]]
<1>1. \A n \in Nat : PrintTo(base, padc, n, C(n))
  BY PrintToExists
<1> HIDE DEF C
<1>2. ASSUME NEW n \in Nat PROVE G[n] = PrintRow(n, base, padc, G[n \div base])
  <2>1. PICK d : d = n \div base
    OBVIOUS
  <2>2. d \in Nat /\ d <= n
    BY ONLY <2>1, base \in Bases, DivideIs
  <2>3. C(n)[n] = PrintRow(n, base, padc, C(n)[d])
    BY <1>1, <2>1 DEF PrintTo
  <2>4. C(n)[d] = C(d)[d]
    <3>1. PrintTo(base, padc, n, C(n)) /\ PrintTo(base, padc, d, C(d))
      BY <1>1, <2>2
    <3> QED
      BY ONLY <2>2, <3>1, n \in Nat, base \in Bases, d <= d, PrintToOne
  <2>5. G[n] = C(n)[n] /\ G[d] = C(d)[d]
    BY <2>2
  <2> HIDE DEF G
  <2> QED
    BY <2>1, <2>3, <2>4, <2>5
<1>3. G = [n \in Nat |-> G[n]]
  OBVIOUS
<1> HIDE DEF G
<1>4. G = [n \in Nat |-> PrintRow(n, base, padc, G[n \div base])]
  BY <1>2, <1>3
<1> QED
  BY <1>4

\* printnum returns, with text.
LEMMA PrintnumIs ==
  ASSUME NEW num \in Nat, NEW base \in Bases, NEW width \in Int, NEW padc
  PROVE  IsSeq(printnum(num, base, width, padc))
<1> DEFINE g == CHOOSE f : f = [n \in Nat |-> PrintRow(n, base, padc, f[n \div base])]
<1>1. g = [n \in Nat |-> PrintRow(n, base, padc, g[n \div base])]
  BY PrintExists
<1>2. printnum(num, base, width, padc) = g[num][width]
  BY DEF printnum, PrintRow
<1> HIDE DEF g
<1> DEFINE D == {n \in Nat : \E w \in Int : ~IsSeq(g[n][w])}
<1>3. D = {}
  <2> SUFFICES ASSUME D # {} PROVE FALSE
    OBVIOUS
  <2>1. D \in SUBSET Nat
    OBVIOUS
  <2>2. PICK n \in D : \A i \in D : n <= i
    <3> HIDE DEF D
    <3> QED
      BY <2>1, LeastNat
  <2>3. PICK w \in Int : ~IsSeq(g[n][w])
    BY <2>2
  <2>4. g[n][w] = IF n >= base THEN Append(g[n \div base][w - 1], Digit(n % base))
                              ELSE Append(Pad(w - 1, padc), Digit(n))
    <3>1. g[n] = PrintRow(n, base, padc, g[n \div base])
      BY <1>1, <2>1
    <3> QED
      BY ONLY <3>1, w \in Int DEF PrintRow
  <2>5. PICK d : d = n \div base
    OBVIOUS
  <2>6. d \in Nat /\ (n >= base => d < n)
    <3>1. n >= base => n > 0
      BY DEF Bases
    <3> QED
      BY ONLY <2>5, <3>1, n \in D, <2>1, base \in Bases, DivideIs
  <2>7. n >= base => IsSeq(g[d][w - 1])
    <3>1. n >= base => d \notin D
      BY <2>2, <2>6
    <3>2. w - 1 \in Int
      OBVIOUS
    <3> QED
      BY <2>6, <3>1, <3>2
  <2>8. IsSeq(Pad(w - 1, padc))
    BY PadIs
  <2>9. \A s, x : IsSeq(s) => IsSeq(Append(s, x))
    <3>1. ASSUME NEW s, NEW x, IsSeq(s) PROVE IsSeq(Append(s, x))
      <4>1. PICK S : s \in Seq(S)
        BY <3>1 DEF IsSeq
      <4>2. Append(s, x) \in Seq(S \cup {x})
        BY <4>1
      <4> QED
        BY <4>2 DEF IsSeq
    <3> QED
      BY <3>1
  <2> QED
    BY ONLY <2>3, <2>4, <2>5, <2>7, <2>8, <2>9
<1> HIDE DEF D
<1>4. IsSeq(g[num][width])
  BY <1>3 DEF D
<1> QED
  BY <1>2, <1>4

\* A text that the terminator ends.
IsText(f) == IsSeq(f) /\ f # << >> /\ f[Len(f)] = "NUL"

LEMMA TextGoesOn ==
  ASSUME NEW f, IsText(f)
  PROVE  /\ Takes(f) \in Kinds /\ Takes(f) = Before(Head(f), Takes(Tail(f)))
         /\ Takes(Tail(f)) \in Kinds /\ Head(f) = f[1] /\ Len(f) \in Nat
         /\ Head(f) # "NUL" => IsText(Tail(f)) /\ Len(f) > 1
<1>1. PICK S : f \in Seq(S)
  BY DEF IsText, IsSeq
<1>2. f # << >> /\ f[Len(f)] = "NUL"
  BY DEF IsText
<1>3. Tail(f) \in Seq(S) /\ Head(f) = f[1] /\ Len(f) \in Nat /\ Len(f) >= 1
      /\ Len(Tail(f)) = Len(f) - 1 /\ \A k \in 1..Len(f)-1 : Tail(f)[k] = f[k + 1]
  BY ONLY <1>1, <1>2
<1>4. ASSUME Head(f) # "NUL" PROVE IsText(Tail(f)) /\ Len(f) > 1
  <2>1. Len(f) > 1
    BY ONLY <1>2, <1>3, <1>4
  <2>2. Tail(f)[Len(f) - 1] = f[Len(f)]
    BY ONLY <1>3, <2>1
  <2>3. Tail(f) # << >>
    <3>1. PICK t : t = Tail(f)
      OBVIOUS
    <3>2. Len(t) > 0
      BY ONLY <1>3, <2>1, <3>1
    <3>3. t # << >>
      BY ONLY <3>2
    <3> QED
      BY ONLY <3>1, <3>3
  <2> QED
    BY ONLY <1>2, <1>3, <2>1, <2>2, <2>3 DEF IsText, IsSeq
<1>5. Takes(f) \in Kinds /\ Takes(f) = Before(Head(f), Takes(Tail(f)))
  BY ONLY <1>1, <1>2, TakesIs
<1>6. Takes(Tail(f)) \in Kinds
  BY ONLY <1>3, TakesIs
<1> QED
  BY ONLY <1>3, <1>4, <1>5, <1>6

LEMMA DigitIs ==
  ASSUME NEW c
  PROVE  /\ IsDigit(c) <=> c \in {"0", "1", "2", "3", "4", "5", "6", "7", "8", "9"}
         /\ IsDigit(c) => (CHOOSE d \in 0..9 : Digit(d) = c) \in 0..9
<1>1. /\ Digit(0) = "0" /\ Digit(1) = "1" /\ Digit(2) = "2" /\ Digit(3) = "3" /\ Digit(4) = "4"
      /\ Digit(5) = "5" /\ Digit(6) = "6" /\ Digit(7) = "7" /\ Digit(8) = "8" /\ Digit(9) = "9"
  BY DEF Digit, DigitOf
<1>2. \A d \in 0..9 : d = 0 \/ d = 1 \/ d = 2 \/ d = 3 \/ d = 4 \/ d = 5 \/ d = 6 \/ d = 7 \/ d = 8 \/ d = 9
  OBVIOUS
<1>3. 0 \in 0..9 /\ 1 \in 0..9 /\ 2 \in 0..9 /\ 3 \in 0..9 /\ 4 \in 0..9
      /\ 5 \in 0..9 /\ 6 \in 0..9 /\ 7 \in 0..9 /\ 8 \in 0..9 /\ 9 \in 0..9
  OBVIOUS
<1>4. IsDigit(c) <=> \E d \in 0..9 : c = Digit(d)
  BY DEF IsDigit
<1>5. IsDigit(c) => c \in {"0", "1", "2", "3", "4", "5", "6", "7", "8", "9"}
  BY ONLY <1>1, <1>2, <1>4
<1>6. c \in {"0", "1", "2", "3", "4", "5", "6", "7", "8", "9"} => IsDigit(c)
  BY ONLY <1>1, <1>3, <1>4
<1>7. IsDigit(c) => (CHOOSE d \in 0..9 : Digit(d) = c) \in 0..9
  BY ONLY <1>4
<1> QED
  BY <1>5, <1>6, <1>7

\* The number at the head of a text: how long it is, and what it says.
NumberLen(f) ==
  CHOOSE k \in 1..Len(f) : ~IsDigit(f[k + 1]) /\ \A j \in 1..k : IsDigit(f[j])

LEMMA NumberEnds ==
  ASSUME NEW f, IsText(f), IsDigit(Head(f))
  PROVE  /\ NumberLen(f) \in 1..Len(f)-1
         /\ \A j \in 1..NumberLen(f) : IsDigit(f[j])
<1>1. Len(f) \in Nat /\ Head(f) = f[1] /\ f[Len(f)] = "NUL"
  BY TextGoesOn DEF IsText
<1>2. ~IsDigit("NUL")
  BY DigitIs
<1>3. Head(f) # "NUL"
  BY <1>2
<1>4. Len(f) > 1
  BY <1>3, TextGoesOn
<1> DEFINE D == {k \in Nat : k < Len(f) /\ ~IsDigit(f[k + 1])}
<1>5. D \in SUBSET Nat /\ Len(f) - 1 \in D
  BY <1>1, <1>2, <1>4
<1>6. PICK k \in D : \A j \in D : k <= j
  <2> HIDE DEF D
  <2> QED
    BY <1>5, LeastNat
<1>7. k \in Nat /\ k < Len(f) /\ ~IsDigit(f[k + 1])
  BY <1>6
<1>8. k # 0
  BY <1>1, <1>7
<1>9. ASSUME NEW j \in 1..k PROVE IsDigit(f[j])
  <2>1. j - 1 \in Nat /\ j - 1 < Len(f) /\ (j - 1) + 1 = j /\ ~(k <= j - 1)
    BY <1>1, <1>7
  <2>2. j - 1 \notin D
    BY <1>6, <2>1
  <2> QED
    BY <2>1, <2>2
<1> HIDE DEF D
<1>10. k \in 1..Len(f) /\ ~IsDigit(f[k + 1]) /\ \A j \in 1..k : IsDigit(f[j])
  BY <1>1, <1>7, <1>8, <1>9
<1>11. PICK n : n = NumberLen(f)
  OBVIOUS
<1>12. n \in 1..Len(f) /\ ~IsDigit(f[n + 1]) /\ \A j \in 1..n : IsDigit(f[j])
  BY ONLY <1>10, <1>11 DEF NumberLen
<1>13. n # Len(f)
  BY <1>1, <1>2, <1>12
<1> QED
  BY <1>1, <1>11, <1>12, <1>13

NumberValue(f, len) ==
  LET value[k \in 0..len] ==
        IF k = 0 THEN 0 ELSE value[k - 1] * 10 + (CHOOSE d \in 0..9 : Digit(d) = f[k])
  IN value[len]

LEMMA NumberIs ==
  ASSUME NEW f, NEW len \in Nat, \A j \in 1..len : IsDigit(f[j])
  PROVE  NumberValue(f, len) \in Nat
<1> DEFINE dig(k) == CHOOSE d \in 0..9 : Digit(d) = f[k]
           st == [k \in 1..len |-> [v \in Nat |-> v * 10 + dig(k)]]
           value == CHOOSE g : g = [k \in 0..len |-> IF k = 0 THEN 0 ELSE g[k - 1] * 10 + dig(k)]
<1>1. NumberValue(f, len) = value[len]
  BY DEF NumberValue
<1>2. \A k \in 1..len : dig(k) \in 0..9
  BY DigitIs
<1> HIDE DEF dig
<1>3. st \in [1..len -> [Nat -> Nat]]
  BY <1>2
<1>4. Runs(len, Nat, 0, st)
  <2> HIDE DEF st
  <2> QED
    BY <1>3, RecursionExists
<1>5. PICK g \in [0..len -> Nat] : g[0] = 0 /\ \A k \in 1..len : g[k] = st[k][g[k - 1]]
  <2> HIDE DEF st
  <2> QED
    BY <1>4 DEF Runs
<1>6. \A k \in 1..len : g[k] = g[k - 1] * 10 + dig(k)
  <2>1. \A k \in 1..len : g[k - 1] \in Nat
    OBVIOUS
  <2> QED
    BY <1>5, <2>1
<1>7. g = [k \in 0..len |-> IF k = 0 THEN 0 ELSE g[k - 1] * 10 + dig(k)]
  <2>1. \A k \in 0..len : k # 0 => k \in 1..len
    OBVIOUS
  <2> QED
    BY <1>5, <1>6, <2>1
<1>8. value = [k \in 0..len |-> IF k = 0 THEN 0 ELSE value[k - 1] * 10 + dig(k)]
  BY <1>7
<1> HIDE DEF value
<1> DEFINE D == {k \in Nat : k <= len => value[k] \in Nat}
<1>9. 0 \in D
  BY <1>8
<1>10. ASSUME NEW k \in D PROVE k + 1 \in D
  <2> SUFFICES ASSUME k + 1 <= len PROVE value[k + 1] \in Nat
    OBVIOUS
  <2>1. k + 1 \in 1..len /\ k + 1 \in 0..len /\ (k + 1) - 1 = k /\ k + 1 # 0
    OBVIOUS
  <2>2. value[k + 1] = value[k] * 10 + dig(k + 1)
    BY <1>8, <2>1
  <2>3. PICK v \in Nat, d \in 0..9 : v = value[k] /\ d = dig(k + 1)
    BY <1>2, <2>1
  <2>4. v * 10 + d \in Nat
    OBVIOUS
  <2> QED
    BY ONLY <2>2, <2>3, <2>4
<1>11. D \in SUBSET Nat
  OBVIOUS
<1> HIDE DEF D
<1>12. len \in D
  BY <1>9, <1>10, <1>11, AllNat
<1> QED
  BY <1>1, <1>12 DEF D

\* What is left after the digits takes what was taken before them.
LEMMA DigitsTakeNothing ==
  ASSUME NEW f, IsText(f), NEW len \in Nat, len < Len(f), \A j \in 1..len : IsDigit(f[j])
  PROVE  /\ IsText(SubSeq(f, len + 1, Len(f)))
         /\ Takes(SubSeq(f, len + 1, Len(f))).text = Takes(f).text
         /\ Takes(SubSeq(f, len + 1, Len(f))).flags = Takes(f).flags
<1>1. PICK S : f \in Seq(S)
  BY DEF IsText, IsSeq
<1>2. PICK N \in Nat : N = Len(f)
  OBVIOUS
<1>3. f[N] = "NUL" /\ len < N
  BY <1>2 DEF IsText
<1> DEFINE R(k) == SubSeq(f, k + 1, N)
<1>4. ASSUME NEW k \in Nat, k < N
      PROVE  R(k) \in Seq(S) /\ Len(R(k)) = N - k /\ \A i \in 1..N-k : R(k)[i] = f[k + i]
  BY <1>1, <1>2, <1>4
<1> HIDE DEF R
<1>5. ASSUME NEW k \in Nat, k < N PROVE IsText(R(k)) /\ Head(R(k)) = f[k + 1]
  <2>1. R(k) \in Seq(S) /\ Len(R(k)) = N - k /\ \A i \in 1..N-k : R(k)[i] = f[k + i]
    BY <1>4, <1>5
  <2>2. N - k \in 1..N-k /\ 1 \in 1..N-k /\ k + (N - k) = N
    BY <1>5
  <2>3. R(k) # << >>
    BY ONLY <2>1, <2>2
  <2> QED
    BY <1>3, <2>1, <2>2, <2>3 DEF IsText, IsSeq
<1>6. ASSUME NEW k \in Nat, k + 1 < N PROVE Tail(R(k)) = R(k + 1)
  <2>1. R(k) \in Seq(S) /\ Len(R(k)) = N - k /\ \A i \in 1..N-k : R(k)[i] = f[k + i]
    BY <1>4, <1>6
  <2>2. k + 1 \in Nat
    OBVIOUS
  <2>3. /\ R(k + 1) \in Seq(S) /\ Len(R(k + 1)) = N - (k + 1)
        /\ \A i \in 1..N-(k+1) : R(k + 1)[i] = f[(k + 1) + i]
    BY <1>4, <1>6, <2>2
  <2>4. R(k) # << >>
    BY ONLY <1>6, <2>1, N \in Nat, k \in Nat
  <2>5. Tail(R(k)) \in Seq(S) /\ Len(Tail(R(k))) = N - k - 1
        /\ \A i \in 1..N-k-1 : Tail(R(k))[i] = R(k)[i + 1]
    BY ONLY <2>1, <2>4, N \in Nat, k \in Nat
  <2>6. \A i \in 1..N-k-1 : Tail(R(k))[i] = R(k + 1)[i]
    BY ONLY <2>1, <2>3, <2>5, N \in Nat, k \in Nat
  <2>7. N - (k + 1) = N - k - 1
    OBVIOUS
  <2> QED
    BY ONLY <2>3, <2>5, <2>6, <2>7
<1> DEFINE D == {k \in Nat : k <= len => Takes(R(k)).text = Takes(f).text /\ Takes(R(k)).flags = Takes(f).flags}
<1>7. 0 \in D
  <2>1. R(0) = f
    BY <1>1, <1>2 DEF R
  <2> QED
    BY <2>1
<1>8. ASSUME NEW k \in D PROVE k + 1 \in D
  <2> SUFFICES ASSUME k + 1 <= len
               PROVE  Takes(R(k + 1)).text = Takes(f).text /\ Takes(R(k + 1)).flags = Takes(f).flags
    OBVIOUS
  <2>1. k \in Nat /\ k < N /\ k + 1 < N /\ k + 1 \in 1..len
    BY <1>3
  <2>2. IsText(R(k)) /\ Head(R(k)) = f[k + 1] /\ Tail(R(k)) = R(k + 1)
    BY <1>5, <1>6, <2>1
  <2>3. Takes(R(k)) = Before(f[k + 1], Takes(R(k + 1))) /\ Takes(R(k + 1)) \in Kinds
    BY <2>2, TextGoesOn
  <2>4. f[k + 1] \in {"0", "1", "2", "3", "4", "5", "6", "7", "8", "9"}
    BY <2>1, DigitIs
  <2>5. f[k + 1] \in Goes /\ f[k + 1] # "%" /\ f[k + 1] # "NUL"
    BY <2>4 DEF Goes, Digit, DigitOf
  <2>6. Takes(R(k)).text = Takes(R(k + 1)).text /\ Takes(R(k)).flags = Takes(R(k + 1)).flags
    BY ONLY <2>3, <2>5, BeforeIs
  <2>7. Takes(R(k)).text = Takes(f).text /\ Takes(R(k)).flags = Takes(f).flags
    OBVIOUS
  <2> QED
    BY <2>6, <2>7
<1>9. D \in SUBSET Nat
  OBVIOUS
<1> HIDE DEF D
<1>10. len \in D
  BY <1>7, <1>8, <1>9, AllNat
<1>11. IsText(R(len))
  BY <1>3, <1>5
<1> QED
  BY <1>2, <1>10, <1>11 DEF D, R

LEMMA MinOfTwo == ASSUME NEW x \in Int, NEW y \in Int PROVE Min({x, y}) = IF x <= y THEN x ELSE y
<1>1. PICK m : m = IF x <= y THEN x ELSE y
  OBVIOUS
<1>2. m \in {x, y} /\ \A z \in {x, y} : m <= z
  BY <1>1
<1>3. \A z \in {x, y} : (\A w \in {x, y} : z <= w) => z = m
  BY <1>1
<1> QED
  BY <1>1, <1>2, <1>3 DEF Min

\* The parts of struct sprintbuf, and what is not written.
Sizes == call.n \in Int /\ call.n <= BufSize
BufIs(m, k) ==
  /\ \E c : b = [mem |-> m, buf |-> k, cnt |-> c]
  /\ DOMAIN m = 0..BufSize /\ k \in Nat
  /\ \A i \in 0..BufSize : i >= call.n => m[i] = "old"

BufInv == /\ \E m, k : BufIs(m, k)
          /\ fmt_at = "call" => b.buf = 0
          /\ fmt_at \in {"text", "flags"} => b.buf <= call.n - 1

\* sprintputch stays within the buffer.
LEMMA PutKeeps ==
  ASSUME Sizes, BufInv, fmt_at \in {"text", "flags"}, call' = call,
         NEW chars, IsSeq(chars), Put(chars)
  PROVE  (\E m, k : BufIs(m, k))' /\ b'.buf <= call.n - 1
<1>1. PICK m, k : BufIs(m, k)
  BY DEF BufInv
<1>2. PICK c : b = [mem |-> m, buf |-> k, cnt |-> c]
  BY <1>1 DEF BufIs
<1>3. b.mem = m /\ b.buf = k /\ b.cnt = c
  BY <1>2
<1>4. PICK n \in Int : n = call.n
  BY DEF Sizes
<1>5. k \in Nat /\ k <= n - 1 /\ DOMAIN m = 0..BufSize
      /\ \A i \in 0..BufSize : i >= n => m[i] = "old"
  BY <1>1, <1>3, <1>4 DEF BufIs, BufInv
<1>6. PICK len \in Nat : len = Len(chars)
  BY IsSeqLen
<1>7. PICK j : j = Min({Room, Len(chars)})
  OBVIOUS
<1>8. Room = n - 1 - k
  BY <1>3, <1>4 DEF Room
<1>9. j \in Nat /\ k + j <= n - 1
  <2>1. n - 1 - k \in Int /\ len \in Int
    BY <1>5
  <2>2. j = IF n - 1 - k <= len THEN n - 1 - k ELSE len
    BY ONLY <1>6, <1>7, <1>8, <2>1, MinOfTwo
  <2> QED
    BY ONLY <1>5, <1>6, <2>2, n \in Int
<1>10. PICK h : h = [i \in DOMAIN m |-> IF i \in k..k+j-1 THEN chars[i - k + 1] ELSE m[i]]
  OBVIOUS
<1>11. b' = [mem |-> h, buf |-> k + j, cnt |-> c + len]
  BY ONLY <1>3, <1>6, <1>7, <1>10, Put(chars) DEF Put
<1>12. b'.buf = k + j
  BY ONLY <1>11
<1>13. DOMAIN h = 0..BufSize /\ \A i \in 0..BufSize : i >= n => h[i] = "old"
  <2>1. \A i \in 0..BufSize : i >= n => i \notin k..k+j-1
    BY ONLY <1>5, <1>9, n \in Int
  <2> QED
    BY ONLY <1>5, <1>10, <2>1
<1>14. k + j \in Nat
  BY <1>5, <1>9
<1>15. BufIs(h, k + j)'
  BY <1>4, <1>11, <1>13, <1>14, call' = call DEF BufIs
<1>16. PICK g, q : BufIs(g, q)'
  BY <1>15
<1> QED
  BY ONLY <1>4, <1>9, <1>12, <1>16
-----------------------------------------------------------------------------
\* The format is there, and the arguments that are left fit what is left of it.
ArgsInv ==
  /\ fmt_at \in {"call", "text", "flags", "returned"}
  /\ fmt_at # "returned" => IsText(fmt) /\ IsSeq(ap)
  /\ fmt_at \in {"call", "text"} => Fits(ap, Takes(fmt).text)
  /\ fmt_at = "flags" => /\ Fits(ap, Takes(fmt).flags)
                         /\ IsText(since) /\ Takes(since).text = Takes(fmt).text

FlagsInv == \E p, w, r, a : /\ flags = [padc |-> p, width |-> w, precision |-> r, altflag |-> a]
                            /\ w \in Int /\ r \in Int

\* A conversion takes an argument of its kind.
LEMMA ConversionTakes ==
  ASSUME ArgsInv, fmt_at = "flags", NEW kind \in KindNames,
         Takes(fmt).flags = <<kind>> \o Takes(Tail(fmt)).text, Head(fmt) # "NUL"
  PROVE  /\ IsText(Tail(fmt)) /\ IsSeq(Tail(ap)) /\ Fits(Tail(ap), Takes(Tail(fmt)).text)
         /\ OfKind(Head(ap), kind)
<1>1. IsText(fmt) /\ IsSeq(ap) /\ Fits(ap, Takes(fmt).flags)
  BY DEF ArgsInv
<1>2. IsText(Tail(fmt)) /\ Takes(Tail(fmt)) \in Kinds
  BY <1>1, TextGoesOn
<1>3. Takes(Tail(fmt)).text \in Seq(KindNames)
  BY <1>2 DEF Kinds
<1>4. PICK rest \in Seq(KindNames) : rest = Takes(Tail(fmt)).text
  BY <1>3
<1> QED
  BY <1>1, <1>2, <1>4, FitsOne

LEMMA HeadTakes ==
  ASSUME IsText(fmt)
  PROVE  /\ Head(fmt) \in {"d", "o", "u", "x", "p", "e"} =>
              Takes(fmt).flags = <<"number">> \o Takes(Tail(fmt)).text
         /\ Head(fmt) = "c" => Takes(fmt).flags = <<"char">> \o Takes(Tail(fmt)).text
         /\ Head(fmt) = "s" => Takes(fmt).flags = <<"string">> \o Takes(Tail(fmt)).text
         /\ Head(fmt) = "*" => Takes(fmt).flags = <<"number">> \o Takes(Tail(fmt)).flags
         /\ Head(fmt) \in Goes => Takes(fmt).flags = Takes(Tail(fmt)).flags
         /\ Head(fmt) = "%" \/ (Head(fmt) # "NUL" /\ Head(fmt) \notin Known) =>
              Takes(fmt).flags = Takes(Tail(fmt)).text
         /\ Head(fmt) \notin {"NUL", "%"} => Takes(fmt).text = Takes(Tail(fmt)).text
         /\ Head(fmt) = "%" => Takes(fmt).text = Takes(Tail(fmt)).flags
         /\ Head(fmt) = "NUL" => Takes(fmt) = TakesNothing
<1>1. PICK c : c = Head(fmt)
  OBVIOUS
<1>2. PICK r \in Kinds : r = Takes(Tail(fmt))
  BY TextGoesOn
<1>3. Takes(fmt) = Before(c, r)
  BY <1>1, <1>2, TextGoesOn
<1>4. PICK t : t = Before(c, r)
  OBVIOUS
<1>5. /\ c # "NUL" /\ c # "%" => t.text = r.text
      /\ c = "%" => t.text = r.flags
      /\ c \in Goes => t.flags = r.flags
      /\ c = "*" => t.flags = <<"number">> \o r.flags
      /\ c \in {"d", "o", "u", "x", "p", "e"} => t.flags = <<"number">> \o r.text
      /\ c = "c" => t.flags = <<"char">> \o r.text
      /\ c = "s" => t.flags = <<"string">> \o r.text
      /\ c = "%" \/ (c # "NUL" /\ c \notin Known) => t.flags = r.text
      /\ c = "NUL" => t = TakesNothing
  BY ONLY <1>4, r \in Kinds, BeforeIs
<1> QED
  BY ONLY <1>1, <1>2, <1>3, <1>4, <1>5

Numbering == Dec \/ Oct \/ Uns \/ Hex \/ Ptr \/ ErrorText

LEMMA NumberingIs ==
  ASSUME Numbering
  PROVE  /\ fmt_at = "flags" /\ Head(fmt) \in {"d", "o", "u", "x", "p", "e"}
         /\ fmt_at' = "text" /\ fmt' = Tail(fmt) /\ ap' = Tail(ap)
         /\ UNCHANGED <<call, rc, since, flags>>
<1>1. CASE Dec
  BY <1>1 DEF Dec, At, SignedNum, Num, Prints, FmtStep
<1>2. CASE Oct
  BY <1>2 DEF Oct, At, SignedNum, Num, Prints, FmtStep
<1>3. CASE Uns
  BY <1>3 DEF Uns, At, Num, Prints, FmtStep
<1>4. CASE Hex
  BY <1>4 DEF Hex, At, Num, Prints, FmtStep
<1>5. CASE Ptr
  BY <1>5 DEF Ptr, At, Num, Prints, FmtStep
<1>6. CASE ErrorText
  BY <1>6 DEF ErrorText, At, Prints, FmtStep
<1> QED
  BY <1>1, <1>2, <1>3, <1>4, <1>5, <1>6 DEF Numbering

LEMMA NumberStep ==
  ASSUME Number, IsText(fmt)
  PROVE  \E len \in Nat :
           /\ len < Len(fmt) /\ \A j \in 1..len : IsDigit(fmt[j])
           /\ NumberValue(fmt, len) \in Nat
           /\ fmt_at = "flags"
           /\ Reswitch(ProcessPrecision(NumberValue(fmt, len)), SubSeq(fmt, len + 1, Len(fmt)), ap)
<1>1. fmt_at = "flags" /\ Head(fmt) \in {Digit(d) : d \in 1..9}
  BY DEF Number, At
<1>2. IsDigit(Head(fmt))
  BY <1>1 DEF IsDigit
<1>3. PICK len : len = NumberLen(fmt)
  OBVIOUS
<1>4. len \in 1..Len(fmt)-1 /\ \A j \in 1..len : IsDigit(fmt[j])
  BY ONLY <1>2, <1>3, IsText(fmt), NumberEnds
<1>5. Len(fmt) \in Nat
  BY TextGoesOn
<1>6. len \in Nat /\ len < Len(fmt)
  BY <1>4, <1>5
<1>7. NumberValue(fmt, len) \in Nat
  BY ONLY <1>4, <1>6, NumberIs
<1>8. Reswitch(ProcessPrecision(NumberValue(fmt, len)), SubSeq(fmt, len + 1, Len(fmt)), ap)
  BY <1>3 DEF Number, NumberLen, NumberValue
<1> QED
  BY <1>1, <1>4, <1>6, <1>7, <1>8

\* Going on within a directive, over characters that take nothing or a number.
LEMMA ArgsGoOn ==
  ASSUME ArgsInv, fmt_at = "flags", fmt_at' = "flags", since' = since,
         IsText(fmt'), IsSeq(ap'), Fits(ap', Takes(fmt').flags), Takes(fmt').text = Takes(fmt).text
  PROVE  ArgsInv'
BY DEF ArgsInv

LEMMA ArgsKept ==
  ASSUME ArgsInv, FmtNext
  PROVE  ArgsInv'
<1>1. CASE Einval \/ End
  BY <1>1 DEF Einval, End, ArgsInv
<1>2. CASE Start
  BY <1>2 DEF Start, FmtStep, ArgsInv
<1>3. CASE Text
  <2>1. fmt_at = "text" /\ fmt_at' = "text" /\ fmt' = Tail(fmt) /\ ap' = ap
        /\ Head(fmt) \notin {"NUL", "%"}
    BY <1>3 DEF Text, FmtStep
  <2>2. IsText(fmt) /\ IsSeq(ap) /\ Fits(ap, Takes(fmt).text)
    BY <2>1 DEF ArgsInv
  <2>3. IsText(Tail(fmt)) /\ Takes(fmt).text = Takes(Tail(fmt)).text
    BY <2>1, <2>2, TextGoesOn, HeadTakes
  <2> QED
    BY ONLY <2>1, <2>2, <2>3 DEF ArgsInv
<1>4. CASE Directive
  <2>1. fmt_at = "text" /\ fmt_at' = "flags" /\ fmt' = Tail(fmt) /\ ap' = ap /\ since' = Tail(fmt)
        /\ Head(fmt) = "%"
    BY <1>4 DEF Directive, FmtStep
  <2>2. IsText(fmt) /\ IsSeq(ap) /\ Fits(ap, Takes(fmt).text)
    BY <2>1 DEF ArgsInv
  <2>3. IsText(Tail(fmt)) /\ Takes(fmt).text = Takes(Tail(fmt)).flags
    BY <2>1, <2>2, TextGoesOn, HeadTakes
  <2> QED
    BY ONLY <2>1, <2>2, <2>3 DEF ArgsInv
<1>5. CASE PadFlag \/ Alternate \/ Long \/ Point
  <2>1. fmt_at = "flags" /\ fmt_at' = "flags" /\ fmt' = Tail(fmt) /\ ap' = ap /\ since' = since
        /\ Head(fmt) \in {"-", "0", "#", "l", "."}
    BY <1>5 DEF PadFlag, Alternate, Long, Point, At, Reswitch, FmtStep
  <2>2. Head(fmt) \in Goes
    BY <2>1 DEF Goes
  <2>3. IsText(fmt) /\ IsSeq(ap) /\ Fits(ap, Takes(fmt).flags)
    BY <2>1 DEF ArgsInv
  <2>4. IsText(Tail(fmt)) /\ Takes(fmt).flags = Takes(Tail(fmt)).flags
        /\ Takes(fmt).text = Takes(Tail(fmt)).text
    <3>1. Head(fmt) \notin {"NUL", "%"}
      BY ONLY <2>1
    <3> QED
      BY ONLY <2>2, <2>3, <3>1, TextGoesOn, HeadTakes
  <2> QED
    BY ONLY <2>1, <2>3, <2>4, ArgsInv, ArgsGoOn
<1>6. CASE Number
  <2>1. IsText(fmt)
    BY <1>6 DEF ArgsInv, Number, At
  <2>2. PICK len \in Nat :
          /\ len < Len(fmt) /\ \A j \in 1..len : IsDigit(fmt[j])
          /\ fmt_at = "flags"
          /\ Reswitch(ProcessPrecision(NumberValue(fmt, len)), SubSeq(fmt, len + 1, Len(fmt)), ap)
    BY <1>6, <2>1, NumberStep
  <2>3. fmt_at' = "flags" /\ fmt' = SubSeq(fmt, len + 1, Len(fmt)) /\ ap' = ap /\ since' = since
    BY <2>2 DEF Reswitch, FmtStep
  <2>4. IsText(fmt') /\ Takes(fmt').text = Takes(fmt).text /\ Takes(fmt').flags = Takes(fmt).flags
    BY ONLY <2>1, <2>2, <2>3, DigitsTakeNothing
  <2>5. IsSeq(ap) /\ Fits(ap, Takes(fmt).flags)
    BY <2>2 DEF ArgsInv
  <2> QED
    BY ONLY <2>2, <2>3, <2>4, <2>5, ArgsInv, ArgsGoOn
<1>7. CASE Star
  <2>1. fmt_at = "flags" /\ fmt_at' = "flags" /\ fmt' = Tail(fmt) /\ ap' = Tail(ap)
        /\ since' = since /\ Head(fmt) = "*"
    BY <1>7 DEF Star, At, Reswitch, FmtStep
  <2>2. IsText(fmt) /\ IsSeq(ap) /\ Fits(ap, Takes(fmt).flags)
    BY <2>1 DEF ArgsInv
  <2>3. IsText(Tail(fmt)) /\ Takes(fmt).flags = <<"number">> \o Takes(Tail(fmt)).flags
        /\ Takes(fmt).text = Takes(Tail(fmt)).text /\ Takes(Tail(fmt)) \in Kinds
    BY <2>1, <2>2, TextGoesOn, HeadTakes
  <2>4. PICK rest \in Seq(KindNames) : rest = Takes(Tail(fmt)).flags
    BY <2>3 DEF Kinds
  <2>5. IsSeq(Tail(ap)) /\ Fits(Tail(ap), rest)
    <3>1. "number" \in KindNames
      BY DEF KindNames
    <3> QED
      BY ONLY <2>2, <2>3, <2>4, <3>1, FitsOne
  <2> QED
    BY ONLY <2>1, <2>3, <2>4, <2>5, ArgsInv, ArgsGoOn
<1>8. CASE Numbering \/ Char \/ StringArg
  <2>1. /\ fmt_at = "flags" /\ fmt_at' = "text" /\ fmt' = Tail(fmt) /\ ap' = Tail(ap)
        /\ Head(fmt) \in {"d", "o", "u", "x", "p", "e", "c", "s"}
    <3>1. CASE Numbering
      BY <3>1, NumberingIs
    <3>2. CASE Char \/ StringArg
      BY <3>2 DEF Char, StringArg, At, Prints, FmtStep
    <3> QED
      BY <1>8, <3>1, <3>2
  <2>2. IsText(fmt)
    BY <2>1 DEF ArgsInv
  <2>3. PICK kind \in KindNames : Takes(fmt).flags = <<kind>> \o Takes(Tail(fmt)).text
    <3>1. "number" \in KindNames /\ "char" \in KindNames /\ "string" \in KindNames
      BY DEF KindNames
    <3> QED
      BY ONLY <2>1, <2>2, <3>1, HeadTakes
  <2>4. IsText(Tail(fmt)) /\ IsSeq(Tail(ap)) /\ Fits(Tail(ap), Takes(Tail(fmt)).text)
    <3>1. Head(fmt) # "NUL"
      BY ONLY <2>1
    <3> QED
      BY ONLY ArgsInv, <2>1, <2>3, <3>1, ConversionTakes
  <2> QED
    BY ONLY <2>1, <2>4 DEF ArgsInv
<1>9. CASE Percent
  <2>1. fmt_at = "flags" /\ fmt_at' = "text" /\ fmt' = Tail(fmt) /\ ap' = ap /\ Head(fmt) = "%"
    BY <1>9 DEF Percent, At, Prints, FmtStep
  <2>2. IsText(fmt) /\ IsSeq(ap) /\ Fits(ap, Takes(fmt).flags)
    BY <2>1 DEF ArgsInv
  <2>3. IsText(Tail(fmt)) /\ Takes(fmt).flags = Takes(Tail(fmt)).text
    BY <2>1, <2>2, TextGoesOn, HeadTakes
  <2> QED
    BY ONLY <2>1, <2>2, <2>3 DEF ArgsInv
<1>10. CASE Default
  <2>1. fmt_at = "flags" /\ fmt_at' = "text" /\ fmt' = since /\ ap' = ap /\ Head(fmt) \notin Known
    BY <1>10 DEF Default, FmtStep
  <2>2. IsText(fmt) /\ IsSeq(ap) /\ Fits(ap, Takes(fmt).flags)
        /\ IsText(since) /\ Takes(since).text = Takes(fmt).text
    BY <2>1 DEF ArgsInv
  <2>3. Takes(fmt).flags = Takes(fmt).text
    <3>1. CASE Head(fmt) # "NUL"
      <4>1. Head(fmt) # "%"
        BY ONLY <2>1 DEF Known
      <4> QED
        BY ONLY <2>1, <2>2, <3>1, <4>1, HeadTakes
    <3>2. CASE Head(fmt) = "NUL"
      BY ONLY <2>2, <3>2, HeadTakes DEF TakesNothing
    <3> QED
      BY ONLY <2>1, <3>1, <3>2
  <2> QED
    BY ONLY <2>1, <2>2, <2>3 DEF ArgsInv
<1> QED
  BY ONLY FmtNext, <1>1, <1>2, <1>3, <1>4, <1>5, <1>6, <1>7, <1>8, <1>9, <1>10
     DEF FmtNext, Numbering

LEMMA PrecisionKeeps ==
  ASSUME FlagsInv, NEW p \in Int, flags' = ProcessPrecision(p)
  PROVE  FlagsInv'
<1>1. PICK c, w, r, a : /\ flags = [padc |-> c, width |-> w, precision |-> r, altflag |-> a]
                        /\ w \in Int /\ r \in Int
  BY DEF FlagsInv
<1>2. \/ flags' = [padc |-> c, width |-> p, precision |-> -1, altflag |-> a]
      \/ flags' = [padc |-> c, width |-> w, precision |-> p, altflag |-> a]
  BY ONLY <1>1, flags' = ProcessPrecision(p) DEF ProcessPrecision
<1> QED
  BY <1>1, <1>2 DEF FlagsInv

\* The number that Star takes.
LEMMA StarTakes ==
  ASSUME ArgsInv, At({"*"})
  PROVE  Signed(Head(ap), IntWidth) \in Int
<1>1. fmt_at = "flags" /\ Head(fmt) = "*"
  BY DEF At
<1>2. IsText(fmt) /\ IsSeq(ap) /\ Fits(ap, Takes(fmt).flags)
  BY <1>1 DEF ArgsInv
<1>3. Takes(fmt).flags = <<"number">> \o Takes(Tail(fmt)).flags /\ Takes(Tail(fmt)) \in Kinds
  BY <1>1, <1>2, TextGoesOn, HeadTakes
<1>4. PICK rest \in Seq(KindNames) : rest = Takes(Tail(fmt)).flags
  BY <1>3 DEF Kinds
<1>5. OfKind(Head(ap), "number")
  <2>1. "number" \in KindNames
    BY DEF KindNames
  <2> QED
    BY ONLY <1>2, <1>3, <1>4, <2>1, FitsOne
<1>6. Head(ap) \in Nat
  BY <1>5 DEF OfKind
<1> QED
  <2>1. PICK n \in Nat : n = Head(ap)
    BY <1>6
  <2>2. IntWidth \in Nat \ {0} /\ n \in Int
    BY FmtWidthAssumption DEF FmtWidthAssumption
  <2>3. Signed(n, IntWidth) \in Int
    BY ONLY <2>2, SignedIs
  <2> QED
    BY ONLY <2>1, <2>3

LEMMA FlagsKept ==
  ASSUME ArgsInv, FlagsInv, FmtNext
  PROVE  FlagsInv'
<1>1. CASE Einval \/ Start \/ End \/ Text \/ Long \/ Numbering \/ Char \/ Percent \/ StringArg
           \/ Default
  <2>1. flags' = flags
    <3>1. CASE Numbering
      BY ONLY <3>1, NumberingIs
    <3> QED
      BY <1>1, <3>1 DEF Einval, Start, End, Text, Long, Char, Percent, StringArg, Default,
         Prints, Reswitch
  <2> QED
    BY ONLY FlagsInv, <2>1 DEF FlagsInv
<1>2. CASE Directive
  <2>1. PICK m \in Int : m = -1
    OBVIOUS
  <2>2. flags' = [padc |-> " ", width |-> m, precision |-> m, altflag |-> FALSE]
    BY <1>2, <2>1 DEF Directive, NoFlags
  <2> QED
    BY ONLY <2>2, m \in Int DEF FlagsInv
<1>3. CASE PadFlag \/ Alternate \/ Point
  <2>1. PICK c, w, r, a : /\ flags = [padc |-> c, width |-> w, precision |-> r, altflag |-> a]
                          /\ w \in Int /\ r \in Int
    BY DEF FlagsInv
  <2>2. \/ flags' = [flags EXCEPT !.padc = Head(fmt)]
        \/ flags' = [flags EXCEPT !.altflag = TRUE]
        \/ flags' = [flags EXCEPT !.width = IF @ < 0 THEN 0 ELSE @]
    BY <1>3 DEF PadFlag, Alternate, Point, Reswitch
  <2>3. PICK h : h = Head(fmt)
    OBVIOUS
  <2>4. \/ flags' = [padc |-> h, width |-> w, precision |-> r, altflag |-> a]
        \/ flags' = [padc |-> c, width |-> w, precision |-> r, altflag |-> TRUE]
        \/ flags' = [padc |-> c, width |-> IF w < 0 THEN 0 ELSE w, precision |-> r, altflag |-> a]
    BY ONLY <2>1, <2>2, <2>3
  <2>5. (IF w < 0 THEN 0 ELSE w) \in Int
    BY <2>1
  <2> QED
    BY <2>1, <2>4, <2>5 DEF FlagsInv
<1>4. CASE Number
  <2>1. IsText(fmt)
    BY <1>4 DEF ArgsInv, Number, At
  <2>2. PICK len \in Nat : /\ NumberValue(fmt, len) \in Nat
                           /\ flags' = ProcessPrecision(NumberValue(fmt, len))
    BY <1>4, <2>1, NumberStep DEF Reswitch
  <2>3. PICK p \in Int : p = NumberValue(fmt, len)
    BY <2>2
  <2> QED
    BY <2>2, <2>3, PrecisionKeeps
<1>5. CASE Star
  <2>1. PICK p \in Int : p = Signed(Head(ap), IntWidth)
    BY <1>5, StarTakes DEF Star
  <2>2. flags' = ProcessPrecision(p)
    BY <1>5, <2>1 DEF Star, Reswitch
  <2> QED
    BY <2>2, PrecisionKeeps
<1> QED
  BY ONLY FmtNext, <1>1, <1>2, <1>3, <1>4, <1>5 DEF FmtNext, Numbering
-----------------------------------------------------------------------------
\* What is printed is a sequence of characters.
LEMMA NumberingPrints ==
  ASSUME ArgsInv, FlagsInv, Numbering
  PROVE  \E chars : IsSeq(chars) /\ Put(chars)
<1>1. fmt_at = "flags" /\ Head(fmt) \in {"d", "o", "u", "x", "p", "e"}
  BY NumberingIs
<1>2. IsText(fmt)
  BY <1>1 DEF ArgsInv
<1>3. Takes(fmt).flags = <<"number">> \o Takes(Tail(fmt)).text /\ Head(fmt) # "NUL"
  <2>1. Head(fmt) # "NUL"
    BY ONLY <1>1
  <2> QED
    BY ONLY <1>1, <1>2, <2>1, HeadTakes
<1>4. OfKind(Head(ap), "number")
  <2>1. "number" \in KindNames
    BY DEF KindNames
  <2> QED
    BY ONLY ArgsInv, <1>1, <1>3, <2>1, ConversionTakes
<1>5. PICK n \in Nat : n = Head(ap)
  BY <1>4 DEF OfKind
<1>6. PICK w, c : w \in Int /\ w = flags.width /\ c = flags.padc
  BY DEF FlagsInv
<1>7. \A m \in Nat, base \in Bases : IsSeq(printnum(m, base, w, c))
  BY <1>6, PrintnumIs
<1>8. \A s : IsSeq(s) => IsSeq(<<"-">> \o s) /\ IsSeq(<<"0", "x">> \o s) /\ IsSeq(<< >> \o s)
                         /\ IsSeq(<<"e", "r", "r", "o", "r", " ">> \o s)
  <2>1. IsSeq(<<"-">>) /\ IsSeq(<<"0", "x">>) /\ IsSeq(<< >>) /\ IsSeq(<<"e", "r", "r", "o", "r", " ">>)
    <3>1. /\ <<"-">> \in Seq({"-"}) /\ <<"0", "x">> \in Seq({"0", "x"}) /\ << >> \in Seq({})
          /\ <<"e", "r", "r", "o", "r", " ">> \in Seq({"e", "r", "o", " "})
      OBVIOUS
    <3> QED
      BY <3>1 DEF IsSeq
  <2> QED
    BY <2>1, IsSeqJoin
<1>9. 8 \in Bases /\ 10 \in Bases /\ 16 \in Bases
  BY DEF Bases
<1>10. CASE Dec \/ Oct
  <2>1. PICK x \in Int : x = Signed(Head(ap), LongWidth)
    <3>1. LongWidth \in Nat \ {0}
      BY FmtWidthAssumption DEF FmtWidthAssumption
    <3> QED
      BY <1>5, <3>1, SignedIs
  <2>2. PICK base \in Bases :
          IF x < 0 THEN Put(<<"-">> \o printnum(-x, base, w, c))
                   ELSE Put(<< >> \o printnum(x, base, w, c))
    <3>1. CASE Dec
      BY <1>6, <1>9, <2>1, <3>1 DEF Dec, SignedNum, Num, Prints
    <3>2. CASE Oct
      BY <1>6, <1>9, <2>1, <3>2 DEF Oct, SignedNum, Num, Prints
    <3> QED
      BY <1>10, <3>1, <3>2
  <2>3. CASE x < 0
    <3>1. PICK y \in Nat : y = -x
      BY <2>3
    <3>2. IsSeq(<<"-">> \o printnum(y, base, w, c))
      BY <1>7, <1>8
    <3> QED
      BY <2>2, <2>3, <3>1, <3>2
  <2>4. CASE ~(x < 0)
    <3>1. x \in Nat
      BY <2>4
    <3>2. IsSeq(<< >> \o printnum(x, base, w, c))
      BY <1>7, <1>8, <3>1
    <3> QED
      BY <2>2, <2>4, <3>2
  <2> QED
    BY <2>3, <2>4
<1>11. CASE Uns \/ Hex \/ Ptr
  <2>1. \/ Put(<< >> \o printnum(n, 10, w, c)) \/ Put(<< >> \o printnum(n, 16, w, c))
        \/ Put(<<"0", "x">> \o printnum(n, 16, w, c))
    BY <1>5, <1>6, <1>11 DEF Uns, Hex, Ptr, Num, Prints
  <2>2. /\ IsSeq(<< >> \o printnum(n, 10, w, c)) /\ IsSeq(<< >> \o printnum(n, 16, w, c))
        /\ IsSeq(<<"0", "x">> \o printnum(n, 16, w, c))
    BY <1>7, <1>8, <1>9
  <2> QED
    BY <2>1, <2>2
<1>12. CASE ErrorText
  <2>1. PICK x \in Int : x = Signed(Head(ap), IntWidth)
    <3>1. IntWidth \in Nat \ {0}
      BY FmtWidthAssumption DEF FmtWidthAssumption
    <3> QED
      BY <1>5, <3>1, SignedIs
  <2>2. PICK err \in Nat : err = IF x < 0 THEN -x ELSE x
    OBVIOUS
  <2>3. \/ Put(<<"e", "r", "r", "o", "r", " ">> \o printnum(err, 10, -1, " "))
        \/ Put(ErrorName(err))
    BY <1>12, <2>1, <2>2 DEF ErrorText, Prints
  <2>4. IsSeq(<<"e", "r", "r", "o", "r", " ">> \o printnum(err, 10, -1, " "))
    <3>1. -1 \in Int
      OBVIOUS
    <3>2. PICK m \in Int : m = -1
      OBVIOUS
    <3>3. IsSeq(printnum(err, 10, m, " "))
      BY <1>9, PrintnumIs
    <3> QED
      BY <1>8, <3>2, <3>3
  <2>5. IsSeq(ErrorName(err))
    <3>1. PICK d : d = Digit(err)
      OBVIOUS
    <3>2. <<"m", d>> \in Seq({"m", d})
      OBVIOUS
    <3> QED
      BY <3>1, <3>2 DEF ErrorName, IsSeq
  <2> QED
    BY <2>3, <2>4, <2>5
<1> QED
  BY <1>10, <1>11, <1>12 DEF Numbering

LEMMA StringPrints ==
  ASSUME ArgsInv, FlagsInv, StringArg
  PROVE  \E chars : IsSeq(chars) /\ Put(chars)
<1>1. fmt_at = "flags" /\ Head(fmt) = "s"
  BY DEF StringArg, At
<1>2. IsText(fmt)
  BY <1>1 DEF ArgsInv
<1>3. Takes(fmt).flags = <<"string">> \o Takes(Tail(fmt)).text /\ Head(fmt) # "NUL"
  BY ONLY <1>1, <1>2, HeadTakes
<1>4. OfKind(Head(ap), "string")
  <2>1. "string" \in KindNames
    BY DEF KindNames
  <2> QED
    BY ONLY ArgsInv, <1>1, <1>3, <2>1, ConversionTakes
<1>5. Head(ap) \in Seq(STRING)
  BY <1>4 DEF OfKind
<1>6. PICK w, c, r, a : /\ w = flags.width /\ c = flags.padc /\ r = flags.precision /\ a = flags.altflag
                        /\ w \in Int /\ r \in Int
  BY DEF FlagsInv
<1>7. PICK p : p = IF Head(ap) = NullStr THEN NullText ELSE Head(ap)
  OBVIOUS
<1>8. Len(p) \in Nat
  <2>1. Len(NullText) = 6
    BY DEF NullText
  <2> QED
    BY <1>5, <1>7, <2>1
<1>9. PICK len \in Nat : len = strnlen(p, r)
  BY <1>6, <1>8 DEF strnlen
<1>10. PICK shown : shown = [k \in 1..len |-> IF a /\ p[k] = "TAB" THEN "?" ELSE p[k]]
  OBVIOUS
<1>11. IsSeq(shown)
  <2>1. shown \in Seq({shown[k] : k \in 1..len})
    BY <1>10
  <2> QED
    BY <2>1 DEF IsSeq
<1>12. PICK left \in Int : left = IF c # "-" THEN w - len ELSE 0
  BY <1>6, <1>9
<1>13. PICK right \in Int : right = IF c # "-" THEN 0 ELSE w - len
  BY <1>6, <1>9
<1>14. Put(Pad(left, c) \o shown \o Pad(right, " "))
  BY <1>6, <1>7, <1>9, <1>10, <1>12, <1>13 DEF StringArg, Prints
<1>15. IsSeq(Pad(left, c)) /\ IsSeq(Pad(right, " "))
  BY PadIs
<1>16. IsSeq(Pad(left, c) \o shown \o Pad(right, " "))
  BY <1>11, <1>15, IsSeqJoin
<1> QED
  BY <1>14, <1>16

Terminated == fmt_at = "returned" /\ rc # -3 => b.mem[b.buf] = "NUL"

FmtInv == Sizes /\ BufInv /\ ArgsInv /\ FlagsInv /\ Terminated

LEMMA PrintsSomething ==
  ASSUME ArgsInv, FlagsInv, Text \/ Numbering \/ Char \/ Percent \/ StringArg \/ Default
  PROVE  /\ \E chars : IsSeq(chars) /\ Put(chars)
         /\ fmt_at \in {"text", "flags"} /\ fmt_at' = "text" /\ call' = call
<1>1. CASE Numbering
  BY <1>1, NumberingIs, NumberingPrints
<1>2. CASE StringArg
  <2>1. fmt_at = "flags" /\ fmt_at' = "text" /\ call' = call
    BY <1>2 DEF StringArg, At, Prints, FmtStep
  <2> QED
    BY <1>2, <2>1, StringPrints
<1>3. CASE Text \/ Char \/ Percent \/ Default
  <2>1. fmt_at \in {"text", "flags"} /\ fmt_at' = "text" /\ call' = call
    BY <1>3 DEF Text, Char, Percent, Default, At, Prints, FmtStep
  <2>2. Put(<<Head(fmt)>>) \/ Put(<<Head(ap)>>) \/ Put(<<"%">>)
    BY <1>3 DEF Text, Char, Percent, Default, Prints
  <2>3. IsSeq(<<Head(fmt)>>) /\ IsSeq(<<Head(ap)>>) /\ IsSeq(<<"%">>)
    BY IsSeqOne
  <2> QED
    BY <2>1, <2>2, <2>3
<1> QED
  BY <1>1, <1>2, <1>3

LEMMA BufKept ==
  ASSUME Sizes, BufInv, ArgsInv, FlagsInv, Terminated, FmtNext
  PROVE  Sizes' /\ BufInv' /\ Terminated'
<1>1. CASE Text \/ Numbering \/ Char \/ Percent \/ StringArg \/ Default
  <2>1. /\ \E chars : IsSeq(chars) /\ Put(chars)
        /\ fmt_at \in {"text", "flags"} /\ fmt_at' = "text" /\ call' = call
    BY <1>1, PrintsSomething
  <2>2. (\E m, k : BufIs(m, k))' /\ b'.buf <= call.n - 1
    BY <2>1, PutKeeps
  <2>3. BufInv'
    BY <2>1, <2>2 DEF BufInv
  <2>4. Sizes' /\ Terminated'
    BY <2>1 DEF Sizes, Terminated
  <2> QED
    BY <2>3, <2>4
<1>2. CASE Einval \/ Start \/ Directive \/ PadFlag \/ Alternate \/ Long \/ Point \/ Number \/ Star
  <2>1. call' = call /\ b' = b
    BY <1>2 DEF Einval, Start, Directive, PadFlag, Alternate, Long, Point, Number, Star,
       Reswitch, FmtStep
  <2>2. \/ fmt_at' = "returned" /\ rc' = -3
        \/ fmt_at' = "text" /\ fmt_at = "call" /\ call.n >= 1
        \/ fmt_at' = "flags" /\ fmt_at \in {"text", "flags"}
    <3>1. CASE Einval
      BY <3>1 DEF Einval
    <3>2. CASE Start
      BY <3>2 DEF Start, FmtStep
    <3>3. CASE Directive
      BY <3>3 DEF Directive, FmtStep
    <3>4. CASE PadFlag \/ Alternate \/ Long \/ Point \/ Number \/ Star
      BY <3>4 DEF PadFlag, Alternate, Long, Point, Number, Star, At, Reswitch, FmtStep
    <3> QED
      BY <1>2, <3>1, <3>2, <3>3, <3>4
  <2>3. Sizes' /\ Terminated'
    BY <2>1, <2>2 DEF Sizes, Terminated
  <2>4. PICK m, k : BufIs(m, k)
    BY DEF BufInv
  <2>5. BufIs(m, k)'
    BY <2>1, <2>4 DEF BufIs
  <2>6. fmt_at' # "call"
    BY <2>2
  <2>7. fmt_at' \in {"text", "flags"} => b'.buf <= call'.n - 1
    BY <2>1, <2>2 DEF BufInv, Sizes
  <2> QED
    BY <2>3, <2>5, <2>6, <2>7 DEF BufInv
<1>3. CASE End
  <2>1. /\ fmt_at = "text" /\ b' = [b EXCEPT !.mem[b.buf] = "NUL"]
        /\ fmt_at' = "returned" /\ call' = call
    BY <1>3 DEF End
  <2>2. PICK m, k : BufIs(m, k)
    BY DEF BufInv
  <2>3. PICK c : b = [mem |-> m, buf |-> k, cnt |-> c]
    BY <2>2 DEF BufIs
  <2>4. PICK h : h = [m EXCEPT ![k] = "NUL"]
    OBVIOUS
  <2>5. b' = [mem |-> h, buf |-> k, cnt |-> c]
    BY ONLY <2>1, <2>3, <2>4
  <2>6. PICK n \in Int : n = call.n
    BY DEF Sizes
  <2>7. k \in Nat /\ k <= n - 1 /\ n <= BufSize
    BY <2>1, <2>2, <2>3, <2>6 DEF BufIs, BufInv, Sizes
  <2>8. k \in 0..BufSize /\ DOMAIN m = 0..BufSize
    BY <2>2, <2>7, FmtWidthAssumption DEF FmtWidthAssumption, BufIs
  <2>9. DOMAIN h = 0..BufSize /\ h[k] = "NUL" /\ \A i \in 0..BufSize : i # k => h[i] = m[i]
    BY ONLY <2>4, <2>8
  <2>10. \A i \in 0..BufSize : i >= n => h[i] = "old"
    <3>1. \A i \in 0..BufSize : i >= n => m[i] = "old" /\ i # k
      BY <2>2, <2>6, <2>7 DEF BufIs
    <3> QED
      BY ONLY <2>9, <3>1
  <2>11. BufIs(h, k)'
    BY <2>1, <2>5, <2>6, <2>7, <2>9, <2>10 DEF BufIs
  <2>12. BufInv'
    BY <2>1, <2>11 DEF BufInv
  <2>13. b'.mem[b'.buf] = "NUL"
    BY ONLY <2>5, <2>9
  <2>14. Sizes' /\ Terminated'
    BY <2>1, <2>13 DEF Sizes, Terminated
  <2> QED
    BY <2>12, <2>14
<1> QED
  BY ONLY FmtNext, <1>1, <1>2, <1>3 DEF FmtNext, Numbering

LEMMA FmtInvStep == ASSUME FmtInv, [LibNext]_libVars PROVE FmtInv'
<1>1. CASE FmtNext
  BY <1>1, BufKept, ArgsKept, FlagsKept DEF FmtInv
<1>2. CASE UNCHANGED fmtVars
  <2>1. /\ call' = call /\ fmt' = fmt /\ ap' = ap /\ since' = since
        /\ flags' = flags /\ fmt_at' = fmt_at /\ b' = b /\ rc' = rc
    BY <1>2 DEF fmtVars
  <2>2. Sizes' /\ BufInv'
    BY <2>1 DEF FmtInv, Sizes, BufInv, BufIs
  <2>3. ArgsInv' /\ FlagsInv' /\ Terminated'
    BY <2>1 DEF FmtInv, ArgsInv, FlagsInv, Terminated
  <2> QED
    BY <2>2, <2>3 DEF FmtInv
<1> QED
  BY <1>1, <1>2 DEF LibNext, libVars

LEMMA FmtInvInit == ASSUME NEW c, FmtLegal(c), FmtInit(c) PROVE FmtInv
<1>1. /\ call = c /\ fmt = FormatOf(c) /\ ap = SlotsOf(c) /\ flags = NoFlags /\ fmt_at = "call"
      /\ b = [mem |-> [i \in 0..BufSize |-> "old"], buf |-> 0, cnt |-> 0]
  BY DEF FmtInit
<1>2. Sizes /\ Terminated
  BY <1>1 DEF FmtLegal, Sizes, Terminated
<1>3. BufInv
  <2>1. PICK m : m = [i \in 0..BufSize |-> "old"]
    OBVIOUS
  <2>2. b = [mem |-> m, buf |-> 0, cnt |-> 0] /\ DOMAIN m = 0..BufSize
        /\ \A i \in 0..BufSize : m[i] = "old"
    BY <1>1, <2>1
  <2>3. BufIs(m, 0) /\ b.buf = 0
    BY ONLY <2>2 DEF BufIs
  <2> QED
    BY <1>1, <2>3 DEF BufInv
<1>4. FlagsInv
  <2>1. PICK m \in Int : m = -1
    OBVIOUS
  <2>2. flags = [padc |-> " ", width |-> m, precision |-> m, altflag |-> FALSE]
    BY <1>1, <2>1 DEF NoFlags
  <2> QED
    BY ONLY <2>2, m \in Int DEF FlagsInv
<1>5. PICK N \in Nat : N = Len(c.items)
  BY DEF FmtLegal
<1>6. IsText(fmt)
  <2>1. PICK S : S = STRING
    OBVIOUS
  <2>2. PICK t : t = [k \in 1..Len(c.items) |-> c.items[k].text]
    OBVIOUS
  <2>3. t = [k \in 1..N |-> t[k]]
    BY <1>5, <2>2
  <2>4. \A k \in 1..N : t[k] \in Seq(S)
    BY <1>5, <2>1, <2>2 DEF FmtLegal
  <2>5. PICK j : j = FlattenSeq(t)
    OBVIOUS
  <2>6. j \in Seq(S)
    BY ONLY <2>3, <2>4, <2>5, N \in Nat, FlatIs
  <2>7. fmt = j \o <<"NUL">>
    BY <1>1, <2>2, <2>5 DEF FormatOf
  <2>8. fmt \in Seq(S \cup {"NUL"}) /\ Len(fmt) = Len(j) + 1 /\ fmt[Len(j) + 1] = "NUL"
    BY ONLY <2>6, <2>7
  <2>9. fmt # << >>
    <3>1. Len(fmt) > 0
      BY ONLY <2>6, <2>8
    <3> QED
      BY ONLY <3>1
  <2> QED
    BY ONLY <2>8, <2>9 DEF IsText, IsSeq
<1>7. IsSeq(ap)
  <2>1. PICK t : t = [k \in 1..Len(c.items) |-> ArgsOf(c.items[k])]
    OBVIOUS
  <2>2. t = [k \in 1..N |-> t[k]] /\ \A k \in 1..N : t[k] = ArgsOf(c.items[k])
    BY <1>5, <2>1
  <2> DEFINE Slots(i) == {i.width % 2^IntWidth, i.prec % 2^IntWidth, SlotOf(i)}
             S == UNION {Slots(c.items[k]) : k \in 1..N}
  <2>3. ASSUME NEW i PROVE ArgsOf(i) \in Seq(Slots(i))
    <3>1. PICK x, y, z : x = i.width % 2^IntWidth /\ y = i.prec % 2^IntWidth /\ z = SlotOf(i)
      OBVIOUS
    <3>2. << >> \in Seq({x, y, z}) /\ <<x>> \in Seq({x, y, z}) /\ <<y>> \in Seq({x, y, z})
          /\ <<z>> \in Seq({x, y, z})
      OBVIOUS
    <3>3. PICK p, q, r : /\ ArgsOf(i) = p \o q \o r
                         /\ p \in Seq({x, y, z}) /\ q \in Seq({x, y, z}) /\ r \in Seq({x, y, z})
      BY <3>1, <3>2 DEF ArgsOf
    <3>4. p \o q \o r \in Seq({x, y, z})
      BY ONLY <3>3
    <3> QED
      BY ONLY <3>1, <3>3, <3>4
  <2>4. \A k \in 1..N : t[k] \in Seq(S)
    <3>1. ASSUME NEW k \in 1..N PROVE t[k] \in Seq(S)
      <4>1. t[k] \in Seq(Slots(c.items[k]))
        BY <2>2, <2>3
      <4>2. PICK W, T, x : W = Slots(c.items[k]) /\ T = S /\ x = t[k]
        OBVIOUS
      <4>3. W \subseteq T
        BY <4>2
      <4>4. x \in Seq(W)
        BY <4>1, <4>2
      <4>5. x \in Seq(T)
        BY ONLY <4>3, <4>4
      <4> QED
        BY <4>2, <4>5
    <3> QED
      BY <3>1
  <2> HIDE DEF S
  <2>5. FlattenSeq(t) \in Seq(S)
    BY ONLY <2>2, <2>4, N \in Nat, FlatIs
  <2>6. ap = FlattenSeq(t)
    BY <1>1, <2>1 DEF SlotsOf
  <2> QED
    BY <2>5, <2>6 DEF IsSeq
<1>8. Fits(ap, Takes(fmt).text)
  BY <1>1 DEF FmtLegal
<1>9. ArgsInv
  BY <1>1, <1>6, <1>7, <1>8 DEF ArgsInv
<1> QED
  BY <1>2, <1>3, <1>4, <1>9 DEF FmtInv

\* For every buffer, and every format with the arguments it takes, however wide,
\* nested or wrong its directives: sprintputch and vsnprintf (lib/printfmt.c)
\* store nothing at or beyond the n-th place, and end what they stored.
THEOREM SnprintfBoundedCorrect == LibSpec => []SnprintfBounded
<1>1. LibInit => FmtInv
  BY FmtInvInit, CallsAssumption, PlainAssumption DEF LibInit
<1>2. FmtInv => SnprintfBounded
  <2> SUFFICES ASSUME FmtInv PROVE SnprintfBounded
    OBVIOUS
  <2>1. PICK m, k : BufIs(m, k)
    BY DEF FmtInv, BufInv
  <2>2. b.mem = m /\ \A i \in 0..BufSize : i >= call.n => m[i] = "old"
    BY <2>1 DEF BufIs
  <2> QED
    BY <2>2 DEF FmtInv, Terminated, SnprintfBounded
<1> QED
  BY <1>1, <1>2, FmtInvStep, PTL DEF LibSpec
-----------------------------------------------------------------------------
(* The readers of a section: what a field's bytes are, and what is read of them. *)

Bytes == SUBSET (0..GROUP)

\* The bytes of a field.
LEMMA EncodeIs ==
  ASSUME NEW f, Encodable(f)
  PROVE  /\ Encode(f) \in Seq(Bytes)
         /\ f.kind \in {"sleb", "uleb"} =>
              /\ Len(Encode(f)) = f.n
              /\ \A i \in 1..f.n : Encode(f)[i] = {j \in 0..GROUP-1 : Bit(f.int, GROUP * (i - 1) + j)}
                                                   \cup (IF i < f.n THEN {GROUP} ELSE {})
         /\ f.kind \in {"lsb", "msb"} =>
              /\ Len(Encode(f)) = f.n
              /\ \A i \in 1..f.n : Encode(f)[i] = ByteOf(f.word, IF f.kind = "lsb" THEN i - 1 ELSE f.n - i)
         /\ f.kind = "string" => Encode(f) = Append(f.bytes, {})
         /\ f.kind = "block" => Encode(f) = f.bytes
<1>1. GROUP \in Nat \ {0} /\ ByteBits = GROUP + 1
  BY WidthAssumption DEF WidthAssumption, ByteBits
<1>2. f.kind \in {"sleb", "uleb", "lsb", "msb", "string", "block"}
  BY DEF Encodable
<1>3. CASE f.kind \in {"sleb", "uleb"}
  <2>1. PICK n \in Nat : n = f.n
    BY <1>3 DEF Encodable
  <2>2. PICK v : v = f.int
    OBVIOUS
  <2>3. PICK e : e = [i \in 1..n |-> {j \in 0..GROUP-1 : Bit(v, GROUP * (i - 1) + j)}
                                      \cup (IF i < n THEN {GROUP} ELSE {})]
    OBVIOUS
  <2>4. Encode(f) = Groups(v, n)
    BY ONLY <1>3, <2>1, <2>2 DEF Encode
  <2>5. Encode(f) = e
    BY ONLY <2>3, <2>4 DEF Groups
  <2>6. \A i \in 1..n : e[i] = {j \in 0..GROUP-1 : Bit(v, GROUP * (i - 1) + j)}
                                \cup (IF i < n THEN {GROUP} ELSE {})
    BY ONLY <2>3
  <2>7. \A i \in 1..n : e[i] \in Bytes
    <3>1. \A X \in SUBSET (0..GROUP-1) : X \in Bytes /\ X \cup {GROUP} \in Bytes
      BY <1>1 DEF Bytes
    <3>2. ASSUME NEW i \in 1..n PROVE e[i] \in Bytes
      <4>1. PICK X : X = {j \in 0..GROUP-1 : Bit(v, GROUP * (i - 1) + j)}
        OBVIOUS
      <4>2. X \in SUBSET (0..GROUP-1)
        BY ONLY <4>1
      <4>3. e[i] = X \/ e[i] = X \cup {GROUP}
        BY ONLY <2>6, <4>1, i \in 1..n
      <4> QED
        BY ONLY <3>1, <4>2, <4>3
    <3> QED
      BY <3>2
  <2>8. e \in Seq(Bytes) /\ Len(e) = n
    <3>1. DOMAIN e = 1..n /\ e = [i \in 1..n |-> e[i]]
      BY ONLY <2>3
    <3> QED
      BY ONLY <2>7, <3>1, n \in Nat
  <2> QED
    BY ONLY <1>3, <2>1, <2>2, <2>5, <2>6, <2>8
<1>4. CASE f.kind \in {"lsb", "msb"}
  <2>1. PICK n \in Nat : n = f.n
    BY <1>4 DEF Encodable
  <2>2. PICK w : w = f.word
    OBVIOUS
  <2>3. PICK e : e = [i \in 1..n |-> ByteOf(w, IF f.kind = "lsb" THEN i - 1 ELSE n - i)]
    OBVIOUS
  <2>4. Encode(f) = e
    <3>1. CASE f.kind = "lsb"
      BY ONLY <2>1, <2>2, <2>3, <3>1 DEF Encode
    <3>2. CASE f.kind = "msb"
      BY ONLY <2>1, <2>2, <2>3, <3>2 DEF Encode
    <3> QED
      BY <1>4, <3>1, <3>2
  <2>5. \A i : ByteOf(w, i) \in Bytes
    BY <1>1 DEF ByteOf, Bytes
  <2>6. e \in Seq(Bytes) /\ Len(e) = n
    <3>1. DOMAIN e = 1..n /\ e = [i \in 1..n |-> e[i]] /\ \A i \in 1..n : e[i] \in Bytes
      BY ONLY <2>3, <2>5
    <3> QED
      BY ONLY <3>1, n \in Nat
  <2>7. \A i \in 1..n : e[i] = ByteOf(w, IF f.kind = "lsb" THEN i - 1 ELSE n - i)
    BY ONLY <2>3
  <2> QED
    BY ONLY <1>4, <2>1, <2>2, <2>4, <2>6, <2>7
<1>5. CASE f.kind \in {"string", "block"}
  <2>1. f.bytes \in Seq(Bytes)
    <3>1. 0..ByteBits-1 = 0..GROUP
      BY <1>1
    <3> QED
      BY <1>5, <3>1 DEF Encodable, Bytes
  <2>2. (f.kind = "string" => Encode(f) = Append(f.bytes, {})) /\ (f.kind = "block" => Encode(f) = f.bytes)
    BY <1>5 DEF Encode
  <2>3. {} \in Bytes
    BY DEF Bytes
  <2>4. Append(f.bytes, {}) \in Seq(Bytes)
    BY ONLY <2>1, <2>3
  <2> QED
    BY ONLY <1>5, <2>1, <2>2, <2>4
<1> QED
  BY ONLY <1>2, <1>3, <1>4, <1>5

\* Where field k + 1 is in a section.
LEMMA SectionIs ==
  ASSUME NEW fs, StreamLegal(fs)
  PROVE  /\ EncodeAll(fs, 0) = << >>
         /\ \A k \in 0..Len(fs) : EncodeAll(fs, k) \in Seq(Bytes)
         /\ \A k \in 0..Len(fs)-1 :
              /\ Len(EncodeAll(fs, k + 1)) = Len(EncodeAll(fs, k)) + Len(Encode(fs[k + 1]))
              /\ Len(EncodeAll(fs, k + 1)) <= Len(EncodeAll(fs, Len(fs)))
              /\ \A i \in 1..Len(Encode(fs[k + 1])) :
                   EncodeAll(fs, Len(fs))[Len(EncodeAll(fs, k)) + i] = Encode(fs[k + 1])[i]
<1>1. PICK N \in Nat : N = Len(fs)
  BY DEF StreamLegal
<1>2. PICK p : p = [k \in 1..N |-> Encode(fs[k])]
  OBVIOUS
<1>3. \A k \in 1..N : p[k] = Encode(fs[k]) /\ p[k] \in Seq(Bytes)
  BY <1>1, <1>2, EncodeIs DEF StreamLegal
<1>4. PICK g \in [0..N -> Seq(Bytes)] :
        /\ g[0] = << >> /\ \A k \in 1..N : g[k] = g[k - 1] \o p[k]
        /\ \A k \in 0..N : FlattenSeq([j \in 1..k |-> p[j]]) = g[k]
  <2>1. Flattens(Bytes, N, p)
    BY ONLY <1>3, N \in Nat, FlattenIs
  <2> QED
    BY ONLY <2>1 DEF Flattens
<1>5. \A k \in 0..N : EncodeAll(fs, k) = g[k]
  <2>1. ASSUME NEW k \in 0..N PROVE EncodeAll(fs, k) = g[k]
    <3>1. [j \in 1..k |-> Encode(fs[j])] = [j \in 1..k |-> p[j]]
      BY <1>3
    <3> QED
      BY <1>4, <3>1 DEF EncodeAll
  <2> QED
    BY <2>1
<1>6. ASSUME NEW k \in 0..N-1
      PROVE  /\ g[k] \in Seq(Bytes) /\ g[k + 1] \in Seq(Bytes) /\ p[k + 1] \in Seq(Bytes)
             /\ g[k + 1] = g[k] \o p[k + 1]
  <2>1. k \in 0..N /\ k + 1 \in 0..N /\ k + 1 \in 1..N /\ (k + 1) - 1 = k
    OBVIOUS
  <2> QED
    BY ONLY <1>3, <1>4, <2>1, g \in [0..N -> Seq(Bytes)]
\* What is there stays, whatever follows.
<1> DEFINE Starts(k, m) == Len(g[k]) <= Len(g[m]) /\ \A i \in 1..Len(g[k]) : g[m][i] = g[k][i]
<1>7. ASSUME NEW k \in 0..N PROVE Starts(k, N)
  <2> DEFINE D == {d \in Nat : k + d <= N => Starts(k, k + d)}
  <2>1. 0 \in D
    <3>1. k + 0 = k /\ g[k] \in Seq(Bytes)
      OBVIOUS
    <3> QED
      BY <3>1
  <2>2. ASSUME NEW d \in D PROVE d + 1 \in D
    <3> SUFFICES ASSUME k + (d + 1) <= N PROVE Starts(k, k + (d + 1))
      OBVIOUS
    <3>1. PICK m \in Nat : m = k + d
      OBVIOUS
    <3>2. m \in 0..N-1 /\ k + (d + 1) = m + 1 /\ Starts(k, m)
      BY <3>1
    <3>3. PICK x, y, z : x = g[k] /\ y = g[m] /\ z = p[m + 1]
      OBVIOUS
    <3>4. y \in Seq(Bytes) /\ z \in Seq(Bytes) /\ g[m + 1] = y \o z /\ x \in Seq(Bytes)
      BY ONLY <1>6, <3>2, <3>3, k \in 0..N, g \in [0..N -> Seq(Bytes)]
    <3>5. Len(x) <= Len(y) /\ \A i \in 1..Len(x) : y[i] = x[i]
      BY <3>2, <3>3
    <3>6. Len(x) <= Len(y \o z) /\ \A i \in 1..Len(x) : (y \o z)[i] = x[i]
      BY ONLY <3>4, <3>5
    <3> QED
      BY ONLY <3>2, <3>3, <3>4, <3>6
  <2>3. D \in SUBSET Nat
    OBVIOUS
  <2> HIDE DEF D
  <2>4. N - k \in D
    <3>1. D = Nat
      BY ONLY <2>1, <2>2, <2>3, AllNat
    <3>2. N - k \in Nat
      OBVIOUS
    <3> QED
      BY ONLY <3>1, <3>2
  <2>5. k + (N - k) = N
    OBVIOUS
  <2>6. Starts(k, k + (N - k))
    BY <2>4 DEF D
  <2> QED
    BY <2>5, <2>6
<1>8. ASSUME NEW k \in 0..N-1
      PROVE  /\ Len(g[k + 1]) = Len(g[k]) + Len(p[k + 1]) /\ Len(g[k + 1]) <= Len(g[N])
             /\ \A i \in 1..Len(p[k + 1]) : g[N][Len(g[k]) + i] = p[k + 1][i]
  <2>1. PICK x, y, z, u : x = g[k] /\ y = g[k + 1] /\ z = p[k + 1] /\ u = g[N]
    OBVIOUS
  <2>2. x \in Seq(Bytes) /\ y \in Seq(Bytes) /\ z \in Seq(Bytes) /\ y = x \o z
    BY ONLY <1>6, <2>1, k \in 0..N-1
  <2>3. Len(y) <= Len(u) /\ \A i \in 1..Len(y) : u[i] = y[i]
    <3>1. Starts(k + 1, N)
      <4>1. k + 1 \in 0..N
        OBVIOUS
      <4> QED
        BY <1>7, <4>1
    <3> QED
      BY <2>1, <3>1
  <2>4. Len(y) = Len(x) + Len(z) /\ \A i \in 1..Len(z) : Len(x) + i \in 1..Len(y) /\ y[Len(x) + i] = z[i]
    BY ONLY <2>2
  <2>5. \A i \in 1..Len(z) : u[Len(x) + i] = z[i]
    BY ONLY <2>3, <2>4
  <2> QED
    BY ONLY <2>1, <2>3, <2>4, <2>5
<1>9. \A k \in 0..N-1 : k \in 0..N /\ k + 1 \in 0..N /\ k + 1 \in 1..N
  OBVIOUS
<1>10. 0 \in 0..N /\ N \in 0..N
  OBVIOUS
<1> HIDE DEF Starts
<1>11. ASSUME NEW k \in 0..N-1
       PROVE  /\ Len(EncodeAll(fs, k + 1)) = Len(EncodeAll(fs, k)) + Len(Encode(fs[k + 1]))
              /\ Len(EncodeAll(fs, k + 1)) <= Len(EncodeAll(fs, N))
              /\ \A i \in 1..Len(Encode(fs[k + 1])) :
                   EncodeAll(fs, N)[Len(EncodeAll(fs, k)) + i] = Encode(fs[k + 1])[i]
  <2>1. EncodeAll(fs, k + 1) = g[k + 1] /\ EncodeAll(fs, k) = g[k] /\ EncodeAll(fs, N) = g[N]
        /\ Encode(fs[k + 1]) = p[k + 1]
    BY ONLY <1>3, <1>5, <1>9, <1>10, k \in 0..N-1
  <2> QED
    BY ONLY <1>8, <2>1, k \in 0..N-1
<1>12. EncodeAll(fs, 0) = << >> /\ \A k \in 0..N : EncodeAll(fs, k) \in Seq(Bytes)
  BY ONLY <1>4, <1>5, <1>10, g \in [0..N -> Seq(Bytes)]
<1> QED
  BY ONLY <1>1, <1>11, <1>12

\* The bit of an int that its sign is.
LEMMA SignBit ==
  ASSUME NEW v \in Int, v \in -(2^(INT-1))..2^(INT-1)-1
  PROVE  Bit(v, INT - 1) <=> v < 0
<1>1. INT \in Nat \ {0}
  BY WidthAssumption DEF WidthAssumption
<1>2. PICK P \in Nat \ {0} : P = 2^(INT-1)
  <2>1. INT - 1 \in Nat
    BY <1>1
  <2> QED
    BY <2>1, PowerOfTwo
<1>3. v >= -P /\ v < P
  BY <1>2
<1>4. Bit(v, INT - 1) <=> (v \div P) % 2 = 1
  BY <1>1, <1>2 DEF Bit
<1>5. PICK q \in Int : q = v \div P
  OBVIOUS
<1>6. P * q <= v /\ v < P * (q + 1)
  BY <1>5
<1>7. q = IF v < 0 THEN -1 ELSE 0
  <2>1. q < 1
    <3> SUFFICES ASSUME q >= 1 PROVE FALSE
      OBVIOUS
    <3>1. P * q >= P
      OBVIOUS
    <3> QED
      BY <1>3, <1>6, <3>1
  <2>2. q >= -1
    <3> SUFFICES ASSUME q + 1 <= -1 PROVE FALSE
      OBVIOUS
    <3>1. P * (q + 1) <= -P
      OBVIOUS
    <3> QED
      BY <1>3, <1>6, <3>1
  <2>3. q = -1 => v < 0
    <3>1. q = -1 => P * (q + 1) = 0
      OBVIOUS
    <3> QED
      BY <1>6, <3>1
  <2>4. q = 0 => v >= 0
    <3>1. q = 0 => P * q = 0
      OBVIOUS
    <3> QED
      BY <1>6, <3>1
  <2> QED
    BY <2>1, <2>2, <2>3, <2>4
<1>8. (v \div P) % 2 = 1 <=> v < 0
  <2>1. CASE v < 0
    <3>1. PICK m \in Int : m = -1
      OBVIOUS
    <3>2. m % 2 = 1
      <4>1. \A k \in Int : (2 * k + 1) % 2 = 1
        OBVIOUS
      <4>2. m = 2 * m + 1
        BY <3>1
      <4> QED
        BY ONLY <4>1, <4>2, m \in Int
    <3>3. q = m
      BY ONLY <1>7, <2>1, <3>1
    <3> QED
      BY ONLY <1>5, <2>1, <3>2, <3>3
  <2>2. CASE ~(v < 0)
    <3>1. q = 0
      BY ONLY <1>7, <2>2
    <3>2. 0 % 2 # 1
      OBVIOUS
    <3> QED
      BY ONLY <1>5, <2>2, <3>1, <3>2
  <2> QED
    BY ONLY <2>1, <2>2
<1> QED
  BY <1>4, <1>8

\* The ones among the first s bits of an int, and its sign above them if it is there.
Part(v, s) == {p \in 0..INT-1 : p < s /\ Bit(v, p)}
              \cup (IF v < 0 /\ s >= INT THEN INT..LLONG-1 ELSE {})

\* One more group.
LEMMA PartGrows ==
  ASSUME NEW v \in Int, Bit(v, INT - 1) <=> v < 0, NEW s \in Nat, v < 0 => s < INT
  PROVE  Part(v, s) \cup Shl({j \in 0..GROUP-1 : Bit(v, s + j)}, s) = Part(v, s + GROUP)
<1>1. PICK g : g = {j \in 0..GROUP-1 : Bit(v, s + j)}
  OBVIOUS
<1>2. GROUP \in Nat \ {0} /\ INT \in Nat \ {0} /\ LLONG \in Nat /\ INT < LLONG
  BY WidthAssumption DEF WidthAssumption
<1>3. CASE s < INT
  <2>1. s % INT = s
    BY <1>2, <1>3
  <2>2. PICK w : w = {p \in {j + s : j \in g} : p < INT}
    OBVIOUS
  <2>3. w = {p \in 0..INT-1 : p >= s /\ p < s + GROUP /\ Bit(v, p)}
    <3>1. ASSUME NEW p, p \in w PROVE p \in 0..INT-1 /\ p >= s /\ p < s + GROUP /\ Bit(v, p)
      <4>1. PICK j \in g : p = j + s /\ p < INT
        BY <2>2, <3>1
      <4>2. j \in 0..GROUP-1 /\ Bit(v, s + j)
        BY <1>1
      <4>3. s + j = j + s /\ p \in Int
        BY <4>1, <4>2
      <4> QED
        BY <1>2, <4>1, <4>2, <4>3
    <3>2. ASSUME NEW p \in 0..INT-1, p >= s, p < s + GROUP, Bit(v, p) PROVE p \in w
      <4>1. PICK j \in Int : j = p - s
        BY <1>2
      <4>2. j \in 0..GROUP-1 /\ s + j = p /\ j + s = p
        BY <1>2, <3>2, <4>1
      <4>3. j \in g
        BY <1>1, <3>2, <4>2
      <4> QED
        BY <1>2, <2>2, <4>2, <4>3
    <3> QED
      BY <3>1, <3>2
  <2>4. Shl(g, s) = IF INT - 1 \in w THEN w \cup INT..LLONG-1 ELSE w
    BY <2>1, <2>2 DEF Shl, Widen
  <2>5. INT - 1 \in w <=> v < 0 /\ s + GROUP >= INT
    BY <1>2, <1>3, <2>3
  <2>6. {p \in 0..INT-1 : p < s /\ Bit(v, p)} \cup w = {p \in 0..INT-1 : p < s + GROUP /\ Bit(v, p)}
    BY <1>2, <2>3
  <2>7. Part(v, s) = {p \in 0..INT-1 : p < s /\ Bit(v, p)}
    BY <1>2, <1>3 DEF Part
  <2>8. Part(v, s + GROUP) = {p \in 0..INT-1 : p < s + GROUP /\ Bit(v, p)}
                              \cup (IF v < 0 /\ s + GROUP >= INT THEN INT..LLONG-1 ELSE {})
    BY DEF Part
  <2>9. PICK a, c, d : a = Part(v, s) /\ c = {p \in 0..INT-1 : p < s + GROUP /\ Bit(v, p)} /\ d = INT..LLONG-1
    OBVIOUS
  <2>10. a \cup w = c
    BY ONLY <2>6, <2>7, <2>9
  <2>11. Shl(g, s) = IF v < 0 /\ s + GROUP >= INT THEN w \cup d ELSE w
    BY ONLY <2>4, <2>5, <2>9
  <2>12. Part(v, s + GROUP) = c \cup (IF v < 0 /\ s + GROUP >= INT THEN d ELSE {})
    BY ONLY <2>8, <2>9
  <2>13. a \cup Shl(g, s) = Part(v, s + GROUP)
    <3>1. CASE v < 0 /\ s + GROUP >= INT
      BY ONLY <2>10, <2>11, <2>12, <3>1
    <3>2. CASE ~(v < 0 /\ s + GROUP >= INT)
      BY ONLY <2>10, <2>11, <2>12, <3>2
    <3> QED
      BY ONLY <3>1, <3>2
  <2> QED
    BY ONLY <1>1, <2>9, <2>13
<1>4. CASE s >= INT
  <2>1. ~(v < 0)
    BY <1>2, <1>4
  <2>2. g = {}
    <3>1. \A j \in 0..GROUP-1 : ~(s + j < INT)
      BY <1>2, <1>4
    <3> QED
      BY <1>1, <2>1, <3>1 DEF Bit
  <2>3. Shl({}, s) = {}
    BY DEF Shl, Widen
  <2>4. Part(v, s) = {p \in 0..INT-1 : Bit(v, p)} /\ Part(v, s + GROUP) = {p \in 0..INT-1 : Bit(v, p)}
    BY <1>2, <1>4, <2>1 DEF Part
  <2> QED
    BY <1>1, <2>2, <2>3, <2>4
<1> QED
  BY <1>2, <1>3, <1>4

\* The last group: what is not written of the number is its sign.
LEMMA PartEnds ==
  ASSUME NEW v \in Int, NEW s \in Nat \ {0}, NEW signed \in BOOLEAN,
         ~signed => v >= 0,
         \A p \in (s - (IF signed THEN 1 ELSE 0))..LLONG-1 : Bit(v, p) <=> v < 0
  PROVE  Part(v, s) \cup (IF signed /\ s < INT /\ Bit(v, s - 1) THEN Shl(0..INT-1, s) ELSE {})
           = {p \in 0..LLONG-1 : Bit(v, p)}
<1>1. INT \in Nat \ {0} /\ LLONG \in Nat /\ INT < LLONG
  BY WidthAssumption DEF WidthAssumption
<1>2. \A p \in s..LLONG-1 : Bit(v, p) <=> v < 0
  <2>1. CASE signed
    BY <2>1
  <2>2. CASE ~signed
    BY <2>2
  <2> QED
    BY <2>1, <2>2
<1>3. \A p \in INT..LLONG-1 : Bit(v, p) <=> v < 0
  BY <1>1 DEF Bit
<1>4. PICK val : val = {p \in 0..LLONG-1 : Bit(v, p)}
  OBVIOUS
<1>5. CASE v >= 0
  <2>1. \A p \in 0..LLONG-1 : p >= s \/ p >= INT => ~Bit(v, p)
    BY <1>1, <1>2, <1>3, <1>5
  <2>2. val = {p \in 0..INT-1 : p < s /\ Bit(v, p)}
    <3>1. \A p \in 0..LLONG-1 : Bit(v, p) => p \in 0..INT-1 /\ p < s
      BY <1>1, <2>1
    <3>2. \A p \in 0..INT-1 : p \in 0..LLONG-1
      BY <1>1
    <3> QED
      BY <1>4, <3>1, <3>2
  <2>3. Part(v, s) = val
    BY <1>5, <2>2 DEF Part
  <2>4. signed /\ s < INT => ~Bit(v, s - 1)
    <3> SUFFICES ASSUME signed, s < INT PROVE ~Bit(v, s - 1)
      OBVIOUS
    <3>1. s - 1 \in s-1..LLONG-1
      BY <1>1
    <3> QED
      BY <1>5, <3>1
  <2> QED
    BY <1>4, <2>3, <2>4
<1>6. CASE v < 0
  <2>1. signed
    BY <1>6
  <2>2. \A p \in 0..LLONG-1 : p >= s \/ p >= INT => Bit(v, p)
    BY <1>1, <1>2, <1>3, <1>6
  <2>3. CASE s < INT
    <3>1. Bit(v, s - 1)
      <4>1. s - 1 \in s-1..LLONG-1
        BY <1>1, <2>3
      <4> QED
        BY <1>6, <2>1, <4>1
    <3>2. s % INT = s
      BY <1>1, <2>3
    <3>3. {p \in {j + s : j \in 0..INT-1} : p < INT} = s..INT-1
      <4>1. ASSUME NEW p \in s..INT-1 PROVE p - s \in 0..INT-1 /\ p = (p - s) + s
        BY <1>1
      <4> QED
        BY <1>1, <4>1
    <3>4. Shl(0..INT-1, s) = s..INT-1 \cup INT..LLONG-1
      <4>1. INT - 1 \in s..INT-1
        BY <1>1, <2>3
      <4> QED
        BY <3>2, <3>3, <4>1 DEF Shl, Widen
    <3>5. Part(v, s) = {p \in 0..INT-1 : p < s /\ Bit(v, p)}
      BY <1>1, <2>3 DEF Part
    <3>6. val = {p \in 0..INT-1 : p < s /\ Bit(v, p)} \cup (s..INT-1 \cup INT..LLONG-1)
      BY <1>1, <1>4, <2>2, <2>3
    <3> QED
      BY ONLY <1>4, <2>1, <2>3, <3>1, <3>4, <3>5, <3>6
  <2>4. CASE s >= INT
    <3>1. Part(v, s) = {p \in 0..INT-1 : Bit(v, p)} \cup INT..LLONG-1
      BY <1>1, <1>6, <2>4 DEF Part
    <3>2. val = {p \in 0..INT-1 : Bit(v, p)} \cup INT..LLONG-1
      BY <1>1, <1>4, <2>2
    <3>3. ~(s < INT)
      BY <1>1, <2>4
    <3> QED
      BY ONLY <1>4, <3>1, <3>2, <3>3
  <2> QED
    BY <1>1, <2>3, <2>4
<1> QED
  BY <1>5, <1>6

\* The bytes of a word, put together.
LEMMA PlacesJoin ==
  ASSUME NEW n \in {1, 2, 4, 8}, NEW w, w \subseteq 0..ByteBits*n-1
  PROVE  UNION {{ByteBits * i + j : j \in ByteOf(w, i)} : i \in 0..n-1} = w
<1>1. PICK B \in Nat \ {0} : B = ByteBits
  BY WidthAssumption DEF WidthAssumption, ByteBits
<1>2. ASSUME NEW p \in w PROVE \E i \in 0..n-1 : B * i <= p /\ p < B * i + B
  <2>1. p \in Nat /\ p < B * n
    BY <1>1
  <2>2. CASE n = 1
    <3>1. 0 \in 0..n-1 /\ B * 0 = 0 /\ B * n = B
      BY <2>2
    <3> QED
      BY <2>1, <3>1
  <2>3. CASE n = 2
    <3>1. p < B \/ (B <= p /\ p < 2 * B)
      BY <2>1, <2>3
    <3> QED
      BY <2>1, <2>3, <3>1
  <2>4. CASE n = 4 \/ n = 8
    <3>1. PICK m \in {4, 8} : m = n
      BY <2>4
    <3> DEFINE D == {k \in Nat : B * k > p}
    <3>2. m \in D
      BY <2>1, <3>1
    <3>3. PICK k \in D : \A j \in D : k <= j
      <4>1. D \in SUBSET Nat
        OBVIOUS
      <4> HIDE DEF D
      <4> QED
        BY <3>2, <4>1, LeastNat
    <3>4. k \in Nat /\ B * k > p /\ k <= m
      BY <3>2, <3>3
    <3>5. k # 0
      <4>1. k = 0 => B * k = 0
        OBVIOUS
      <4> QED
        BY <2>1, <3>4, <4>1
    <3>6. k - 1 \in Nat /\ k - 1 \notin D
      <4>1. k - 1 \in Nat /\ ~(k <= k - 1)
        BY <3>4, <3>5
      <4> QED
        BY <3>3, <4>1
    <3>7. B * (k - 1) <= p
      BY <2>1, <3>6
    <3>8. B * (k - 1) + B = B * k
      BY <3>4
    <3>9. k - 1 \in 0..n-1
      BY <3>1, <3>4, <3>6
    <3> QED
      BY <3>4, <3>7, <3>8, <3>9
  <2> QED
    BY <2>2, <2>3, <2>4
<1>3. ASSUME NEW p \in w PROVE \E i \in 0..n-1 : \E j \in ByteOf(w, i) : p = ByteBits * i + j
  <2>1. PICK i \in 0..n-1 : B * i <= p /\ p < B * i + B
    BY <1>2
  <2>2. PICK c \in Int : c = B * i
    OBVIOUS
  <2>3. p \in Int
    BY <1>1
  <2>4. PICK j \in Int : j = p - c
    BY <2>3
  <2>5. j \in 0..B-1 /\ c + j = p
    BY <2>1, <2>2, <2>3, <2>4
  <2>6. j \in ByteOf(w, i)
    BY <1>1, <2>2, <2>5 DEF ByteOf
  <2> QED
    BY <1>1, <2>2, <2>5, <2>6
<1>4. ASSUME NEW i \in 0..n-1, NEW j \in ByteOf(w, i) PROVE ByteBits * i + j \in w
  BY DEF ByteOf
<1>5. PICK u : u = UNION {{ByteBits * i + j : j \in ByteOf(w, i)} : i \in 0..n-1}
  OBVIOUS
<1>6. ASSUME NEW p \in u PROVE p \in w
  BY <1>4, <1>5
<1>7. ASSUME NEW p \in w PROVE p \in u
  <2>1. PICK i \in 0..n-1 : \E j \in ByteOf(w, i) : p = ByteBits * i + j
    BY <1>3
  <2>2. p \in {ByteBits * i + k : k \in ByteOf(w, i)}
    BY ONLY <2>1
  <2> QED
    BY ONLY <1>5, <2>1, <2>2
<1> QED
  BY ONLY <1>5, <1>6, <1>7

ReadSoFar(n) == \A k \in 1..n : Covered(fields[k])
FieldAt(n) == Len(EncodeAll(fields, n))

\* Where a LEB128 reader is in a number f, which begins at base: i groups are read.
InLeb(f, base, i) ==
  /\ i <= f.n
  /\ offset = base + i
  /\ i >= 1 => byte = Encode(f)[i]
  /\ ret = Part(f.int, shift)

Reading ==
  /\ Len(got) < Len(fields) /\ Field.kind \in {"sleb", "uleb"}
  /\ \E i \in Nat :
       /\ shift = GROUP * i
       /\ ReadSoFar(Len(got) + 1) => InLeb(Field, FieldAt(Len(got)), i)

ReadInv ==
  /\ StreamLegal(fields)
  /\ data = EncodeAll(fields, Len(fields))
  /\ IsSeq(got) /\ Len(got) <= Len(fields)
  /\ ReadSoFar(Len(got)) => /\ \A k \in 1..Len(got) : got[k] = Value(fields[k])
                            /\ shift = -1 => offset = FieldAt(Len(got))
  /\ shift = -1 \/ Reading

LEMMA ReadInvInit == ASSUME NEW fs, StreamLegal(fs), ReadInit(fs) PROVE ReadInv
<1>1. fields = fs /\ data = EncodeAll(fields, Len(fields)) /\ offset = 0 /\ got = << >> /\ shift = -1
  BY DEF ReadInit
<1>2. IsSeq(got) /\ Len(got) = 0
  <2>1. << >> \in Seq({})
    OBVIOUS
  <2> QED
    BY <1>1, <2>1 DEF IsSeq
<1>3. FieldAt(0) = 0
  BY <1>1, SectionIs DEF FieldAt
<1>4. Len(fields) \in Nat
  BY <1>1 DEF StreamLegal
<1> QED
  BY <1>1, <1>2, <1>3, <1>4 DEF ReadInv

\* What an answer adds.
LEMMA Answered ==
  ASSUME NEW s, IsSeq(s), NEW v
  PROVE  /\ IsSeq(Append(s, v)) /\ Len(s) \in Nat /\ Len(Append(s, v)) = Len(s) + 1
         /\ \A k \in 1..Len(s) : Append(s, v)[k] = s[k]
         /\ Append(s, v)[Len(s) + 1] = v
<1>1. PICK S : s \in Seq(S)
  BY DEF IsSeq
<1>2. PICK T : T = S \cup {v}
  OBVIOUS
<1>3. s \in Seq(T) /\ v \in T
  BY ONLY <1>1, <1>2
<1>4. Append(s, v) \in Seq(T)
  BY ONLY <1>3
<1>5. IsSeq(Append(s, v))
  BY ONLY <1>4 DEF IsSeq
<1> QED
  BY ONLY <1>3, <1>5

\* A reader answers: it is enough that it is right about this field.
LEMMA AnswerKeeps ==
  ASSUME ReadInv, NEW v, NEW off, Yields(v, off), UNCHANGED <<fields, data>>, shift' = -1,
         Len(got) < Len(fields),
         ReadSoFar(Len(got) + 1) => v = Value(Field) /\ off = FieldAt(Len(got) + 1)
  PROVE  ReadInv'
<1>1. PICK n \in Nat : n = Len(got)
  BY Answered DEF ReadInv
<1>2. /\ IsSeq(got') /\ Len(got') = n + 1
      /\ \A k \in 1..n : got'[k] = got[k]
      /\ got'[n + 1] = v /\ offset' = off
  <2>1. IsSeq(got) /\ got' = Append(got, v) /\ offset' = off
    BY DEF ReadInv, Yields
  <2> QED
    BY ONLY <1>1, <2>1, Answered
<1>3. Len(fields) \in Nat
  BY DEF ReadInv, StreamLegal
<1>4. ReadSoFar(n + 1) => ReadSoFar(n)
  <2>1. 1..n \subseteq 1..n+1
    OBVIOUS
  <2> QED
    BY <2>1 DEF ReadSoFar
<1>5. ReadSoFar(n + 1) => /\ \A k \in 1..n+1 : got'[k] = Value(fields[k])
                          /\ offset' = FieldAt(n + 1)
  <2> SUFFICES ASSUME ReadSoFar(n + 1)
               PROVE  (\A k \in 1..n+1 : got'[k] = Value(fields[k])) /\ offset' = FieldAt(n + 1)
    OBVIOUS
  <2>1. \A k \in 1..n : got[k] = Value(fields[k])
    BY <1>1, <1>4 DEF ReadInv
  <2>2. v = Value(fields[n + 1]) /\ off = FieldAt(n + 1)
    BY <1>1 DEF Field
  <2>3. \A k \in 1..n+1 : k \in 1..n \/ k = n + 1
    OBVIOUS
  <2> QED
    BY ONLY <1>2, <2>1, <2>2, <2>3
<1>6. (ReadSoFar(n + 1) <=> ReadSoFar(n + 1)') /\ FieldAt(n + 1)' = FieldAt(n + 1)
  BY DEF ReadSoFar, FieldAt
<1>7. Len(got') <= Len(fields') /\ fields' = fields /\ data' = data
  BY <1>1, <1>2, <1>3
<1>8. StreamLegal(fields) /\ data = EncodeAll(fields, Len(fields))
  BY DEF ReadInv
<1>9. (ReadSoFar(Len(got)) => /\ \A k \in 1..Len(got) : got[k] = Value(fields[k])
                              /\ shift = -1 => offset = FieldAt(Len(got)))'
  <2>1. ReadSoFar(Len(got))' <=> ReadSoFar(n + 1)
    BY <1>2, <1>7 DEF ReadSoFar
  <2>2. FieldAt(Len(got))' = FieldAt(n + 1)
    BY <1>2, <1>7 DEF FieldAt
  <2> QED
    BY ONLY <1>2, <1>5, <1>7, <2>1, <2>2
<1> QED
  BY <1>2, <1>7, <1>8, <1>9 DEF ReadInv

\* The part of a section where x is.
LEMMA PartIs ==
  ASSUME NEW S, NEW d \in Seq(S), NEW x \in Seq(S), NEW at \in Nat, at + Len(x) <= Len(d),
         \A i \in 1..Len(x) : d[at + i] = x[i]
  PROVE  SubSeq(d, at + 1, at + Len(x)) = x
<1>1. PICK n \in Nat : n = Len(x)
  OBVIOUS
<1>2. PICK y : y = SubSeq(d, at + 1, at + n)
  OBVIOUS
<1>3. y \in Seq(S) /\ Len(y) = n /\ \A i \in 1..n : y[i] = d[at + i]
  <2>1. (at + n) - (at + 1) + 1 = n /\ \A i \in 1..n : (at + 1) + i - 1 = at + i /\ at + i \in 1..Len(d)
    BY <1>1
  <2> QED
    BY <1>1, <1>2, <2>1
<1>4. \A i \in 1..n : y[i] = x[i]
  BY <1>1, <1>3
<1>5. y = [i \in 1..n |-> y[i]] /\ x = [i \in 1..n |-> x[i]]
  BY <1>1, <1>3
<1>6. y = x
  BY ONLY <1>4, <1>5
<1> QED
  BY <1>1, <1>2, <1>6

\* The field to read, where the readers before it did their work.
HereIs(f, base, e) ==
  /\ f = Field /\ base = FieldAt(Len(got)) /\ e = Encode(f)
  /\ Encodable(f) /\ Covered(f)
  /\ base \in Nat /\ e \in Seq(Bytes) /\ data \in Seq(Bytes)
  /\ base + Len(e) = FieldAt(Len(got) + 1) /\ base + Len(e) <= Len(data)
  /\ \A i \in 1..Len(e) : data[base + i] = e[i]
  /\ shift = -1 => offset = base

LEMMA Here ==
  ASSUME ReadInv, Len(got) < Len(fields), ReadSoFar(Len(got) + 1)
  PROVE  \E f, base, e : HereIs(f, base, e)
<1>1. PICK n \in Nat : n = Len(got)
  BY Answered DEF ReadInv
<1>2. PICK N \in Nat : N = Len(fields)
  BY DEF ReadInv, StreamLegal
<1>3. n \in 0..N-1 /\ n + 1 \in 1..N /\ n \in 0..N /\ N \in 0..N
  BY <1>1, <1>2
<1>4. PICK f, base, e : f = fields[n + 1] /\ base = Len(EncodeAll(fields, n)) /\ e = Encode(f)
  OBVIOUS
<1>5. StreamLegal(fields) /\ data = EncodeAll(fields, N)
  BY <1>2 DEF ReadInv
<1>6. Encodable(f)
  BY ONLY <1>2, <1>3, <1>4, <1>5 DEF StreamLegal
<1>7. Covered(f)
  <2>1. n + 1 \in 1..n+1
    OBVIOUS
  <2> QED
    BY ONLY <1>1, <1>4, <2>1, ReadSoFar(Len(got) + 1) DEF ReadSoFar
<1>8. data \in Seq(Bytes) /\ EncodeAll(fields, n) \in Seq(Bytes)
  BY ONLY <1>2, <1>3, <1>5, SectionIs
<1>9. base \in Nat /\ e \in Seq(Bytes)
  BY ONLY <1>4, <1>6, <1>8, EncodeIs
<1>10. /\ base + Len(e) = Len(EncodeAll(fields, n + 1))
       /\ base + Len(e) <= Len(data)
       /\ \A i \in 1..Len(e) : data[base + i] = e[i]
  <2>1. PICK m \in 0..N-1 : m = n
    BY ONLY <1>3
  <2>2. /\ Len(EncodeAll(fields, m + 1)) = Len(EncodeAll(fields, m)) + Len(Encode(fields[m + 1]))
        /\ Len(EncodeAll(fields, m + 1)) <= Len(EncodeAll(fields, N))
        /\ \A i \in 1..Len(Encode(fields[m + 1])) :
             EncodeAll(fields, N)[Len(EncodeAll(fields, m)) + i] = Encode(fields[m + 1])[i]
    <3>1. StreamLegal(fields)
      BY <1>5
    <3>2. m \in 0..Len(fields)-1
      BY <1>2
    <3> QED
      BY ONLY <1>2, <3>1, <3>2, SectionIs
  <2> QED
    BY ONLY <1>4, <1>5, <2>1, <2>2
<1>11. shift = -1 => offset = base
  <2>1. ReadSoFar(n)
    <3>1. 1..n \subseteq 1..n+1
      OBVIOUS
    <3> QED
      BY <1>1, <3>1 DEF ReadSoFar
  <2> QED
    BY <1>1, <1>4, <2>1 DEF ReadInv, FieldAt
<1>12. f = Field /\ base = FieldAt(Len(got)) /\ FieldAt(Len(got) + 1) = Len(EncodeAll(fields, n + 1))
  <2>1. fields[Len(got) + 1] = fields[n + 1] /\ EncodeAll(fields, Len(got)) = EncodeAll(fields, n)
        /\ EncodeAll(fields, Len(got) + 1) = EncodeAll(fields, n + 1)
    BY ONLY <1>1
  <2>2. PICK x : x = EncodeAll(fields, n + 1)
    OBVIOUS
  <2> QED
    BY ONLY <1>4, <2>1, <2>2 DEF Field, FieldAt
<1>13. HereIs(f, base, e)
  BY ONLY <1>4, <1>6, <1>7, <1>8, <1>9, <1>10, <1>11, <1>12 DEF HereIs
<1> QED
  BY ONLY <1>13

LEMMA ReadBlockKeeps == ASSUME ReadInv, ReadBlock PROVE ReadInv'
<1>1. Len(got) < Len(fields) /\ shift = -1 /\ Field.kind = "block"
  BY DEF ReadBlock, Expects, Field
<1>2. PICK v, off : v = SubSeq(data, offset + 1, offset + Len(Field.bytes)) /\ off = offset + Len(Field.bytes)
  OBVIOUS
<1>3. Yields(v, off) /\ UNCHANGED <<fields, data>> /\ shift' = -1
  BY <1>1, <1>2 DEF ReadBlock
<1>4. ASSUME ReadSoFar(Len(got) + 1) PROVE v = Value(Field) /\ off = FieldAt(Len(got) + 1)
  <2>1. PICK f, base, e : HereIs(f, base, e)
    BY <1>1, <1>4, Here
  <2>2. e = f.bytes /\ f.kind = "block" /\ Field = f /\ offset = base
    BY <1>1, <2>1, EncodeIs DEF HereIs
  <2>3. v = e /\ off = base + Len(e)
    BY <1>2, <2>1, <2>2, PartIs DEF HereIs
  <2>4. Value(f) = f.bytes
    BY ONLY <2>2 DEF Value
  <2> QED
    BY <2>1, <2>2, <2>3, <2>4 DEF HereIs
<1> QED
  BY ONLY ReadInv, <1>1, <1>3, <1>4, AnswerKeeps

LEMMA ReadStringKeeps == ASSUME ReadInv, ReadString PROVE ReadInv'
<1>1. Len(got) < Len(fields) /\ shift = -1 /\ Field.kind = "string"
  BY DEF ReadString, Expects, Field
<1>2. PICK size : size = Len(data)
  OBVIOUS
<1>3. PICK stop : stop = Min({i \in offset..size : i < size => data[i + 1] = {}})
  OBVIOUS
<1>4. PICK v, off : v = SubSeq(data, offset + 1, stop) /\ off = (IF stop < size THEN stop + 1 ELSE stop)
  OBVIOUS
<1>5. Yields(v, off) /\ UNCHANGED <<fields, data>> /\ shift' = -1
  BY <1>1, <1>2, <1>3, <1>4 DEF ReadString
<1>6. ASSUME ReadSoFar(Len(got) + 1) PROVE v = Value(Field) /\ off = FieldAt(Len(got) + 1)
  <2>1. PICK f, base, e : HereIs(f, base, e)
    BY <1>1, <1>6, Here
  <2>2. e = Append(f.bytes, {}) /\ f.kind = "string" /\ Field = f /\ offset = base
    BY <1>1, <2>1, EncodeIs DEF HereIs
  <2>3. PICK s : s = f.bytes
    OBVIOUS
  <2>4. s \in Seq(Bytes) /\ \A k \in 1..Len(s) : s[k] # {}
    <3>1. 0..ByteBits-1 = 0..GROUP
      BY WidthAssumption DEF WidthAssumption, ByteBits
    <3>2. Encodable(f)
      BY <2>1 DEF HereIs
    <3> QED
      BY ONLY <2>2, <2>3, <3>1, <3>2 DEF Encodable, Bytes
  <2>5. PICK n \in Nat : n = Len(s)
    BY <2>4
  <2>6. Len(e) = n + 1 /\ e[n + 1] = {} /\ \A k \in 1..n : e[k] = s[k]
    <3>1. s \in Seq(Bytes) /\ {} \in Bytes
      BY <2>4 DEF Bytes
    <3> QED
      BY ONLY <2>2, <2>3, <2>5, <3>1
  <2>7. base \in Nat /\ data \in Seq(Bytes) /\ size \in Nat /\ base + (n + 1) <= size
        /\ \A i \in 1..n+1 : data[base + i] = e[i]
    BY <1>2, <2>1, <2>6 DEF HereIs
  <2>8. PICK W : W = {i \in base..size : i < size => data[i + 1] = {}}
                 /\ W = {i \in offset..size : i < size => data[i + 1] = {}}
    BY ONLY <2>2
  <2>9. base + n \in W
    <3>1. base + n \in base..size /\ (base + n) + 1 = base + (n + 1) /\ n + 1 \in 1..n+1
      BY <2>7
    <3>2. data[(base + n) + 1] = {}
      BY ONLY <2>6, <2>7, <3>1
    <3> QED
      BY ONLY <2>8, <3>1, <3>2
  <2>10. ASSUME NEW y \in W, y < base + n PROVE FALSE
    <3>1. PICK k \in Int : k = y + 1 - base
      BY <2>7, <2>8
    <3>2. k \in 1..n /\ k \in 1..n+1 /\ base + k = y + 1 /\ y < size
      BY <2>7, <2>8, <2>10, <3>1
    <3>3. data[y + 1] = s[k]
      BY ONLY <2>6, <2>7, <3>2
    <3>4. data[y + 1] = {}
      BY ONLY <2>8, <2>10, <3>2
    <3> QED
      BY ONLY <2>4, <2>5, <3>2, <3>3, <3>4
  <2>11. stop = base + n
    <3>0. \A y \in W : y \in base..size
      BY ONLY <2>8
    <3>1. W \in SUBSET Nat /\ \A y \in W : base + n <= y
      <4>1. W \in SUBSET Nat
        BY ONLY <2>7, <3>0
      <4>2. \A y \in W : ~(y < base + n)
        BY ONLY <2>10
      <4> QED
        BY ONLY <2>7, <4>1, <4>2, n \in Nat
    <3>2. PICK m : m = base + n
      OBVIOUS
    <3>3. m \in W /\ \A y \in W : m <= y
      BY ONLY <2>9, <3>1, <3>2
    <3>4. Min(W) = m
      BY ONLY <3>1, <3>3, MinIs
    <3> QED
      BY ONLY <1>3, <2>8, <3>2, <3>4
  <2>12. v = s
    <3>1. base + Len(s) <= Len(data) /\ \A i \in 1..Len(s) : data[base + i] = s[i]
      BY <1>2, <2>5, <2>6, <2>7
    <3> QED
      BY ONLY <1>4, <2>2, <2>4, <2>5, <2>7, <2>11, <3>1, PartIs
  <2>13. off = base + Len(e)
    BY <1>4, <2>6, <2>7, <2>11
  <2>14. Value(f) = s
    BY ONLY <2>2, <2>3 DEF Value
  <2> QED
    BY <2>1, <2>2, <2>12, <2>13, <2>14 DEF HereIs
<1> QED
  BY ONLY ReadInv, <1>1, <1>5, <1>6, AnswerKeeps

LEMMA ReadFixedKeeps == ASSUME ReadInv, ReadFixed PROVE ReadInv'
<1>1. Len(got) < Len(fields) /\ shift = -1 /\ Field.kind \in {"lsb", "msb"}
  BY DEF ReadFixed, Expects, Field
<1>2. PICK n : n = Field.n
  OBVIOUS
<1>3. PICK w : w = UNION {Place(i, n) : i \in 0..n-1}
  OBVIOUS
<1>4. PICK v, off : Yields(v, off) /\ v = (IF n \in {1, 2, 4, 8} THEN w ELSE {})
                    /\ off = (IF n \in {1, 2, 4, 8} THEN offset + n ELSE offset)
  <2>1. CASE n \in {1, 2, 4, 8}
    <3>1. Yields(w, offset + n)
      BY ONLY ReadFixed, <1>2, <1>3, <2>1 DEF ReadFixed
    <3> QED
      BY ONLY <2>1, <3>1
  <2>2. CASE ~(n \in {1, 2, 4, 8})
    <3>1. Yields({}, offset)
      BY ONLY ReadFixed, <1>2, <2>2 DEF ReadFixed
    <3> QED
      BY ONLY <2>2, <3>1
  <2> QED
    BY ONLY <2>1, <2>2
<1>5. UNCHANGED <<fields, data>> /\ shift' = -1
  BY <1>1 DEF ReadFixed
<1>6. ASSUME ReadSoFar(Len(got) + 1) PROVE v = Value(Field) /\ off = FieldAt(Len(got) + 1)
  <2>1. PICK f, base, e : HereIs(f, base, e)
    BY <1>1, <1>6, Here
  <2>2. f.kind \in {"lsb", "msb"} /\ Field = f /\ offset = base /\ n = f.n /\ n \in {1, 2, 4, 8}
    BY <1>1, <1>2, <2>1 DEF HereIs, Covered
  <2>3. PICK u : u = f.word
    OBVIOUS
  <2>4. u \subseteq 0..ByteBits*n-1
    <3>1. Encodable(f)
      BY <2>1 DEF HereIs
    <3> QED
      BY ONLY <2>2, <2>3, <3>1 DEF Encodable
  <2>5. Len(e) = n /\ \A i \in 1..n : e[i] = ByteOf(u, IF f.kind = "lsb" THEN i - 1 ELSE n - i)
    <3>1. Encodable(f) /\ e = Encode(f)
      BY <2>1 DEF HereIs
    <3> QED
      BY ONLY <2>2, <2>3, <3>1, EncodeIs
  <2>6. base \in Nat /\ base + n = FieldAt(Len(got) + 1) /\ \A i \in 1..n : data[base + i] = e[i]
    BY <2>1, <2>5 DEF HereIs
  <2>7. ASSUME NEW i \in 0..n-1 PROVE Place(i, n) = {ByteBits * i + j : j \in ByteOf(u, i)}
    <3>1. PICK k \in Int : k = (IF f.kind = "msb" THEN n - 1 - i ELSE i)
      BY <2>2
    <3>2. k + 1 \in 1..n /\ base + k + 1 = base + (k + 1)
          /\ (IF f.kind = "lsb" THEN (k + 1) - 1 ELSE n - (k + 1)) = i
      <4>1. n \in Nat /\ i \in Int /\ base \in Nat
        BY <2>2, <2>6
      <4>2. CASE f.kind = "lsb"
        <5>1. k = i
          BY <3>1, <4>2
        <5> QED
          BY <4>1, <4>2, <5>1
      <4>3. CASE f.kind = "msb"
        <5>1. k = n - 1 - i
          BY <3>1, <4>3
        <5>2. n - (k + 1) = i
          BY <4>1, <5>1
        <5> QED
          BY <4>1, <4>3, <5>1, <5>2
      <4> QED
        BY <2>2, <4>2, <4>3
    <3>3. PICK m \in Int : m = k + 1
      OBVIOUS
    <3>4. m \in 1..n /\ (IF f.kind = "lsb" THEN m - 1 ELSE n - m) = i
      BY ONLY <3>2, <3>3
    <3>5. e[m] = ByteOf(u, i) /\ data[base + m] = e[m]
      <4>1. e[m] = ByteOf(u, IF f.kind = "lsb" THEN m - 1 ELSE n - m)
        BY ONLY <2>5, <3>4
      <4>2. data[base + m] = e[m]
        BY ONLY <2>6, <3>4
      <4> QED
        BY ONLY <3>4, <4>1, <4>2
    <3>6. Src(k) = ByteOf(u, i)
      <4>1. offset + k + 1 = base + m
        BY <2>2, <2>6, <3>2, <3>3
      <4> QED
        BY ONLY <3>5, <4>1 DEF Src
    <3> QED
      BY ONLY <2>2, <3>1, <3>6 DEF Place
  <2>8. w = UNION {{ByteBits * i + j : j \in ByteOf(u, i)} : i \in 0..n-1}
    BY ONLY <1>3, <2>7
  <2>9. w = u
    BY ONLY <2>2, <2>4, <2>8, PlacesJoin
  <2>10. Value(f) = u
    BY ONLY <2>2, <2>3 DEF Value
  <2> QED
    BY ONLY <1>4, <2>2, <2>6, <2>9, <2>10
<1> QED
  BY ONLY ReadInv, <1>1, <1>4, <1>5, <1>6, AnswerKeeps

\* A LEB128 reader goes on: it is enough that it is right about this field.
LEMMA LebGoesOn ==
  ASSUME ReadInv, UNCHANGED <<fields, data, got>>, NEW i \in Nat, shift' = GROUP * i,
         Len(got) < Len(fields), Field.kind \in {"sleb", "uleb"},
         ReadSoFar(Len(got) + 1) => /\ i <= Field.n /\ offset' = FieldAt(Len(got)) + i
                                    /\ i >= 1 => byte' = Encode(Field)[i]
                                    /\ ret' = Part(Field.int, GROUP * i)
  PROVE  ReadInv'
<1>1. fields' = fields /\ data' = data /\ got' = got
  OBVIOUS
<1>2. \A n : (ReadSoFar(n) <=> ReadSoFar(n)') /\ FieldAt(n)' = FieldAt(n)
  BY DEF ReadSoFar, FieldAt
<1>3. Field' = Field
  BY DEF Field
<1>4. shift' # -1
  <2>1. GROUP * i \in Nat
    BY WidthAssumption DEF WidthAssumption
  <2> QED
    BY <2>1
<1>5. (ReadSoFar(Len(got) + 1) => InLeb(Field, FieldAt(Len(got)), i))'
  <2>1. ReadSoFar(Len(got) + 1)' <=> ReadSoFar(Len(got) + 1)
    BY <1>1 DEF ReadSoFar
  <2>2. InLeb(Field, FieldAt(Len(got)), i)' <=>
          /\ i <= Field.n /\ offset' = FieldAt(Len(got)) + i
          /\ i >= 1 => byte' = Encode(Field)[i]
          /\ ret' = Part(Field.int, GROUP * i)
    <3>1. FieldAt(Len(got))' = FieldAt(Len(got))
      BY <1>1 DEF FieldAt
    <3> QED
      BY <1>1, <1>3, <3>1 DEF InLeb
  <2> QED
    BY <2>1, <2>2
<1>6. Reading'
  BY <1>1, <1>3, <1>5 DEF Reading
<1>7. /\ StreamLegal(fields)' /\ (data = EncodeAll(fields, Len(fields)))'
      /\ IsSeq(got)' /\ (Len(got) <= Len(fields))'
  BY <1>1 DEF ReadInv
<1>8. (ReadSoFar(Len(got)) => /\ \A k \in 1..Len(got) : got[k] = Value(fields[k])
                              /\ shift = -1 => offset = FieldAt(Len(got)))'
  <2>1. ReadSoFar(Len(got))' <=> ReadSoFar(Len(got))
    BY <1>1 DEF ReadSoFar
  <2>2. ReadSoFar(Len(got)) => \A k \in 1..Len(got) : got[k] = Value(fields[k])
    BY DEF ReadInv
  <2> QED
    BY ONLY <1>1, <1>4, <2>1, <2>2
<1> QED
  BY ONLY <1>6, <1>7, <1>8 DEF ReadInv

LEMMA LebCallKeeps == ASSUME ReadInv, LebCall PROVE ReadInv'
<1>1. Len(got) < Len(fields) /\ shift = -1 /\ Field.kind \in {"sleb", "uleb"}
  BY DEF LebCall, Expects, Field
<1>2. shift' = 0 /\ ret' = {} /\ UNCHANGED <<fields, data, offset, got, byte>>
  BY DEF LebCall
<1>3. PICK z \in Nat : z = 0
  OBVIOUS
<1>4. GROUP * z = 0
  BY <1>3, WidthAssumption DEF WidthAssumption
<1>5. ASSUME ReadSoFar(Len(got) + 1)
      PROVE  /\ z <= Field.n /\ offset' = FieldAt(Len(got)) + z
             /\ z >= 1 => byte' = Encode(Field)[z]
             /\ ret' = Part(Field.int, GROUP * z)
  <2>1. PICK f, base, e : HereIs(f, base, e)
    BY <1>1, <1>5, Here
  <2>2. f = Field /\ base = FieldAt(Len(got)) /\ base \in Nat /\ offset = base /\ f.n \in Nat
    BY <1>1, <2>1 DEF HereIs, Encodable
  <2>3. Part(f.int, 0) = {}
    BY WidthAssumption DEF WidthAssumption, Part
  <2> QED
    BY <1>2, <1>3, <1>4, <2>2, <2>3
<1> QED
  BY ONLY ReadInv, <1>1, <1>2, <1>3, <1>4, <1>5, LebGoesOn

\* A number that the readers cover.
LebIs(f, v, n) ==
  /\ f.kind \in {"sleb", "uleb"} /\ v = f.int /\ n = f.n
  /\ v \in Int /\ n \in Nat \ {0}
  /\ Bit(v, INT - 1) <=> v < 0
  /\ v < 0 => GROUP * (n - 1) < INT
  /\ f.kind = "uleb" => v >= 0
  /\ \A p \in (GROUP * n - (IF f.kind = "sleb" THEN 1 ELSE 0))..LLONG-1 : Bit(v, p) <=> v < 0

LEMMA LebExists ==
  ASSUME NEW f, Encodable(f), Covered(f), f.kind \in {"sleb", "uleb"}
  PROVE  \E v, n : LebIs(f, v, n)
<1>1. PICK v, n : v = f.int /\ n = f.n
  OBVIOUS
<1>2. PICK P \in Nat \ {0} : P = 2^(INT-1)
  <2>1. INT - 1 \in Nat
    BY WidthAssumption DEF WidthAssumption
  <2> QED
    BY <2>1, PowerOfTwo
<1>3. /\ v \in (IF f.kind = "sleb" THEN Int ELSE Nat) /\ n \in Nat \ {0}
      /\ \A p \in (GROUP * n - (IF f.kind = "sleb" THEN 1 ELSE 0))..LLONG-1 : Bit(v, p) <=> v < 0
  BY ONLY <1>1, Encodable(f), f.kind \in {"sleb", "uleb"} DEF Encodable
<1>4. /\ v \in (IF f.kind = "sleb" THEN -P ELSE 0)..P-1
      /\ v < 0 => GROUP * (n - 1) < INT
  BY ONLY <1>1, <1>2, Covered(f), f.kind \in {"sleb", "uleb"} DEF Covered
<1>5. v \in Int /\ v \in -P..P-1 /\ (f.kind = "uleb" => v >= 0)
  BY <1>3, <1>4
<1>6. Bit(v, INT - 1) <=> v < 0
  BY ONLY <1>2, <1>5, SignBit
<1>7. LebIs(f, v, n)
  BY ONLY <1>1, <1>3, <1>4, <1>5, <1>6, f.kind \in {"sleb", "uleb"} DEF LebIs
<1> QED
  BY <1>7

LEMMA LebByteKeeps == ASSUME ReadInv, LebByte PROVE ReadInv'
<1>1. GROUP \in Nat \ {0}
  BY WidthAssumption DEF WidthAssumption
<1>2. shift # -1
  <2>1. shift >= 0
    BY DEF LebByte
  <2> QED
    BY <2>1
<1>3. PICK i \in Nat :
        /\ shift = GROUP * i
        /\ ReadSoFar(Len(got) + 1) => InLeb(Field, FieldAt(Len(got)), i)
  BY <1>2 DEF ReadInv, Reading
<1>4. Len(got) < Len(fields) /\ Field.kind \in {"sleb", "uleb"}
  BY <1>2 DEF ReadInv, Reading
<1>5. PICK s \in Nat : s = shift /\ (s > 0 => i >= 1) /\ (i >= 1 => s > 0)
  <2>1. GROUP * i \in Nat /\ (i = 0 => GROUP * i = 0) /\ (i >= 1 => GROUP * i > 0)
    BY <1>1
  <2> QED
    BY <1>3, <2>1
<1>6. /\ s > 0 => GROUP \in byte
      /\ byte' = Src(0) /\ ret' = ret \cup Shl(Src(0) \ {GROUP}, s)
      /\ offset' = offset + 1 /\ shift' = s + GROUP
      /\ UNCHANGED <<fields, data, got>>
  BY <1>5 DEF LebByte
<1>7. PICK h \in Nat : h = i + 1
  OBVIOUS
<1>8. shift' = GROUP * h
  <2>1. GROUP * (i + 1) = GROUP * i + GROUP
    BY <1>1
  <2> QED
    BY ONLY <1>3, <1>5, <1>6, <1>7, <2>1
<1>9. ASSUME ReadSoFar(Len(got) + 1)
      PROVE  /\ h <= Field.n /\ offset' = FieldAt(Len(got)) + h
             /\ h >= 1 => byte' = Encode(Field)[h]
             /\ ret' = Part(Field.int, GROUP * h)
  <2>1. PICK f, base, e : HereIs(f, base, e)
    BY <1>4, <1>9, Here
  <2>2. f = Field /\ base = FieldAt(Len(got)) /\ e = Encode(f) /\ Encodable(f) /\ Covered(f) /\ base \in Nat
    BY <2>1 DEF HereIs
  <2>3. PICK v, n : LebIs(f, v, n)
    BY <1>4, <2>2, LebExists
  <2>4. v = f.int /\ n = f.n /\ v \in Int /\ n \in Nat \ {0}
    BY <2>3 DEF LebIs
  <2>5. i <= n /\ offset = base + i /\ (i >= 1 => byte = e[i]) /\ ret = Part(v, s)
    BY <1>3, <1>5, <1>9, <2>2, <2>4 DEF InLeb
  <2>6. /\ Len(e) = n
        /\ \A m \in 1..n : e[m] = {j \in 0..GROUP-1 : Bit(v, GROUP * (m - 1) + j)}
                                    \cup (IF m < n THEN {GROUP} ELSE {})
    BY ONLY <1>4, <2>2, <2>4, EncodeIs
  <2>7. i < n
    <3>1. CASE i = 0
      BY <2>4, <3>1
    <3>2. CASE i >= 1
      <4>1. GROUP \in e[i] /\ i \in 1..n
        BY <1>5, <1>6, <2>4, <2>5, <3>2
      <4>2. ~(i < n) => GROUP \in 0..GROUP-1
        BY ONLY <2>6, <4>1
      <4> QED
        BY <1>1, <2>4, <4>2
    <3> QED
      BY <3>1, <3>2
  <2>8. h \in 1..n /\ h - 1 = i
    BY <1>7, <2>4, <2>7
  <2>9. Src(0) = e[h]
    <3>1. offset + 0 + 1 = base + h
      BY <1>7, <2>2, <2>5
    <3>2. data[base + h] = e[h]
      BY ONLY <2>1, <2>6, <2>8 DEF HereIs
    <3> QED
      BY ONLY <3>1, <3>2 DEF Src
  <2>10. Src(0) \ {GROUP} = {j \in 0..GROUP-1 : Bit(v, s + j)}
    <3>1. e[h] = {j \in 0..GROUP-1 : Bit(v, s + j)} \cup (IF h < n THEN {GROUP} ELSE {})
      <4>1. GROUP * (h - 1) = s
        BY ONLY <1>3, <1>5, <2>8
      <4> QED
        BY ONLY <2>6, <2>8, <4>1
    <3>2. PICK x : x = {j \in 0..GROUP-1 : Bit(v, s + j)}
      OBVIOUS
    <3>3. GROUP \notin x
      <4>1. GROUP \notin 0..GROUP-1
        BY <1>1
      <4> QED
        BY ONLY <3>2, <4>1
    <3> QED
      BY ONLY <2>9, <3>1, <3>2, <3>3
  <2>11. v < 0 => s < INT
    <3> SUFFICES ASSUME v < 0 PROVE s < INT
      OBVIOUS
    <3>1. GROUP * (n - 1) < INT
      BY <2>3 DEF LebIs
    <3>2. PICK d \in Nat : n - 1 = i + d
      <4>1. n - 1 - i \in Nat /\ n - 1 = i + (n - 1 - i)
        BY <2>4, <2>7
      <4> QED
        BY <4>1
    <3>3. GROUP * (i + d) = GROUP * i + GROUP * d /\ GROUP * d \in Nat
      BY <1>1
    <3>4. INT \in Nat
      BY WidthAssumption DEF WidthAssumption
    <3> QED
      BY ONLY <1>3, <1>5, <3>1, <3>2, <3>3, <3>4
  <2>12. Part(v, s) \cup Shl({j \in 0..GROUP-1 : Bit(v, s + j)}, s) = Part(v, s + GROUP)
    <3>1. Bit(v, INT - 1) <=> v < 0
      BY <2>3 DEF LebIs
    <3> QED
      BY ONLY <2>4, <2>11, <3>1, PartGrows, s \in Nat
  <2>13. ret' = Part(v, GROUP * h)
    BY ONLY <1>6, <1>8, <2>5, <2>10, <2>12
  <2>14. offset' = base + h
    BY ONLY <1>6, <1>7, <2>2, <2>5, i \in Nat
  <2>15. h <= n
    BY ONLY <2>4, <2>8
  <2> QED
    BY ONLY <1>6, <2>2, <2>4, <2>9, <2>13, <2>14, <2>15
<1> QED
  BY ONLY ReadInv, <1>4, <1>6, <1>8, <1>9, LebGoesOn, h \in Nat

LEMMA LebReturnKeeps == ASSUME ReadInv, LebReturn PROVE ReadInv'
<1>1. GROUP \in Nat \ {0}
  BY WidthAssumption DEF WidthAssumption
<1>2. shift > 0 /\ GROUP \notin byte /\ shift' = -1 /\ UNCHANGED <<fields, data>>
      /\ Yields(ret \cup SignBits, offset)
  BY DEF LebReturn
<1>3. shift # -1
  BY <1>2
<1>4. PICK i \in Nat :
        /\ shift = GROUP * i
        /\ ReadSoFar(Len(got) + 1) => InLeb(Field, FieldAt(Len(got)), i)
  BY <1>3 DEF ReadInv, Reading
<1>5. Len(got) < Len(fields) /\ Field.kind \in {"sleb", "uleb"}
  BY <1>3 DEF ReadInv, Reading
<1>6. PICK s \in Nat \ {0} : s = shift /\ i >= 1
  <2>1. GROUP * i \in Nat /\ (i = 0 => GROUP * i = 0)
    BY <1>1
  <2> QED
    BY <1>2, <1>4, <2>1
<1>7. PICK x, off : x = ret \cup SignBits /\ off = offset
  OBVIOUS
<1>8. ASSUME ReadSoFar(Len(got) + 1) PROVE x = Value(Field) /\ off = FieldAt(Len(got) + 1)
  <2>1. PICK f, base, e : HereIs(f, base, e)
    BY <1>5, <1>8, Here
  <2>2. /\ f = Field /\ base = FieldAt(Len(got)) /\ e = Encode(f) /\ Encodable(f) /\ Covered(f) /\ base \in Nat
        /\ base + Len(e) = FieldAt(Len(got) + 1)
    BY <2>1 DEF HereIs
  <2>3. PICK v, n : LebIs(f, v, n)
    BY <1>5, <2>2, LebExists
  <2>4. v = f.int /\ n = f.n /\ v \in Int /\ n \in Nat \ {0} /\ f.kind \in {"sleb", "uleb"}
    BY <2>3 DEF LebIs
  <2>5. i <= n /\ offset = base + i /\ byte = e[i] /\ ret = Part(v, s)
    BY <1>4, <1>6, <1>8, <2>2, <2>4 DEF InLeb
  <2>6. /\ Len(e) = n
        /\ \A m \in 1..n : e[m] = {j \in 0..GROUP-1 : Bit(v, GROUP * (m - 1) + j)}
                                    \cup (IF m < n THEN {GROUP} ELSE {})
    BY ONLY <1>5, <2>2, <2>4, EncodeIs
  <2>7. i \in 1..n
    BY <1>6, <2>4, <2>5
  <2>8. i = n
    <3>1. ~(i < n)
      BY ONLY <1>2, <2>5, <2>6, <2>7
    <3> QED
      BY <2>4, <2>7, <3>1
  <2>9. GROUP - 1 \in byte <=> Bit(v, s - 1)
    <3>1. e[i] = {j \in 0..GROUP-1 : Bit(v, GROUP * (i - 1) + j)}
      BY ONLY <2>4, <2>6, <2>7, <2>8
    <3>2. GROUP * (i - 1) + (GROUP - 1) = s - 1
      <4>1. GROUP * (i - 1) = GROUP * i - GROUP
        BY <1>1
      <4>2. GROUP * i = s
        BY ONLY <1>4, <1>6
      <4> QED
        BY <1>1, <4>1, <4>2
    <3>3. GROUP - 1 \in 0..GROUP-1
      BY <1>1
    <3> QED
      BY ONLY <2>5, <3>1, <3>2, <3>3
  <2>10. PICK signed \in BOOLEAN : signed <=> f.kind = "sleb"
    OBVIOUS
  <2>11. x = Part(v, s) \cup (IF signed /\ s < INT /\ Bit(v, s - 1) THEN Shl(0..INT-1, s) ELSE {})
    <3>1. PICK y : y = Shl(0..INT-1, s)
      OBVIOUS
    <3>2. SignBits = IF signed /\ s < INT /\ Bit(v, s - 1) THEN y ELSE {}
      <4>1. SignBits = IF Field.kind = "sleb" /\ shift < INT /\ GROUP - 1 \in byte
                       THEN Shl(0..INT-1, shift) ELSE {}
        BY DEF SignBits
      <4> QED
        BY ONLY <1>6, <2>2, <2>9, <2>10, <3>1, <4>1
    <3> QED
      BY ONLY <1>7, <2>5, <3>1, <3>2
  <2>12. x = {p \in 0..LLONG-1 : Bit(v, p)}
    <3>1. ~signed => v >= 0
      <4>1. f.kind = "uleb" => v >= 0
        BY <2>3 DEF LebIs
      <4> QED
        BY <2>4, <2>10, <4>1
    <3>2. \A p \in (s - (IF signed THEN 1 ELSE 0))..LLONG-1 : Bit(v, p) <=> v < 0
      <4>1. \A p \in (GROUP * n - (IF f.kind = "sleb" THEN 1 ELSE 0))..LLONG-1 : Bit(v, p) <=> v < 0
        BY <2>3 DEF LebIs
      <4>2. GROUP * n = s
        BY ONLY <1>4, <1>6, <2>8
      <4> QED
        BY ONLY <2>10, <4>1, <4>2
    <3> QED
      BY ONLY <2>4, <2>11, <3>1, <3>2, PartEnds, s \in Nat \ {0}, signed \in BOOLEAN
  <2>13. Value(f) = {p \in 0..LLONG-1 : Bit(v, p)}
    BY ONLY <2>4 DEF Value
  <2> QED
    BY ONLY <1>7, <2>2, <2>5, <2>6, <2>8, <2>12, <2>13
<1> QED
  BY ONLY ReadInv, <1>2, <1>5, <1>7, <1>8, AnswerKeeps

\* The one thread's step: only the readers touch a section.
LEMMA ReadInvStep == ASSUME ReadInv, [LibNext]_libVars PROVE ReadInv'
<1>1. CASE UNCHANGED readVars
  <2>1. /\ fields' = fields /\ data' = data /\ offset' = offset /\ got' = got
        /\ byte' = byte /\ shift' = shift /\ ret' = ret
    BY <1>1 DEF readVars
  <2>2. ReadSoFar(Len(got))' <=> ReadSoFar(Len(got))
    BY <2>1 DEF ReadSoFar
  <2>3. FieldAt(Len(got))' = FieldAt(Len(got))
    BY <2>1 DEF FieldAt
  <2>4. ReadSoFar(Len(got) + 1)' <=> ReadSoFar(Len(got) + 1)
    BY <2>1 DEF ReadSoFar
  <2>5. Field' = Field
    BY <2>1 DEF Field
  <2>6. ASSUME NEW i PROVE InLeb(Field, FieldAt(Len(got)), i)' <=> InLeb(Field, FieldAt(Len(got)), i)
    BY <2>1, <2>3, <2>5 DEF InLeb
  <2>7. Reading' <=> Reading
    BY <2>1, <2>4, <2>5, <2>6 DEF Reading
  <2> QED
    BY <2>1, <2>2, <2>3, <2>7 DEF ReadInv
<1>2. CASE ReadNext
  BY <1>2, ReadFixedKeeps, LebCallKeeps, LebByteKeeps, LebReturnKeeps, ReadStringKeeps, ReadBlockKeeps
     DEF ReadNext
<1>3. ReadNext \/ UNCHANGED readVars
  BY DEF LibNext, libVars
<1> QED
  BY <1>1, <1>2, <1>3

\* For every section of fields, and every width of an int and of a group of
\* LEB128: the readers of kern/libdwarf_rw.c return what was written, field by
\* field, negative and padded numbers and the bytes of either order included, and
\* leave *offsetp at the next field.
THEOREM FieldsReadBackCorrect == LibSpec => []FieldsReadBack
<1>1. LibInit => ReadInv
  <2>1. StreamLegal(<< >>)
    BY DEF StreamLegal
  <2> QED
    BY <2>1, ReadInvInit, StreamsAssumption DEF LibInit
<1>2. ReadInv => FieldsReadBack
  BY DEF ReadInv, FieldsReadBack, ReadSoFar, FieldAt
<1> QED
  BY <1>1, <1>2, ReadInvStep, PTL DEF LibSpec
-----------------------------------------------------------------------------
(* strtol: a number is read as it is written. *)

\* A recursion over 0..N in the form of a definition.
Steps(N, a, st) ==
  \E g \in [0..N -> Nat] : g = [k \in 0..N |-> IF k = 0 THEN a ELSE st[k][g[k - 1]]]

LEMMA StepsExist ==
  ASSUME NEW N \in Nat, NEW a \in Nat, NEW st \in [1..N -> [Nat -> Nat]]
  PROVE  Steps(N, a, st)
<1>1. Runs(N, Nat, a, st)
  BY RecursionExists
<1>2. PICK g \in [0..N -> Nat] : g[0] = a /\ \A k \in 1..N : g[k] = st[k][g[k - 1]]
  BY <1>1 DEF Runs
<1>3. g = [k \in 0..N |-> IF k = 0 THEN a ELSE st[k][g[k - 1]]]
  <2>1. g = [k \in 0..N |-> g[k]]
    OBVIOUS
  <2>2. ASSUME NEW k \in 0..N PROVE g[k] = IF k = 0 THEN a ELSE st[k][g[k - 1]]
    <3>1. k = 0 \/ k \in 1..N
      OBVIOUS
    <3> QED
      BY ONLY <1>2, <3>1
  <2> QED
    BY ONLY <2>1, <2>2
<1> SUFFICES \E h \in [0..N -> Nat] : h = [k \in 0..N |-> IF k = 0 THEN a ELSE st[k][h[k - 1]]]
  BY DEF Steps
<1> WITNESS g \in [0..N -> Nat]
<1> QED
  BY ONLY <1>3

\* What is left of a number as its digits are taken off.
IsNumeral(left, m, end, n, base, v) ==
  /\ left \in [0..n -> Nat] /\ left[0] = v /\ left[n] = 0
  /\ \A k \in 1..n : left[k] = left[k - 1] \div base /\ DigitValue(m[end - k]) = left[k - 1] % base

LEMMA NumeralIs ==
  ASSUME NEW m, NEW end, NEW n \in Nat, NEW base \in 2..36, NEW v \in Nat, Numeral(m, end, n, base, v)
  PROVE  \E left : IsNumeral(left, m, end, n, base, v)
<1> DEFINE st == [k \in 1..n |-> [x \in Nat |-> x \div base]]
           left == CHOOSE f : f = [k \in 0..n |-> IF k = 0 THEN v ELSE f[k - 1] \div base]
<1>1. \A x \in Nat : x \div base \in Nat
  OBVIOUS
<1>2. st \in [1..n -> [Nat -> Nat]]
  BY <1>1
<1>3. PICK g \in [0..n -> Nat] : g = [k \in 0..n |-> IF k = 0 THEN v ELSE st[k][g[k - 1]]]
  <2> HIDE DEF st
  <2>1. Steps(n, v, st)
    BY ONLY <1>2, StepsExist, n \in Nat, v \in Nat
  <2> QED
    BY ONLY <2>1 DEF Steps
<1>4. g = [k \in 0..n |-> IF k = 0 THEN v ELSE g[k - 1] \div base]
  <2>1. ASSUME NEW k \in 0..n, k # 0 PROVE st[k][g[k - 1]] = g[k - 1] \div base
    <3>1. k \in 1..n /\ k - 1 \in 0..n
      BY <2>1
    <3>2. g[k - 1] \in Nat
      BY <3>1
    <3> QED
      BY ONLY <3>1, <3>2
  <2> HIDE DEF st
  <2> QED
    BY ONLY <1>3, <2>1
<1>5. left = [k \in 0..n |-> IF k = 0 THEN v ELSE left[k - 1] \div base]
  BY ONLY <1>4
<1>6. left[n] = 0 /\ \A k \in 1..n : DigitValue(m[end - k]) = left[k - 1] % base
  BY ONLY Numeral(m, end, n, base, v) DEF Numeral
<1> HIDE DEF left, st
<1> DEFINE D == {k \in Nat : k <= n => left[k] \in Nat}
<1>7. 0 \in D
  BY <1>5
<1>8. ASSUME NEW k \in D PROVE k + 1 \in D
  <2> SUFFICES ASSUME k + 1 <= n PROVE left[k + 1] \in Nat
    OBVIOUS
  <2>1. k + 1 \in 0..n /\ (k + 1) - 1 = k /\ k + 1 # 0 /\ left[k] \in Nat
    OBVIOUS
  <2>2. left[k + 1] = left[k] \div base
    BY ONLY <1>5, <2>1
  <2> QED
    BY <1>1, <2>1, <2>2
<1>9. D = Nat
  <2>1. D \in SUBSET Nat
    OBVIOUS
  <2> HIDE DEF D
  <2> QED
    BY ONLY <1>7, <1>8, <2>1, AllNat
<1>10. left \in [0..n -> Nat]
  <2>1. \A k \in 0..n : left[k] \in Nat
    <3>1. \A k \in 0..n : k \in D /\ k <= n
      BY ONLY <1>9, n \in Nat
    <3> QED
      BY <3>1
  <2>2. left = [k \in 0..n |-> left[k]]
    BY ONLY <1>5
  <2> QED
    BY ONLY <2>1, <2>2
<1>11. left[0] = v /\ \A k \in 1..n : left[k] = left[k - 1] \div base
  <2>1. \A k \in 1..n : k \in 0..n /\ k # 0
    OBVIOUS
  <2>2. 0 \in 0..n
    OBVIOUS
  <2> QED
    BY ONLY <1>5, <2>1, <2>2
<1>12. IsNumeral(left, m, end, n, base, v)
  BY ONLY <1>6, <1>10, <1>11 DEF IsNumeral
<1> QED
  BY ONLY <1>12

\* The recursion that the loop over the digits is.
IsValue(val, m, first, n, base) ==
  val = [k \in 0..n |-> IF k = 0 THEN 0 ELSE val[k - 1] * base + DigitValue(m[first + k - 1])]

LEMMA DigitIn == ASSUME NEW c PROVE DigitValue(c) \in Nat
<1>1. \A x \in Int : x \in 48..57 => x - 48 \in Nat
  OBVIOUS
<1>2. CASE c \in 48..57
  <2>1. DigitValue(c) = c - 48
    BY <1>2 DEF DigitValue
  <2> QED
    BY <1>2, <2>1
<1>3. CASE c \in 97..122
  <2>1. DigitValue(c) = c - 97 + 10
    BY <1>3 DEF DigitValue
  <2> QED
    BY <1>3, <2>1
<1>4. CASE c \in 65..90
  <2>1. DigitValue(c) = c - 65 + 10
    BY <1>4 DEF DigitValue
  <2> QED
    BY <1>4, <2>1
<1>5. CASE c \notin 48..57 /\ c \notin 97..122 /\ c \notin 65..90
  <2>1. DigitValue(c) = 36
    BY <1>5 DEF DigitValue
  <2> QED
    BY <2>1
<1> QED
  BY <1>2, <1>3, <1>4, <1>5

LEMMA ValueExists ==
  ASSUME NEW m, NEW first \in Nat, NEW n \in Nat, NEW base \in 2..36
  PROVE  \E val : IsValue(val, m, first, n, base)
<1> DEFINE st == [k \in 1..n |-> [x \in Nat |-> x * base + DigitValue(m[first + k - 1])]]
<1>1. st \in [1..n -> [Nat -> Nat]]
  <2>1. ASSUME NEW k \in 1..n, NEW x \in Nat PROVE x * base + DigitValue(m[first + k - 1]) \in Nat
    <3>1. PICK d \in Nat : d = DigitValue(m[first + k - 1])
      BY DigitIn
    <3> QED
      BY <3>1
  <2> QED
    BY <2>1
<1>2. PICK g \in [0..n -> Nat] : g = [k \in 0..n |-> IF k = 0 THEN 0 ELSE st[k][g[k - 1]]]
  <2>1. 0 \in Nat
    OBVIOUS
  <2> HIDE DEF st
  <2>2. Steps(n, 0, st)
    BY ONLY <1>1, <2>1, StepsExist, n \in Nat
  <2> QED
    BY ONLY <2>2 DEF Steps
<1>3. ASSUME NEW k \in 0..n, k # 0
      PROVE  st[k][g[k - 1]] = g[k - 1] * base + DigitValue(m[first + k - 1])
  <2>1. k \in 1..n /\ k - 1 \in 0..n
    BY <1>3
  <2>2. g[k - 1] \in Nat
    BY <2>1
  <2> QED
    BY ONLY <2>1, <2>2
<1>4. IsValue(g, m, first, n, base)
  <2> HIDE DEF st
  <2> QED
    BY ONLY <1>2, <1>3 DEF IsValue
<1> QED
  BY ONLY <1>4

\* Read digit by digit, a number is put together as it was taken apart.
LEMMA ReadsNumeral ==
  ASSUME NEW m, NEW first \in Nat, NEW n \in Nat, NEW base \in 2..36, NEW v,
         NEW left, IsNumeral(left, m, first + n, n, base, v),
         NEW val, IsValue(val, m, first, n, base)
  PROVE  val[n] = v
<1>1. /\ left \in [0..n -> Nat] /\ left[0] = v /\ left[n] = 0
      /\ \A k \in 1..n : left[k] = left[k - 1] \div base
                         /\ DigitValue(m[(first + n) - k]) = left[k - 1] % base
  BY DEF IsNumeral
<1>2. val[0] = 0 /\ \A k \in 1..n : val[k] = val[k - 1] * base + DigitValue(m[first + k - 1])
  <2>1. 0 \in 0..n /\ \A k \in 1..n : k \in 0..n /\ k # 0
    OBVIOUS
  <2> QED
    BY ONLY <2>1, IsValue(val, m, first, n, base) DEF IsValue
<1> DEFINE D == {k \in Nat : k <= n => val[k] = left[n - k]}
<1>3. 0 \in D
  BY <1>1, <1>2, n - 0 = n
<1>4. ASSUME NEW k \in D PROVE k + 1 \in D
  <2> SUFFICES ASSUME k + 1 <= n PROVE val[k + 1] = left[n - (k + 1)]
    OBVIOUS
  <2>1. PICK j \in Nat : j = n - k
    OBVIOUS
  <2>2. j \in 1..n /\ j - 1 = n - (k + 1) /\ j - 1 \in 0..n
    BY <2>1
  <2>3. PICK h \in Nat : h = k + 1
    OBVIOUS
  <2>4. h \in 1..n /\ h - 1 = k /\ first + h - 1 = (first + n) - j
    BY <2>1, <2>3
  <2>5. PICK x \in Nat : x = left[j - 1]
    BY <1>1, <2>2
  <2>6. left[j] = x \div base /\ DigitValue(m[(first + n) - j]) = x % base
    BY ONLY <1>1, <2>2, <2>5
  <2>7. val[h] = val[k] * base + DigitValue(m[(first + n) - j])
    BY ONLY <1>2, <2>4
  <2>8. val[k] = left[j]
    BY <2>1
  <2>9. PICK q \in Nat : q = x \div base
    OBVIOUS
  <2>10. PICK d \in Int : d = x % base
    OBVIOUS
  <2>11. val[h] = q * base + d
    <3>1. val[k] = q
      BY ONLY <2>6, <2>8, <2>9
    <3>2. val[h] = val[k] * base + d
      BY ONLY <2>6, <2>7, <2>10
    <3> QED
      BY ONLY <3>1, <3>2
  <2>12. q * base + d = x
    <3>1. d = x - base * q
      BY ONLY <2>9, <2>10, x \in Nat, base \in 2..36, q \in Nat
    <3> QED
      BY ONLY <3>1, x \in Nat, base \in 2..36, q \in Nat
  <2> QED
    BY ONLY <2>2, <2>3, <2>5, <2>11, <2>12
<1>5. D = Nat
  <2>1. D \in SUBSET Nat
    OBVIOUS
  <2> HIDE DEF D
  <2> QED
    BY ONLY <1>3, <1>4, <2>1, AllNat
<1>6. val[n] = left[n - n]
  <2>1. n \in D
    BY ONLY <1>5, n \in Nat
  <2> QED
    BY <2>1
<1> QED
  BY ONLY <1>1, <1>6, n - n = 0, n \in Nat

LEMMA BaseIs ==
  ASSUME NEW m, NEW p, NEW asked, NEW base, NEW first, Prefixed(m, p, asked, base, first)
  PROVE  Prefix(m, p, asked) = <<first, base>>
<1>1. PICK x, y : x = m[p] /\ y = m[p + 1]
  OBVIOUS
<1>2. Prefix(m, p, asked) = CASE asked \in {0, 16} /\ x = 48 /\ y = 120 -> <<p + 2, 16>>
                              [] asked = 0 /\ x = 48 /\ y # 120 -> <<p + 1, 8>>
                              [] asked = 0 /\ x # 48 -> <<p, 10>>
                              [] OTHER -> <<p, asked>>
  BY ONLY <1>1 DEF Prefix
<1>3. \/ asked \in {0, 16} /\ x = 48 /\ y = 120 /\ base = 16 /\ first = p + 2
      \/ asked = 0 /\ x = 48 /\ y # 120 /\ base = 8 /\ first = p + 1
      \/ asked = 0 /\ x # 48 /\ base = 10 /\ first = p
      \/ asked \in 2..36 /\ ~(asked = 16 /\ x = 48 /\ y = 120) /\ base = asked /\ first = p
  BY <1>1 DEF Prefixed
<1>4. CASE asked \in {0, 16} /\ x = 48 /\ y = 120 /\ base = 16 /\ first = p + 2
  BY ONLY <1>2, <1>4
<1>5. CASE asked = 0 /\ x = 48 /\ y # 120 /\ base = 8 /\ first = p + 1
  BY ONLY <1>2, <1>5
<1>6. CASE asked = 0 /\ x # 48 /\ base = 10 /\ first = p
  BY ONLY <1>2, <1>6
<1>7. CASE asked \in 2..36 /\ ~(asked = 16 /\ x = 48 /\ y = 120) /\ base = asked /\ first = p
  <2>1. asked # 0
    BY <1>7
  <2> QED
    BY ONLY <1>2, <1>7, <2>1
<1> QED
  BY <1>3, <1>4, <1>5, <1>6, <1>7

\* Where a number is that a call reads.
NumberAt(o, m, s, first, base, end, v, q) ==
  /\ s \in Nat /\ first \in Nat /\ base \in 2..36 /\ end \in Nat /\ v \in Nat /\ q \in Nat
  /\ end = o.end /\ v = (IF m[s] = 45 THEN -o.value ELSE o.value)
  /\ q = (IF m[s] \in {43, 45} THEN s + 1 ELSE s)
  /\ o.src \in 0..s /\ m[s] \notin {32, 9} /\ (\A p \in o.src..s-1 : m[p] \in {32, 9})
  /\ Prefixed(m, q, o.base, base, first)
  /\ first <= end /\ DigitValue(m[end]) >= base
  /\ o.value \in Int /\ Numeral(m, end, end - first, base, v)

LEMMA StrtolReads ==
  ASSUME StrInv, strtol
  PROVE  StrtolReadsBack'
<1>1. Legal(op) /\ mem = op.mem /\ op.f = "strtol" /\ op' = op
  BY DEF StrInv, strtol, Calling, Returns
<1>2. PICK o, m : o = op /\ m = mem
  OBVIOUS
<1>3. WritesNumber(o) /\ o.mem = m
  BY ONLY <1>1, <1>2 DEF Legal
<1>4. DOMAIN m \subseteq Nat
  <2>1. m \in [0..Max(DOMAIN m) -> 0..255] /\ Max(DOMAIN m) \in Nat
    BY ONLY <1>1, <1>2 DEF Legal
  <2> QED
    BY ONLY <2>1
<1>5. PICK s, first, base, end, v, q : NumberAt(o, m, s, first, base, end, v, q)
  <2>1. PICK s \in DOMAIN m, first \in DOMAIN m, base \in 2..36 :
          LET v == IF m[s] = 45 THEN -o.value ELSE o.value
          IN /\ o.src \in 0..s /\ m[s] \notin {32, 9} /\ \A p \in o.src..s-1 : m[p] \in {32, 9}
             /\ Prefixed(m, IF m[s] \in {43, 45} THEN s + 1 ELSE s, o.base, base, first)
             /\ o.end \in DOMAIN m /\ first <= o.end /\ DigitValue(m[o.end]) >= base
             /\ o.value \in Int /\ v \in 0..LONG_MAX /\ Numeral(m, o.end, o.end - first, base, v)
    BY ONLY <1>3, SMTT(30) DEF WritesNumber
  <2>2. PICK v, q, end : /\ v = (IF m[s] = 45 THEN -o.value ELSE o.value)
                         /\ q = (IF m[s] \in {43, 45} THEN s + 1 ELSE s) /\ end = o.end
    OBVIOUS
  <2>3. v \in 0..LONG_MAX /\ Numeral(m, end, end - first, base, v) /\ end \in DOMAIN m
    BY ONLY <2>1, <2>2
  <2>4. s \in Nat /\ first \in Nat /\ end \in Nat /\ v \in Nat
    BY ONLY <1>4, <2>3, s \in DOMAIN m, first \in DOMAIN m
  <2>5. q \in Nat
    BY ONLY <2>2, <2>4
  <2>6. /\ o.src \in 0..s /\ m[s] \notin {32, 9} /\ (\A p \in o.src..s-1 : m[p] \in {32, 9})
        /\ o.value \in Int
        /\ Prefixed(m, q, o.base, base, first)
        /\ first <= end /\ DigitValue(m[end]) >= base
    BY ONLY <2>1, <2>2
  <2> QED
    <3>1. NumberAt(o, m, s, first, base, end, v, q)
      BY ONLY <2>2, <2>3, <2>4, <2>5, <2>6, base \in 2..36 DEF NumberAt
    <3> QED
      BY ONLY <3>1
<1>6. /\ s \in Nat /\ first \in Nat /\ base \in 2..36 /\ end \in Nat /\ v \in Nat /\ q \in Nat
       /\ end = o.end /\ v = (IF m[s] = 45 THEN -o.value ELSE o.value)
       /\ q = (IF m[s] \in {43, 45} THEN s + 1 ELSE s)
       /\ o.src \in 0..s /\ m[s] \notin {32, 9} /\ (\A p \in o.src..s-1 : m[p] \in {32, 9})
       /\ Prefixed(m, q, o.base, base, first)
       /\ first <= end /\ DigitValue(m[end]) >= base
       /\ o.value \in Int /\ Numeral(m, end, end - first, base, v)
  BY ONLY <1>5 DEF NumberAt
<1>7. PICK n \in Nat : n = end - first /\ end = first + n
  BY <1>6
<1>8. PICK left : IsNumeral(left, m, first + n, n, base, v)
  <2>1. Numeral(m, first + n, n, base, v)
    BY ONLY <1>6, <1>7
  <2>2. base \in 2..36 /\ v \in Nat
    BY <1>6
  <2> QED
    BY ONLY <2>1, <2>2, NumeralIs, n \in Nat
<1>9. First(o.src, {p \in Nat : m[p] \notin {32, 9}}) = s
  <2>1. PICK S : S = {p \in Nat : m[p] \notin {32, 9}}
    OBVIOUS
  <2>2. PICK src \in Nat : src = o.src /\ src <= s
    BY <1>6
  <2>3. S \in SUBSET Nat /\ s \in S /\ \A k \in src..s-1 : k \notin S
    BY ONLY <1>6, <2>1, <2>2
  <2>4. First(src, S) = s
    BY ONLY <2>2, <2>3, FirstIs
  <2> QED
    BY ONLY <2>1, <2>2, <2>4
<1>10. Prefix(m, q, o.base) = <<first, base>>
  <2>1. Prefixed(m, q, o.base, base, first)
    BY ONLY <1>6
  <2> QED
    BY ONLY <2>1, BaseIs
<1>11. First(first, {p \in Nat : DigitValue(m[p]) >= base}) = end
  <2>1. PICK S : S = {p \in Nat : DigitValue(m[p]) >= base}
    OBVIOUS
  <2>2. S \in SUBSET Nat /\ end \in S /\ first <= end
    BY ONLY <1>6, <2>1
  <2>3. ASSUME NEW p \in first..end-1 PROVE p \notin S
    <3>1. PICK k \in Nat : k = end - p
      BY <1>6
    <3>2. k \in 1..n /\ (first + n) - k = p /\ k - 1 \in 0..n
      BY <1>7, <1>6, <3>1
    <3>3. DigitValue(m[p]) = left[k - 1] % base /\ left[k - 1] \in Nat
      BY ONLY <1>8, <3>2 DEF IsNumeral
    <3>4. PICK x \in Nat : x = left[k - 1]
      BY <3>3
    <3>5. x % base < base
      BY <1>6
    <3>6. PICK d \in Int : d = x % base
      BY <1>6
    <3>7. ~(DigitValue(m[p]) >= base)
      BY ONLY <3>3, <3>4, <3>5, <3>6, <1>6
    <3> QED
      BY ONLY <2>1, <3>7
  <2>4. First(first, S) = end
    BY ONLY <2>2, <2>3, FirstIs, <1>6
  <2> QED
    BY ONLY <2>1, <2>4
<1>12. ReadDigits(m, first, n, base) = v
  <2> DEFINE val == CHOOSE f : f = [k \in 0..n |-> IF k = 0 THEN 0
                                      ELSE f[k - 1] * base + DigitValue(m[first + k - 1])]
  <2>1. ReadDigits(m, first, n, base) = val[n]
    BY DEF ReadDigits
  <2>2. IsValue(val, m, first, n, base)
    <3>1. first \in Nat /\ base \in 2..36
      BY <1>6
    <3>2. PICK f : IsValue(f, m, first, n, base)
      BY ONLY <3>1, ValueExists, n \in Nat
    <3> QED
      BY ONLY <3>2 DEF IsValue
  <2> HIDE DEF val
  <2>3. val[n] = v
    <3>1. first \in Nat /\ base \in 2..36
      BY <1>6
    <3> QED
      BY ONLY <1>8, <2>2, <3>1, ReadsNumeral, n \in Nat
  <2> QED
    BY ONLY <2>1, <2>3
<1>13. res' = [val |-> IF m[s] = 45 THEN -v ELSE v, end |-> end]
  <2>1. PICK start : start = <<first, base>>
    OBVIOUS
  <2>2. start[1] = first /\ start[2] = base
    BY ONLY <2>1
  <2>3. res' = [val |-> IF m[s] = 45 THEN -ReadDigits(m, start[1], end - start[1], start[2])
                        ELSE ReadDigits(m, start[1], end - start[1], start[2]), end |-> end]
    <3> DEFINE s0 == First(op.src, {p \in Nat : mem[p] \notin {32, 9}})
               start0 == Prefix(mem, IF mem[s0] \in {43, 45} THEN s0 + 1 ELSE s0, op.base)
               end0 == First(start0[1], {p \in Nat : DigitValue(mem[p]) >= start0[2]})
               val0 == ReadDigits(mem, start0[1], end0 - start0[1], start0[2])
    <3>1. Returns(mem, IF mem[s0] = 45 THEN -val0 ELSE val0, end0)
      BY ONLY strtol, Zenon DEF strtol
    <3>2. s0 = s
      BY ONLY <1>2, <1>9
    <3>3. start0 = start
      <4>1. q = (IF m[s] \in {43, 45} THEN s + 1 ELSE s)
        BY <1>6
      <4> QED
        BY ONLY <1>2, <1>10, <2>1, <3>2, <4>1
    <3>4. end0 = end
      BY ONLY <1>2, <1>11, <2>2, <3>3
    <3>5. res' = [val |-> IF mem[s0] = 45 THEN -val0 ELSE val0, end |-> end0]
      BY ONLY <3>1 DEF Returns
    <3> HIDE DEF s0, start0, end0
    <3> QED
      BY ONLY <1>2, <3>1, <3>2, <3>3, <3>4, <3>5
  <2> QED
    BY ONLY <1>7, <1>12, <2>2, <2>3
<1>14. o.value = IF m[s] = 45 THEN -v ELSE v
  <2>1. o.value \in Int
    BY <1>6
  <2> QED
    BY <1>6, <2>1
<1> QED
  BY <1>1, <1>2, <1>6, <1>13, <1>14 DEF StrtolReadsBack

\* For every text that begins with a number as C writes it, in any base, after
\* spaces and a sign and with or without its prefix, strtol (lib/string.c) returns
\* the number and the place behind its last digit.
THEOREM StrtolReadsBackCorrect == LibSpec => []StrtolReadsBack
<1>1. LibInit => StrtolReadsBack
  <2>1. LibInit => str_at = "call"
    BY DEF LibInit, StrInit
  <2> QED
    BY <2>1 DEF StrtolReadsBack, Done
<1>2. ASSUME StrInv, StrtolReadsBack, [LibNext]_libVars PROVE StrtolReadsBack'
  <2>1. CASE StrNext
    <3>1. CASE strtol
      BY <1>2, <3>1, StrtolReads
    <3>2. CASE memset \/ memmove \/ RepUnit
      <4>1. op' = op /\ (op.f # "strtol" \/ str_at' = "rep")
        BY <3>2 DEF memset, memmove, RepUnit, Calling, Rep, Returns
      <4> QED
        BY <4>1 DEF StrtolReadsBack, Done
    <3>3. CASE RepEnd
      <4>1. IsBlock /\ op' = op
        BY <1>2, <3>3 DEF StrInv, RepEnd
      <4> QED
        BY <4>1 DEF IsBlock, StrtolReadsBack, Done
    <3>4. CASE strcpy \/ strcat \/ strncpy \/ strlcpy
      <4>1. op' = op /\ op.f # "strtol"
        BY <3>4 DEF strcpy, strcat, strncpy, strlcpy, Calling, Returns
      <4> QED
        BY <4>1 DEF StrtolReadsBack, Done
    <3>5. CASE strlen \/ strcmp \/ strncmp \/ memcmp \/ strchr \/ strfind \/ memfind \/ strstr
      <4>1. op' = op /\ op.f # "strtol"
        BY <3>5 DEF strlen, strcmp, strncmp, memcmp, strchr, strfind, memfind, strstr, Calling, Returns
      <4> QED
        BY <4>1 DEF StrtolReadsBack, Done
    <3> QED
      BY <2>1, <3>1, <3>2, <3>3, <3>4, <3>5 DEF StrNext
  <2>2. CASE UNCHANGED strVars
    BY <1>2, <2>2 DEF StrtolReadsBack, Done, strVars
  <2> QED
    BY <1>2, <2>1, <2>2 DEF LibNext, libVars
<1> QED
  BY <1>1, <1>2, StrInvHolds, PTL DEF LibSpec
-----------------------------------------------------------------------------
(* snprintf: the digits of a number, and the text that printnum makes of them. *)

\* What is left of v after each division.
IsLeft(left, v, base) ==
  /\ left \in [0..v+1 -> Nat] /\ left[0] = v
  /\ \A k \in 1..v+1 : left[k] = left[k - 1] \div base

\* The digits of v are n, taken from what is left.
DigitsFrom(left, n, v, base) ==
  /\ IsLeft(left, v, base) /\ n \in 1..v+1 /\ left[n] = 0
  /\ \A k \in 1..n-1 : left[k] # 0
  /\ Digits(v, base) = [k \in 1..n |-> Digit(left[n - k] % base)]

LEMMA LeftExists ==
  ASSUME NEW v \in Nat, NEW base \in Bases
  PROVE  \E left : /\ IsLeft(left, v, base)
                   /\ left = [k \in 0..v+1 |-> IF k = 0 THEN v ELSE left[k - 1] \div base]
<1> DEFINE N == v + 1
           st == [k \in 1..N |-> [x \in Nat |-> x \div base]]
<1>1. N \in Nat
  OBVIOUS
<1>2. st \in [1..N -> [Nat -> Nat]]
  <2>1. \A x \in Nat : x \div base \in Nat
    BY DivideIs
  <2> QED
    BY <2>1
<1> HIDE DEF N
<1>3. PICK g \in [0..N -> Nat] : g = [k \in 0..N |-> IF k = 0 THEN v ELSE st[k][g[k - 1]]]
  <2> HIDE DEF st
  <2>1. Steps(N, v, st)
    BY ONLY <1>1, <1>2, StepsExist, v \in Nat
  <2> QED
    BY ONLY <2>1 DEF Steps
<1>4. ASSUME NEW k \in 0..N, k # 0 PROVE st[k][g[k - 1]] = g[k - 1] \div base
  <2>1. k \in 1..N /\ k - 1 \in 0..N
    BY <1>1, <1>4
  <2>2. g[k - 1] \in Nat
    BY <2>1
  <2> QED
    BY ONLY <2>1, <2>2
<1> HIDE DEF st
<1>5. g = [k \in 0..N |-> IF k = 0 THEN v ELSE g[k - 1] \div base]
  BY ONLY <1>3, <1>4
<1>6. g[0] = v /\ \A k \in 1..N : g[k] = g[k - 1] \div base
  <2>1. 0 \in 0..N /\ \A k \in 1..N : k \in 0..N /\ k # 0
    BY <1>1
  <2> QED
    BY ONLY <1>5, <2>1
<1>7. IsLeft(g, v, base)
  BY <1>6 DEF IsLeft, N
<1> QED
  BY ONLY <1>5, <1>7 DEF N

\* Once nothing is left, nothing is.
LEMMA LeftStays ==
  ASSUME NEW v \in Nat, NEW base \in Bases, NEW left, IsLeft(left, v, base),
         NEW j \in Nat, NEW i \in Nat, j + i <= v + 1, left[j] = 0
  PROVE  left[j + i] = 0
<1> DEFINE D == {d \in Nat : j + d <= v + 1 => left[j + d] = 0}
<1>1. 0 \in D
  BY j + 0 = j
<1>2. ASSUME NEW d \in D PROVE d + 1 \in D
  <2> SUFFICES ASSUME j + (d + 1) <= v + 1 PROVE left[j + (d + 1)] = 0
    OBVIOUS
  <2>1. PICK k \in Nat : k = j + (d + 1)
    OBVIOUS
  <2>2. k \in 1..v+1 /\ k - 1 = j + d
    BY <2>1
  <2>3. left[k] = left[k - 1] \div base
    BY ONLY <2>2, IsLeft(left, v, base) DEF IsLeft
  <2>4. left[k - 1] = 0
    BY <2>2
  <2>5. 0 \div base = 0
    BY DEF Bases
  <2> QED
    BY ONLY <2>1, <2>3, <2>4, <2>5
<1>3. D = Nat
  <2>1. D \in SUBSET Nat
    OBVIOUS
  <2> HIDE DEF D
  <2> QED
    BY ONLY <1>1, <1>2, <2>1, AllNat
<1> QED
  BY <1>3

\* Nothing is left in the end.
LEMMA LeftEnds ==
  ASSUME NEW v \in Nat, NEW base \in Bases, NEW left, IsLeft(left, v, base)
  PROVE  left[v + 1] = 0
<1> DEFINE D == {k \in Nat : k <= v + 1 => left[k] = 0 \/ left[k] + k <= v}
<1>1. 0 \in D
  BY DEF IsLeft
<1>2. ASSUME NEW k \in D PROVE k + 1 \in D
  <2> SUFFICES ASSUME k + 1 <= v + 1 PROVE left[k + 1] = 0 \/ left[k + 1] + (k + 1) <= v
    OBVIOUS
  <2>1. PICK h \in Nat : h = k + 1
    OBVIOUS
  <2>2. h \in 1..v+1 /\ h - 1 = k /\ k \in 0..v+1
    BY <2>1
  <2>3. left[h] = left[k] \div base /\ left[k] \in Nat
    BY ONLY <2>2, IsLeft(left, v, base) DEF IsLeft
  <2>4. PICK x \in Nat : x = left[k]
    BY <2>3
  <2>5. PICK y : y = x \div base
    OBVIOUS
  <2>6. y \in Nat /\ y <= x /\ (x > 0 => y < x)
    BY ONLY <2>5, DivideIs, x \in Nat, base \in Bases
  <2>7. x = 0 \/ x + k <= v
    BY <2>2, <2>4
  <2>8. y = 0 \/ y + h <= v
    BY ONLY <2>1, <2>6, <2>7, x \in Nat, k \in Nat, v \in Nat
  <2> QED
    BY ONLY <2>1, <2>3, <2>4, <2>5, <2>8
<1>3. D = Nat
  <2>1. D \in SUBSET Nat
    OBVIOUS
  <2> HIDE DEF D
  <2> QED
    BY ONLY <1>1, <1>2, <2>1, AllNat
<1>4. v + 1 \in D
  BY <1>3
<1>5. left[v + 1] \in Nat
  BY DEF IsLeft
<1> QED
  BY <1>4, <1>5

LEMMA DigitsExist ==
  ASSUME NEW v \in Nat, NEW base \in Bases
  PROVE  \E left, n : DigitsFrom(left, n, v, base)
<1> DEFINE left == CHOOSE f : f = [k \in 0..v+1 |-> IF k = 0 THEN v ELSE f[k - 1] \div base]
           Lowest(k) == left[k] = 0 /\ (k > 1 => left[k - 1] # 0)
           n == CHOOSE k \in 1..v+1 : Lowest(k)
<1>1. Digits(v, base) = [k \in 1..n |-> Digit(left[n - k] % base)]
  BY DEF Digits
<1>2. IsLeft(left, v, base)
  <2>3. PICK g : /\ IsLeft(g, v, base)
                 /\ g = [k \in 0..v+1 |-> IF k = 0 THEN v ELSE g[k - 1] \div base]
    BY ONLY LeftExists, v \in Nat, base \in Bases
  <2>2. left = [k \in 0..v+1 |-> IF k = 0 THEN v ELSE left[k - 1] \div base]
    <3>1. g = [k \in 0..v+1 |-> IF k = 0 THEN v ELSE g[k - 1] \div base]
      BY ONLY <2>3
    <3> QED
      BY ONLY <3>1
  <2> HIDE DEF left
  <2>4. g \in [0..v+1 -> Nat] /\ g[0] = v /\ \A k \in 1..v+1 : g[k] = g[k - 1] \div base
    BY ONLY <2>3 DEF IsLeft
  <2>5. left[0] = v /\ \A k \in 1..v+1 : left[k] = left[k - 1] \div base
    <3>1. 0 \in 0..v+1 /\ \A k \in 1..v+1 : k \in 0..v+1 /\ k # 0
      OBVIOUS
    <3> QED
      BY ONLY <2>2, <3>1
  <2> DEFINE D == {k \in Nat : k <= v + 1 => left[k] = g[k]}
  <2>6. 0 \in D
    BY <2>4, <2>5
  <2>7. ASSUME NEW k \in D PROVE k + 1 \in D
    <3> SUFFICES ASSUME k + 1 <= v + 1 PROVE left[k + 1] = g[k + 1]
      OBVIOUS
    <3>1. PICK h \in Nat : h = k + 1
      OBVIOUS
    <3>2. h \in 1..v+1 /\ h - 1 = k /\ k <= v + 1
      BY <3>1
    <3>3. left[k] = g[k]
      BY <3>2
    <3> QED
      BY ONLY <2>4, <2>5, <3>1, <3>2, <3>3
  <2>8. D = Nat
    <3>1. D \in SUBSET Nat
      OBVIOUS
    <3> HIDE DEF D
    <3> QED
      BY ONLY <2>6, <2>7, <3>1, AllNat
  <2>9. \A k \in 0..v+1 : left[k] = g[k]
    <3>1. \A k \in 0..v+1 : k \in Nat /\ k <= v + 1
      OBVIOUS
    <3> QED
      BY <2>8, <3>1
  <2>10. left = g
    BY ONLY <2>2, <2>4, <2>9
  <2> QED
    BY ONLY <2>3, <2>10
<1> HIDE DEF left
<1>3. left \in [0..v+1 -> Nat]
  BY <1>2 DEF IsLeft
<1>4. \E k \in 1..v+1 : Lowest(k)
  <2> DEFINE D == {k \in Nat : k >= 1 /\ k <= v + 1 /\ left[k] = 0}
  <2>1. v + 1 \in D /\ D \in SUBSET Nat
    BY <1>2, LeftEnds
  <2>2. PICK k \in D : \A j \in D : k <= j
    <3> HIDE DEF D
    <3> QED
      BY ONLY <2>1, LeastNat
  <2>3. k \in 1..v+1 /\ left[k] = 0
    OBVIOUS
  <2>4. k > 1 => left[k - 1] # 0
    <3>1. k > 1 => ~(k <= k - 1) /\ k - 1 \in Nat /\ k - 1 >= 1 /\ k - 1 <= v + 1
      BY <2>3
    <3> QED
      BY <2>2, <3>1
  <2> QED
    BY ONLY <2>3, <2>4
<1>5. n \in 1..v+1 /\ Lowest(n)
  <2>1. PICK m : m = n
    OBVIOUS
  <2>2. m \in 1..v+1 /\ Lowest(m)
    BY ONLY <1>4, <2>1
  <2> QED
    BY ONLY <2>1, <2>2
<1> HIDE DEF n
<1>6. ASSUME NEW k \in 1..n-1 PROVE left[k] # 0
  <2>1. PICK i \in Nat : i = (n - 1) - k
    BY <1>5
  <2>2. k \in Nat /\ k + i = n - 1 /\ k + i <= v + 1 /\ n > 1
    BY <1>5, <2>1
  <2>3. left[k] = 0 => left[k + i] = 0
    BY ONLY <1>2, <2>2, LeftStays, v \in Nat, base \in Bases, i \in Nat
  <2> QED
    BY <1>5, <2>2, <2>3
<1>7. DigitsFrom(left, n, v, base)
  BY <1>1, <1>2, <1>5, <1>6 DEF DigitsFrom
<1> QED
  BY <1>7

\* Every character of a text.
Glyphs == STRING \cup {"0", "1", "2", "3", "4", "5", "6", "7", "8", "9", "a", "b", "c", "d", "e", "f",
                       " ", "-", "#", "*", ".", "%", "?", "(", ")", "l", "m", "n", "o", "r", "u", "x",
                       "NUL"}

LEMMA DivideMore ==
  ASSUME NEW v \in Nat, NEW base \in Bases
  PROVE  /\ v < base => v \div base = 0 /\ v % base = v
         /\ v >= base => v \div base # 0
<1>1. CASE base = 8
  BY <1>1
<1>2. CASE base = 10
  BY <1>2
<1>3. CASE base = 16
  BY <1>3
<1> QED
  BY <1>1, <1>2, <1>3 DEF Bases

LEMMA DigitString == ASSUME NEW d \in 0..15 PROVE Digit(d) \in Glyphs
<1>1. /\ Digit(0) = "0" /\ Digit(1) = "1" /\ Digit(2) = "2" /\ Digit(3) = "3"
      /\ Digit(4) = "4" /\ Digit(5) = "5" /\ Digit(6) = "6" /\ Digit(7) = "7"
      /\ Digit(8) = "8" /\ Digit(9) = "9" /\ Digit(10) = "a" /\ Digit(11) = "b"
      /\ Digit(12) = "c" /\ Digit(13) = "d" /\ Digit(14) = "e" /\ Digit(15) = "f"
  BY DEF Digit, DigitOf
<1>2. d \in {0, 1, 2, 3, 4, 5, 6, 7, 8, 9, 10, 11, 12, 13, 14, 15}
  OBVIOUS
<1>3. \A x \in {"0", "1", "2", "3", "4", "5", "6", "7", "8", "9", "a", "b", "c", "d", "e", "f"} :
        x \in Glyphs
  BY DEF Glyphs
<1> QED
  BY ONLY <1>1, <1>2, <1>3

LEMMA DigitsAre ==
  ASSUME NEW v \in Nat, NEW base \in Bases, NEW left, NEW n, DigitsFrom(left, n, v, base)
  PROVE  /\ Digits(v, base) \in Seq(Glyphs) /\ Len(Digits(v, base)) = n /\ n \in Nat \ {0}
         /\ \A k \in 1..n : /\ Digits(v, base)[k] = Digit(left[n - k] % base)
                            /\ left[n - k] \in Nat /\ n - k \in 0..n-1
<1>1. n \in 1..v+1 /\ left \in [0..v+1 -> Nat]
  BY DEF DigitsFrom, IsLeft
<1>2. \A k \in 1..n : left[n - k] \in Nat /\ n - k \in 0..n-1
  <2>1. \A k \in 1..n : n - k \in 0..v+1 /\ n - k \in 0..n-1
    BY <1>1
  <2> QED
    BY ONLY <1>1, <2>1
<1>3. ASSUME NEW k \in 1..n PROVE Digit(left[n - k] % base) \in Glyphs
  <2>1. PICK x \in Nat : x = left[n - k]
    BY <1>2
  <2>2. x % base \in 0..base-1
    BY ONLY DivideIs, x \in Nat, base \in Bases
  <2>3. \A y \in 0..base-1 : y \in 0..15
    BY DEF Bases
  <2> QED
    BY ONLY <2>1, <2>2, <2>3, DigitString
<1>4. Digits(v, base) = [k \in 1..n |-> Digit(left[n - k] % base)]
  BY DEF DigitsFrom
<1>5. PICK s : s = [k \in 1..n |-> Digit(left[n - k] % base)]
  OBVIOUS
<1>6. s \in [1..n -> Glyphs] /\ n \in Nat
  BY ONLY <1>1, <1>3, <1>5
<1>7. s \in Seq(Glyphs) /\ Len(s) = n
  BY ONLY <1>6
<1> QED
  BY ONLY <1>1, <1>2, <1>4, <1>5, <1>7

\* The last digit, and those of the rest.
LEMMA DigitsStep ==
  ASSUME NEW v \in Nat, NEW base \in Bases
  PROVE  /\ v < base => Digits(v, base) = <<Digit(v)>>
         /\ v >= base => Digits(v, base) = Append(Digits(v \div base, base), Digit(v % base))
<1>1. PICK left, n : DigitsFrom(left, n, v, base)
  BY DigitsExist
<1>2. /\ Digits(v, base) \in Seq(Glyphs) /\ Len(Digits(v, base)) = n /\ n \in Nat \ {0}
      /\ \A k \in 1..n : Digits(v, base)[k] = Digit(left[n - k] % base)
  BY ONLY <1>1, DigitsAre, v \in Nat, base \in Bases
<1>3. /\ left[0] = v /\ (\A k \in 1..v+1 : left[k] = left[k - 1] \div base)
      /\ n \in 1..v+1 /\ left[n] = 0 /\ \A k \in 1..n-1 : left[k] # 0
  BY <1>1 DEF DigitsFrom, IsLeft
<1>4. PICK q : q = v \div base
  OBVIOUS
<1>5. q \in Nat /\ (v > 0 => q < v) /\ (v < base => q = 0 /\ v % base = v) /\ (v >= base => q # 0)
  BY ONLY <1>4, DivideIs, DivideMore, v \in Nat, base \in Bases
<1>6. left[1] = q
  <2>1. 1 \in 1..v+1 /\ 1 - 1 = 0
    OBVIOUS
  <2> QED
    BY ONLY <1>3, <1>4, <2>1
<1>7. CASE v < base
  <2>1. n = 1
    <3>1. left[1] = 0
      BY ONLY <1>5, <1>6, <1>7
    <3>2. 1 \notin 1..n-1
      BY ONLY <1>3, <3>1
    <3> QED
      BY ONLY <1>2, <3>2
  <2>2. Digits(v, base)[1] = Digit(v)
    <3>1. 1 \in 1..n /\ n - 1 = 0
      BY ONLY <2>1
    <3> QED
      BY ONLY <1>2, <1>3, <1>5, <1>7, <3>1
  <2>3. PICK s : s = Digits(v, base)
    OBVIOUS
  <2>4. s = <<Digit(v)>>
    BY ONLY <1>2, <2>1, <2>2, <2>3
  <2>5. ~(v >= base)
    BY <1>7 DEF Bases
  <2> QED
    BY ONLY <2>3, <2>4, <2>5
<1>8. CASE v >= base
  <2>1. PICK rest, m : DigitsFrom(rest, m, q, base)
    BY ONLY <1>5, DigitsExist, base \in Bases
  <2>2. /\ Digits(q, base) \in Seq(Glyphs) /\ Len(Digits(q, base)) = m /\ m \in Nat \ {0}
        /\ \A k \in 1..m : Digits(q, base)[k] = Digit(rest[m - k] % base)
    BY ONLY <1>5, <2>1, DigitsAre, base \in Bases
  <2>3. /\ rest[0] = q /\ (\A k \in 1..q+1 : rest[k] = rest[k - 1] \div base)
        /\ m \in 1..q+1 /\ rest[m] = 0 /\ \A k \in 1..m-1 : rest[k] # 0
    BY ONLY <2>1 DEF DigitsFrom, IsLeft
  <2>4. q # 0 /\ q < v
    BY <1>5, <1>8 DEF Bases
  <2> DEFINE D == {k \in Nat : k <= q + 1 => left[k + 1] = rest[k]}
  <2>5. 0 \in D
    BY ONLY <1>6, <2>3, 0 + 1 = 1
  <2>6. ASSUME NEW k \in D PROVE k + 1 \in D
    <3> SUFFICES ASSUME k + 1 <= q + 1 PROVE left[(k + 1) + 1] = rest[k + 1]
      OBVIOUS
    <3>1. PICK h \in Nat : h = k + 1
      OBVIOUS
    <3>2. h \in 1..q+1 /\ h - 1 = k /\ h + 1 \in 1..v+1 /\ (h + 1) - 1 = h /\ k <= q + 1
      BY <1>5, <2>4, <3>1
    <3>3. left[h] = rest[k]
      BY <3>1, <3>2
    <3>4. left[h + 1] = left[h] \div base
      BY ONLY <1>3, <3>2
    <3>5. rest[h] = rest[k] \div base
      BY ONLY <2>3, <3>2
    <3> QED
      BY ONLY <3>1, <3>3, <3>4, <3>5
  <2>7. D = Nat
    <3>1. D \in SUBSET Nat
      OBVIOUS
    <3> HIDE DEF D
    <3> QED
      BY ONLY <2>5, <2>6, <3>1, AllNat
  <2>8. \A k \in 0..q+1 : left[k + 1] = rest[k]
    <3>1. \A k \in 0..q+1 : k \in Nat /\ k <= q + 1
      BY <1>5
    <3> QED
      BY <2>7, <3>1
  <2> HIDE DEF D
  <2>9. n = m + 1
    <3>1. left[m + 1] = 0 /\ m + 1 \in Nat
      <4>1. m \in 0..q+1
        BY ONLY <2>3, <1>5
      <4> QED
        BY ONLY <2>2, <2>3, <2>8, <4>1
    <3>2. m + 1 \notin 1..n-1
      BY ONLY <1>3, <3>1
    <3>3. n # 1
      <4>1. left[1] # 0
        BY ONLY <1>6, <2>4
      <4> QED
        BY ONLY <1>3, <4>1
    <3>4. ASSUME n - 1 < m PROVE FALSE
      <4>1. PICK k \in Nat : k = n - 1
        BY ONLY <1>2
      <4>2. k \in 1..m-1 /\ k \in 0..q+1 /\ k + 1 = n
        BY ONLY <1>2, <1>5, <2>2, <2>3, <3>3, <3>4, <4>1
      <4>3. left[k + 1] = rest[k]
        BY ONLY <2>8, <4>2
      <4> QED
        BY ONLY <1>3, <2>3, <4>2, <4>3
    <3> QED
      BY ONLY <1>2, <2>2, <3>2, <3>4
  <2>10. PICK s, t, x : s = Digits(v, base) /\ t = Digits(q, base) /\ x = Digit(v % base)
    OBVIOUS
  <2>11. ASSUME NEW k \in 1..m PROVE s[k] = t[k]
    <3>1. PICK j \in Nat : j = m - k
      BY <2>2
    <3>2. k \in 1..n /\ n - k = j + 1 /\ j \in 0..q+1
      BY ONLY <1>5, <2>2, <2>3, <2>9, <3>1, k \in 1..m
    <3>3. left[j + 1] = rest[j]
      BY ONLY <2>8, <3>2
    <3>4. s[k] = Digit(left[n - k] % base) /\ t[k] = Digit(rest[m - k] % base)
      BY ONLY <1>2, <2>2, <2>10, <3>2, k \in 1..m
    <3> QED
      BY ONLY <3>1, <3>2, <3>3, <3>4
  <2>12. s[n] = x
    <3>1. n \in 1..n /\ n - n = 0
      BY <1>2
    <3>2. s[n] = Digit(left[n - n] % base)
      BY ONLY <1>2, <2>10, <3>1
    <3> QED
      BY ONLY <1>3, <2>10, <3>1, <3>2
  <2>13. s \in Seq(Glyphs) /\ Len(s) = m + 1 /\ t \in Seq(Glyphs) /\ Len(t) = m
    BY ONLY <1>2, <2>2, <2>9, <2>10
  <2>14. x \in Glyphs
    <3>1. s[n] \in Glyphs
      BY ONLY <1>2, <2>9, <2>13
    <3> QED
      BY ONLY <2>12, <3>1
  <2>15. s = Append(t, x)
    <3>1. Append(t, x) \in Seq(Glyphs) /\ Len(Append(t, x)) = m + 1 /\ Append(t, x)[m + 1] = x
          /\ \A k \in 1..m : Append(t, x)[k] = t[k]
      <4>1. Append(t, x) \in Seq(Glyphs) /\ Len(Append(t, x)) = Len(t) + 1
            /\ Append(t, x)[Len(t) + 1] = x /\ \A k \in 1..Len(t) : Append(t, x)[k] = t[k]
        BY ONLY <2>13, <2>14
      <4> QED
        BY ONLY <2>13, <4>1
    <3>2. PICK u : u = Append(t, x)
      OBVIOUS
    <3>3. \A k \in 1..m+1 : s[k] = u[k]
      BY ONLY <2>9, <2>11, <2>12, <2>2, <3>1, <3>2
    <3>4. s = u
      BY ONLY <2>13, <3>1, <3>2, <3>3
    <3> QED
      BY ONLY <3>2, <3>4
  <2>16. ~(v < base)
    BY <1>8 DEF Bases
  <2> QED
    BY ONLY <1>4, <2>10, <2>15, <2>16
<1>9. v < base \/ v >= base
  BY DEF Bases
<1> QED
  BY <1>7, <1>8, <1>9

LEMMA DigitsText ==
  ASSUME NEW v \in Nat, NEW base \in Bases
  PROVE  Digits(v, base) \in Seq(Glyphs) /\ Len(Digits(v, base)) \in Nat \ {0}
<1>1. PICK left, n : DigitsFrom(left, n, v, base)
  BY DigitsExist
<1> QED
  BY ONLY <1>1, DigitsAre, v \in Nat, base \in Bases

LEMMA PadText ==
  ASSUME NEW n \in Int, NEW c \in Glyphs
  PROVE  /\ Pad(n, c) \in Seq(Glyphs) /\ Len(Pad(n, c)) = IF n > 0 THEN n ELSE 0
         /\ \A k \in 1..Len(Pad(n, c)) : Pad(n, c)[k] = c
         /\ n <= 0 => Pad(n, c) = << >>
<1>1. PICK m \in Nat : m = IF n > 0 THEN n ELSE 0
  OBVIOUS
<1>2. Pad(n, c) = [i \in 1..m |-> c]
  BY <1>1 DEF Pad
<1>3. PICK p : p = [i \in 1..m |-> c]
  OBVIOUS
<1>4. p \in [1..m -> Glyphs] /\ \A k \in 1..m : p[k] = c
  BY <1>3
<1>5. p \in Seq(Glyphs) /\ Len(p) = m
  BY ONLY <1>4, m \in Nat
<1>6. m = 0 => p = << >>
  BY ONLY <1>5
<1>7. Pad(n, c) = p
  BY ONLY <1>2, <1>3
<1>8. n <= 0 => m = 0
  BY ONLY <1>1, n \in Int
<1> QED
  BY ONLY <1>1, <1>4, <1>5, <1>6, <1>7, <1>8

LEMMA SameSeq ==
  ASSUME NEW S, NEW s \in Seq(S), NEW t \in Seq(S), Len(s) = Len(t),
         \A k \in 1..Len(s) : s[k] = t[k]
  PROVE  s = t
OBVIOUS

LEMMA AppendJoin ==
  ASSUME NEW s \in Seq(Glyphs), NEW t \in Seq(Glyphs), NEW x \in Glyphs
  PROVE  Append(s \o t, x) = s \o Append(t, x)
<1>1. PICK a, w, u : a = s \o t /\ w = Append(a, x) /\ u = Append(t, x)
  OBVIOUS
<1>2. PICK m \in Nat, n \in Nat : m = Len(s) /\ n = Len(t)
  OBVIOUS
<1>3. /\ a \in Seq(Glyphs) /\ Len(a) = m + n
      /\ (\A k \in 1..m : a[k] = s[k]) /\ \A k \in 1..n : a[m + k] = t[k]
  BY ONLY <1>1, <1>2, s \in Seq(Glyphs), t \in Seq(Glyphs)
<1>4. /\ w \in Seq(Glyphs) /\ Len(w) = (m + n) + 1 /\ w[(m + n) + 1] = x
      /\ \A k \in 1..m+n : w[k] = a[k]
  <2>1. PICK z \in Nat : z = m + n
    OBVIOUS
  <2>2. a \in Seq(Glyphs) /\ Len(a) = z /\ w = Append(a, x)
    BY ONLY <1>1, <1>3, <2>1
  <2>3. w \in Seq(Glyphs) /\ Len(w) = z + 1 /\ w[z + 1] = x /\ \A k \in 1..z : w[k] = a[k]
    BY ONLY <2>2, x \in Glyphs, z \in Nat
  <2> QED
    BY ONLY <2>1, <2>3
<1>5. u \in Seq(Glyphs) /\ Len(u) = n + 1 /\ u[n + 1] = x /\ \A k \in 1..n : u[k] = t[k]
  <2>1. Len(t) = n /\ u = Append(t, x)
    BY ONLY <1>1, <1>2
  <2> QED
    BY ONLY <2>1, t \in Seq(Glyphs), x \in Glyphs, n \in Nat
<1>6. PICK c : c = s \o u
  OBVIOUS
<1>7. /\ c \in Seq(Glyphs) /\ Len(c) = m + (n + 1)
      /\ (\A k \in 1..m : c[k] = s[k]) /\ \A k \in 1..n+1 : c[m + k] = u[k]
  <2>1. PICK z \in Nat : z = n + 1
    OBVIOUS
  <2>2. u \in Seq(Glyphs) /\ Len(u) = z /\ Len(s) = m
    BY ONLY <1>2, <1>5, <2>1
  <2>3. /\ c \in Seq(Glyphs) /\ Len(c) = m + z
        /\ (\A k \in 1..m : c[k] = s[k]) /\ \A k \in 1..z : c[m + k] = u[k]
    <3>1. /\ s \o u \in Seq(Glyphs) /\ Len(s \o u) = Len(s) + Len(u)
          /\ (\A k \in 1..Len(s) : (s \o u)[k] = s[k])
          /\ \A k \in 1..Len(u) : (s \o u)[Len(s) + k] = u[k]
      <4>1. u \in Seq(Glyphs)
        BY ONLY <2>2
      <4> QED
        BY ONLY <4>1, s \in Seq(Glyphs)
    <3> QED
      BY ONLY <1>6, <2>2, <3>1
  <2> QED
    BY ONLY <2>1, <2>3
<1>8. ASSUME NEW k \in 1..(m + n) + 1 PROVE w[k] = c[k]
  <2>1. CASE k \in 1..m
    BY ONLY <1>3, <1>4, <1>7, <2>1, m \in Nat, n \in Nat
  <2>2. CASE k \notin 1..m
    <3>1. PICK j \in Nat : j = k - m
      BY <2>2
    <3>2. j \in 1..n+1 /\ k = m + j /\ (j # n + 1 => j \in 1..n /\ k \in 1..m+n)
      BY <2>2, <3>1
    <3>3. CASE j = n + 1
      <4>1. k = (m + n) + 1
        BY ONLY <3>2, <3>3, m \in Nat, n \in Nat
      <4> QED
        BY ONLY <1>4, <1>5, <1>7, <3>2, <3>3, <4>1, m \in Nat, n \in Nat
    <3>4. CASE j # n + 1
      BY ONLY <1>3, <1>4, <1>5, <1>7, <3>2, <3>4
    <3> QED
      BY <3>3, <3>4
  <2> QED
    BY <2>1, <2>2
<1>9. w = c
  <2>1. Len(w) = Len(c) /\ \A k \in 1..Len(w) : w[k] = c[k]
    BY ONLY <1>4, <1>7, <1>8, m \in Nat, n \in Nat
  <2> QED
    BY ONLY <1>4, <1>7, <2>1, SameSeq
<1> QED
  BY ONLY <1>1, <1>6, <1>9

\* printnum prints the digits in a field of the width asked for.
LEMMA PrintnumText ==
  ASSUME NEW num \in Nat, NEW base \in Bases, NEW width \in Int, NEW padc \in Glyphs
  PROVE  printnum(num, base, width, padc)
           = Pad(width - Len(Digits(num, base)), padc) \o Digits(num, base)
<1> DEFINE g == CHOOSE f : f = [n \in Nat |-> PrintRow(n, base, padc, f[n \div base])]
<1>1. g = [n \in Nat |-> PrintRow(n, base, padc, g[n \div base])]
  BY PrintExists
<1>2. printnum(num, base, width, padc) = g[num][width]
  BY DEF printnum, PrintRow
<1> HIDE DEF g
<1> DEFINE Right(n, w) == g[n][w] = Pad(w - Len(Digits(n, base)), padc) \o Digits(n, base)
           D == {n \in Nat : \E w \in Int : ~Right(n, w)}
<1>3. D = {}
  <2> SUFFICES ASSUME D # {} PROVE FALSE
    OBVIOUS
  <2>1. D \in SUBSET Nat
    OBVIOUS
  <2>2. PICK n \in D : \A i \in D : n <= i
    <3> HIDE DEF D
    <3> QED
      BY <2>1, LeastNat
  <2>3. PICK w \in Int : ~Right(n, w)
    BY <2>2
  <2>4. n \in Nat
    BY <2>1
  <2>5. g[n][w] = IF n >= base THEN Append(g[n \div base][w - 1], Digit(n % base))
                              ELSE Append(Pad(w - 1, padc), Digit(n))
    <3>1. g[n] = PrintRow(n, base, padc, g[n \div base])
      BY <1>1, <2>4
    <3> QED
      BY ONLY <3>1, w \in Int DEF PrintRow
  <2>6. PICK d, s : d = n \div base /\ s = Digits(n, base)
    OBVIOUS
  <2>7. d \in Nat /\ (n >= base => d < n)
    <3>1. n >= base => n > 0
      BY DEF Bases
    <3> QED
      BY ONLY <2>4, <2>6, <3>1, base \in Bases, DivideIs
  <2>8. s \in Seq(Glyphs) /\ Len(s) \in Nat
    BY ONLY <2>4, <2>6, DigitsText, base \in Bases
  <2>9. CASE n >= base
    <3>1. PICK t, x : t = Digits(d, base) /\ x = Digit(n % base)
      OBVIOUS
    <3>2. t \in Seq(Glyphs) /\ Len(t) \in Nat /\ x \in Glyphs
      <4>1. n % base \in 0..base-1 /\ \A y \in 0..base-1 : y \in 0..15
        BY ONLY <2>4, DivideIs, base \in Bases DEF Bases
      <4> QED
        BY ONLY <2>7, <3>1, <4>1, DigitsText, DigitString, base \in Bases
    <3>3. s = Append(t, x)
      BY ONLY <2>4, <2>6, <2>9, <3>1, DigitsStep, base \in Bases
    <3>4. Len(s) = Len(t) + 1
      BY ONLY <3>2, <3>3
    <3>5. Right(d, w - 1)
      <4>1. d \notin D
        <5> HIDE DEF D
        <5>1. ~(n <= d)
          BY ONLY <2>4, <2>7, <2>9
        <5> QED
          BY ONLY <2>2, <5>1
      <4>2. w - 1 \in Int
        OBVIOUS
      <4> HIDE DEF Right
      <4> QED
        BY <2>7, <4>1, <4>2
    <3>6. PICK p : p = Pad((w - 1) - Len(t), padc)
      OBVIOUS
    <3>7. p \in Seq(Glyphs) /\ p = Pad(w - Len(s), padc)
      <4>1. (w - 1) - Len(t) \in Int /\ (w - 1) - Len(t) = w - Len(s)
        BY ONLY <3>2, <3>4, w \in Int
      <4> QED
        BY ONLY <3>6, <4>1, PadText, padc \in Glyphs
    <3>8. g[n][w] = Append(p \o t, x)
      BY <2>5, <2>6, <2>9, <3>1, <3>5, <3>6
    <3>9. Append(p \o t, x) = p \o s
      BY ONLY <3>2, <3>3, <3>7, AppendJoin
    <3>10. g[n][w] = Pad(w - Len(s), padc) \o s
      BY ONLY <3>7, <3>8, <3>9
    <3>11. Right(n, w)
      BY ONLY <2>6, <3>10
    <3> QED
      BY ONLY <2>3, <3>11
  <2>10. CASE ~(n >= base)
    <3>1. n < base
      <4>1. \A y \in Bases : y \in Nat
        BY DEF Bases
      <4>2. n \in Nat /\ base \in Nat
        BY ONLY <2>4, <4>1, base \in Bases
      <4> QED
        BY ONLY <2>10, <4>2
    <3>2. s = <<Digit(n)>>
      BY ONLY <2>4, <2>6, <3>1, DigitsStep, base \in Bases
    <3>3. PICK p, x : p = Pad(w - 1, padc) /\ x = Digit(n)
      OBVIOUS
    <3>4. p \in Seq(Glyphs)
      <4>1. w - 1 \in Int
        OBVIOUS
      <4> QED
        BY ONLY <3>3, <4>1, PadText, padc \in Glyphs
    <3>5. s = <<x>> /\ x \in Glyphs
      <4>1. s = <<x>>
        BY ONLY <3>2, <3>3
      <4>2. s[1] = x /\ Len(s) = 1
        BY ONLY <4>1
      <4>3. s[1] \in Glyphs
        <5>1. 1 \in 1..Len(s)
          BY ONLY <4>2
        <5> QED
          BY ONLY <2>8, <5>1
      <4> QED
        BY ONLY <4>1, <4>2, <4>3
    <3>6. Append(p, x) = p \o s /\ Len(s) = 1
      <4>1. p \o << >> = p /\ << >> \in Seq(Glyphs) /\ Append(<< >>, x) = <<x>>
        BY ONLY <3>4, <3>5
      <4>2. Append(p \o << >>, x) = p \o Append(<< >>, x)
        BY ONLY <3>4, <3>5, <4>1, AppendJoin
      <4>3. Len(<<x>>) = 1
        OBVIOUS
      <4> QED
        BY ONLY <3>5, <4>1, <4>2, <4>3
    <3> QED
      BY <2>3, <2>5, <2>6, <2>10, <3>3, <3>6
  <2> QED
    BY <2>9, <2>10
<1> HIDE DEF Right
<1>4. Right(num, width)
  BY <1>3
<1> QED
  BY <1>2, <1>4 DEF Right

-----------------------------------------------------------------------------
(* snprintf: the number that a directive's digits are read as, and the slots of arguments. *)

LEMMA DigitOnly ==
  ASSUME NEW d \in 0..9
  PROVE  IsDigit(Digit(d)) /\ (CHOOSE e \in 0..9 : Digit(e) = Digit(d)) = d
<1>1. /\ Digit(0) = "0" /\ Digit(1) = "1" /\ Digit(2) = "2" /\ Digit(3) = "3" /\ Digit(4) = "4"
      /\ Digit(5) = "5" /\ Digit(6) = "6" /\ Digit(7) = "7" /\ Digit(8) = "8" /\ Digit(9) = "9"
  BY DEF Digit, DigitOf
<1>2. \A e \in 0..9 : e \in {0, 1, 2, 3, 4, 5, 6, 7, 8, 9}
  OBVIOUS
<1>3. \A e \in 0..9 : Digit(e) = Digit(d) => e = d
  BY ONLY <1>1, <1>2, d \in 0..9
<1>4. IsDigit(Digit(d))
  BY DEF IsDigit
<1> QED
  BY ONLY <1>3, <1>4, d \in 0..9

\* The digits of a number are read as that number.
LEMMA DigitsValue ==
  ASSUME NEW w \in Nat, NEW f, NEW n, n = Len(Digits(w, 10)),
         \A k \in 1..n : f[k] = Digits(w, 10)[k]
  PROVE  /\ NumberValue(f, n) = w
         /\ \A k \in 1..n : IsDigit(f[k])
<1>1. 10 \in Bases
  BY DEF Bases
<1>2. PICK left, m : DigitsFrom(left, m, w, 10)
  BY ONLY <1>1, DigitsExist, w \in Nat
<1>3. /\ n = m /\ n \in Nat \ {0}
      /\ \A k \in 1..n : f[k] = Digit(left[n - k] % 10) /\ left[n - k] \in Nat /\ n - k \in 0..n-1
  <2>1. /\ Len(Digits(w, 10)) = m /\ m \in Nat \ {0}
        /\ \A k \in 1..m : /\ Digits(w, 10)[k] = Digit(left[m - k] % 10)
                           /\ left[m - k] \in Nat /\ m - k \in 0..m-1
    BY ONLY <1>1, <1>2, DigitsAre, w \in Nat
  <2>2. n = m
    BY <2>1
  <2> QED
    BY ONLY <2>1, <2>2, \A k \in 1..n : f[k] = Digits(w, 10)[k]
<1>4. /\ left \in [0..w+1 -> Nat] /\ left[0] = w /\ left[n] = 0 /\ n \in 1..w+1
      /\ \A k \in 1..w+1 : left[k] = left[k - 1] \div 10
  BY ONLY <1>2, <1>3 DEF DigitsFrom, IsLeft
<1> DEFINE dig(k) == CHOOSE d \in 0..9 : Digit(d) = f[k]
           value == CHOOSE g : g = [k \in 0..n |-> IF k = 0 THEN 0 ELSE g[k - 1] * 10 + dig(k)]
<1>5. ASSUME NEW k \in 1..n
      PROVE  IsDigit(f[k]) /\ dig(k) = left[n - k] % 10
  <2>1. PICK x \in Nat : x = left[n - k]
    BY <1>3
  <2>2. PICK d \in 0..9 : d = x % 10
    <3>1. x % 10 \in 0..10-1
      BY ONLY <1>1, DivideIs, x \in Nat
    <3> QED
      BY ONLY <3>1
  <2>3. f[k] = Digit(d)
    BY ONLY <1>3, <2>1, <2>2, k \in 1..n
  <2> QED
    BY ONLY <2>1, <2>2, <2>3, DigitOnly
<1>6. NumberValue(f, n) = value[n]
  BY DEF NumberValue
<1> HIDE DEF dig
<1> DEFINE g == [k \in 0..n |-> left[n - k]]
<1>7. ASSUME NEW k \in 1..n PROVE left[n - k] = left[n - (k - 1)] * 10 + dig(k)
  <2>1. PICK j \in Nat : j = n - (k - 1)
    <3>1. n - (k - 1) \in Nat
      BY ONLY <1>3, k \in 1..n
    <3> QED
      BY <3>1
  <2>2. j \in 1..w+1 /\ j - 1 = n - k
    BY ONLY <1>4, <2>1, w \in Nat, k \in 1..n
  <2>3. PICK x \in Nat : x = left[n - k]
    BY <1>3
  <2>4. left[j] = x \div 10 /\ dig(k) = x % 10
    BY ONLY <1>4, <1>5, <2>2, <2>3, k \in 1..n
  <2>5. PICK q \in Nat, d \in Int : q = x \div 10 /\ d = x % 10
    OBVIOUS
  <2>6. d = x - 10 * q
    BY ONLY <2>5, x \in Nat, q \in Nat, d \in Int
  <2>7. x = q * 10 + d
    BY ONLY <2>6, x \in Nat, q \in Nat, d \in Int
  <2> QED
    BY ONLY <2>1, <2>3, <2>4, <2>5, <2>7
<1>8. g = [k \in 0..n |-> IF k = 0 THEN 0 ELSE g[k - 1] * 10 + dig(k)]
  <2>1. ASSUME NEW k \in 0..n PROVE left[n - k] = IF k = 0 THEN 0 ELSE g[k - 1] * 10 + dig(k)
    <3>1. CASE k = 0
      <4>1. n - k = n
        BY <1>3, <3>1
      <4> QED
        BY ONLY <1>4, <3>1, <4>1
    <3>2. CASE k # 0
      <4>1. k \in 1..n /\ k - 1 \in 0..n
        BY <1>3, <3>2
      <4>2. g[k - 1] = left[n - (k - 1)]
        BY <4>1
      <4> QED
        BY ONLY <1>7, <3>2, <4>1, <4>2
    <3> QED
      BY ONLY <3>1, <3>2
  <2> QED
    BY <2>1
<1>9. value = [k \in 0..n |-> IF k = 0 THEN 0 ELSE value[k - 1] * 10 + dig(k)]
  <2> HIDE DEF g
  <2> QED
    BY ONLY <1>8
<1> HIDE DEF value
<1> DEFINE D == {k \in Nat : k <= n => value[k] = left[n - k]}
<1>10. 0 \in D
  <2>1. 0 \in 0..n /\ n - 0 = n
    BY <1>3
  <2>2. value[0] = 0
    BY ONLY <1>9, <2>1
  <2> QED
    BY ONLY <1>4, <2>1, <2>2
<1>11. ASSUME NEW k \in D PROVE k + 1 \in D
  <2> SUFFICES ASSUME k + 1 <= n PROVE value[k + 1] = left[n - (k + 1)]
    OBVIOUS
  <2>1. PICK h \in Nat : h = k + 1
    OBVIOUS
  <2>2. h \in 1..n /\ h \in 0..n /\ h # 0 /\ h - 1 = k /\ k <= n
    BY <1>3, <2>1
  <2>3. value[h] = value[k] * 10 + dig(h)
    BY ONLY <1>9, <2>2
  <2>4. value[k] = left[n - k]
    BY <2>2
  <2>5. left[n - h] = left[n - k] * 10 + dig(h)
    BY ONLY <1>7, <2>2
  <2> QED
    BY ONLY <2>1, <2>3, <2>4, <2>5
<1>12. D = Nat
  <2>1. D \in SUBSET Nat
    OBVIOUS
  <2> HIDE DEF D
  <2> QED
    BY ONLY <1>10, <1>11, <2>1, AllNat
<1>13. value[n] = w
  <2>1. n \in D /\ n - n = 0
    BY <1>3, <1>12
  <2> QED
    BY <1>4, <2>1
<1> QED
  BY ONLY <1>5, <1>6, <1>13

\* No number but 0 begins with the digit 0.
LEMMA FirstDigit ==
  ASSUME NEW w \in Nat \ {0}
  PROVE  Digits(w, 10)[1] \in {Digit(d) : d \in 1..9}
<1>1. 10 \in Bases
  BY DEF Bases
<1>2. PICK left, m : DigitsFrom(left, m, w, 10)
  BY ONLY <1>1, DigitsExist, w \in Nat \ {0}
<1>3. /\ m \in Nat \ {0}
      /\ \A k \in 1..m : Digits(w, 10)[k] = Digit(left[m - k] % 10) /\ left[m - k] \in Nat /\ m - k \in 0..m-1
  BY ONLY <1>1, <1>2, DigitsAre, w \in Nat \ {0}
<1>4. /\ left[0] = w /\ left[m] = 0 /\ m \in 1..w+1 /\ (\A k \in 1..m-1 : left[k] # 0)
      /\ \A k \in 1..w+1 : left[k] = left[k - 1] \div 10
  BY ONLY <1>2 DEF DigitsFrom, IsLeft
<1>5. 1 \in 1..m /\ m \in 1..w+1
  BY ONLY <1>3, <1>4
<1>6. PICK x \in Nat : x = left[m - 1]
  BY ONLY <1>3, <1>5
<1>7. x # 0
  <2>1. CASE m = 1
    BY ONLY <1>4, <1>6, <2>1, w \in Nat \ {0}, 1 - 1 = 0
  <2>2. CASE m # 1
    <3>1. m - 1 \in 1..m-1
      BY ONLY <1>3, <2>2
    <3> QED
      BY ONLY <1>4, <1>6, <3>1
  <2> QED
    BY <2>1, <2>2
<1>8. x \div 10 = 0
  BY ONLY <1>4, <1>5, <1>6
<1>9. x % 10 \in 1..9
  BY ONLY <1>7, <1>8, x \in Nat
<1>10. Digits(w, 10)[1] = Digit(x % 10)
  BY ONLY <1>3, <1>5, <1>6
<1> QED
  BY ONLY <1>9, <1>10

\* A number at the head of a text, before what is no digit, is read and passed.
LEMMA NumberRead ==
  ASSUME NEW w \in Nat \ {0}, NEW r \in Seq(Glyphs), r # << >>, ~IsDigit(r[1]),
         NEW f, f = Digits(w, 10) \o r
  PROVE  /\ Head(f) \in {Digit(d) : d \in 1..9}
         /\ NumberValue(f, NumberLen(f)) = w
         /\ SubSeq(f, NumberLen(f) + 1, Len(f)) = r
<1>1. PICK s, n, z : s = Digits(w, 10) /\ n = Len(s) /\ z = Len(r)
  OBVIOUS
<1>2. s \in Seq(Glyphs) /\ n \in Nat \ {0}
  <2>1. 10 \in Bases
    BY DEF Bases
  <2> QED
    BY ONLY <1>1, <2>1, DigitsText, w \in Nat \ {0}
<1>3. z \in Nat \ {0}
  BY ONLY <1>1, r \in Seq(Glyphs), r # << >>
<1>4. /\ f \in Seq(Glyphs) /\ Len(f) = n + z
      /\ (\A k \in 1..n : f[k] = s[k]) /\ \A k \in 1..z : f[n + k] = r[k]
  <2>1. f = s \o r
    BY <1>1
  <2> QED
    BY ONLY <1>1, <1>2, <2>1, r \in Seq(Glyphs)
<1>5. NumberValue(f, n) = w /\ \A k \in 1..n : IsDigit(f[k])
  BY ONLY <1>1, <1>4, DigitsValue, w \in Nat \ {0}
<1>6. ~IsDigit(f[n + 1])
  <2>1. 1 \in 1..z
    BY <1>3
  <2> QED
    BY ONLY <1>4, <2>1, ~IsDigit(r[1])
<1>7. PICK k : k = NumberLen(f)
  OBVIOUS
<1>8. k = n
  <2>1. n \in 1..Len(f) /\ ~IsDigit(f[n + 1]) /\ \A j \in 1..n : IsDigit(f[j])
    BY ONLY <1>2, <1>3, <1>4, <1>5, <1>6
  <2>2. k \in 1..Len(f) /\ ~IsDigit(f[k + 1]) /\ \A j \in 1..k : IsDigit(f[j])
    BY ONLY <1>7, <2>1 DEF NumberLen
  <2>3. ~(k < n)
    <3>1. k < n => k + 1 \in 1..n
      BY ONLY <1>2, <1>3, <1>4, <2>2
    <3> QED
      BY ONLY <2>1, <2>2, <3>1
  <2>4. ~(n < k)
    <3>1. n < k => n + 1 \in 1..k
      BY ONLY <1>2, <1>3, <1>4, <2>2
    <3> QED
      BY ONLY <2>1, <2>2, <3>1
  <2> QED
    BY ONLY <1>2, <1>3, <1>4, <2>2, <2>3, <2>4
<1>9. SubSeq(f, n + 1, Len(f)) = r
  <2>1. PICK t : t = SubSeq(f, n + 1, Len(f))
    OBVIOUS
  <2>2. t \in Seq(Glyphs) /\ Len(t) = z /\ \A j \in 1..z : t[j] = f[n + j]
    BY ONLY <1>2, <1>3, <1>4, <2>1
  <2>3. Len(t) = Len(r) /\ \A j \in 1..Len(t) : t[j] = r[j]
    BY ONLY <1>1, <1>4, <2>2
  <2> QED
    BY ONLY <2>1, <2>2, <2>3, SameSeq, r \in Seq(Glyphs)
<1>10. Head(f) \in {Digit(d) : d \in 1..9}
  <2>1. Head(f) = f[1] /\ 1 \in 1..n
    BY ONLY <1>2, <1>3, <1>4
  <2> QED
    BY ONLY <1>1, <1>4, <2>1, FirstDigit, w \in Nat \ {0}
<1> QED
  BY ONLY <1>5, <1>7, <1>8, <1>9, <1>10

LEMMA Moduland ==
  ASSUME NEW v \in Int, NEW P \in Nat \ {0}, NEW q, NEW d, q = v \div P, d = v % P
  PROVE  q \in Int /\ d \in Int /\ 0 <= d /\ d < P /\ v = P * q + d
OBVIOUS

LEMMA ModuloIs ==
  ASSUME NEW v \in Int, NEW P \in Nat \ {0}
  PROVE  /\ v \in 0..P-1 => v % P = v
         /\ v < 0 /\ -P <= v => v % P = v + P
<1>1. PICK q, d : q = v \div P /\ d = v % P
  OBVIOUS
<1>2. q \in Int /\ d \in Int /\ 0 <= d /\ d < P /\ v = P * q + d
  BY ONLY <1>1, Moduland, v \in Int, P \in Nat \ {0}
<1>3. PICK m \in Int : m = P * q
  BY <1>2
<1>4. /\ q >= 1 => m >= P
      /\ q <= -1 => m <= -P
      /\ q <= -2 => m <= -P - P
      /\ q = 0 => m = 0
      /\ q = -1 => m = -P
  BY ONLY <1>2, <1>3, P \in Nat \ {0}, m \in Int
<1>5. v = m + d
  BY <1>2, <1>3
<1>6. ASSUME v \in 0..P-1 PROVE d = v
  <2>1. q = 0
    BY ONLY <1>2, <1>4, <1>5, <1>6, m \in Int, P \in Nat \ {0}
  <2> QED
    BY ONLY <1>2, <1>4, <1>5, <2>1, m \in Int
<1>7. ASSUME v < 0, -P <= v PROVE d = v + P
  <2>1. q = -1
    BY ONLY <1>2, <1>4, <1>5, <1>7, m \in Int, P \in Nat \ {0}, v \in Int
  <2> QED
    BY ONLY <1>2, <1>4, <1>5, <2>1, m \in Int, P \in Nat \ {0}, v \in Int
<1> QED
  BY <1>1, <1>6, <1>7

LEMMA PowersGrow == 
  ASSUME NEW n \in Nat
  PROVE  2^(n + 1) >= 2^n + 2^n
<1>1. /\ IsFiniteSet(1..n) /\ Cardinality(1..n) = n
      /\ IsFiniteSet(1..n+1) /\ Cardinality(1..n+1) = n + 1
  BY FS_Interval
<1>2. PICK A, all : A = SUBSET (1..n) /\ all = SUBSET (1..n+1)
  OBVIOUS
<1>3. /\ IsFiniteSet(A) /\ Cardinality(A) = 2^n
      /\ IsFiniteSet(all) /\ Cardinality(all) = 2^(n + 1)
  BY <1>1, <1>2, FS_SUBSET
<1> DEFINE B == {T \cup {n + 1} : T \in A}
           f == [T \in A |-> T \cup {n + 1}]
<1>4. f \in Surjection(A, B)
  BY DEF Surjection
<1>5. \A T \in A : n + 1 \notin T
  BY <1>2
<1>6. f \in Injection(A, B)
  <2>1. ASSUME NEW S \in A, NEW T \in A, S \cup {n + 1} = T \cup {n + 1} PROVE S = T
    <3>1. n + 1 \notin S /\ n + 1 \notin T
      BY ONLY <1>5, S \in A, T \in A
    <3>2. PICK z : z = n + 1
      OBVIOUS
    <3> QED
      BY ONLY <2>1, <3>1, <3>2
  <2>2. f \in [A -> B]
    OBVIOUS
  <2>3. ASSUME NEW S \in A, NEW T \in A, f[S] = f[T] PROVE S = T
    <3>1. f[S] = S \cup {n + 1} /\ f[T] = T \cup {n + 1}
      OBVIOUS
    <3> QED
      BY ONLY <2>1, <2>3, <3>1, S \in A, T \in A
  <2> QED
    BY ONLY <2>2, <2>3 DEF Injection, IsInjective
<1> HIDE DEF f
<1>7. IsFiniteSet(B) /\ Cardinality(B) = Cardinality(A)
  <2> HIDE DEF B
  <2> QED
    BY ONLY <1>3, <1>4, <1>6, FS_Surjection
<1>8. A \cap B = {}
  BY <1>5
<1>9. A \cup B \in SUBSET all
  <2>1. A \subseteq all
    BY <1>2
  <2>2. B \subseteq all
    <3>1. ASSUME NEW T \in A PROVE T \cup {n + 1} \in all
      BY <1>2, <3>1
    <3> QED
      BY <3>1
  <2> QED
    BY <2>1, <2>2
<1> HIDE DEF B
<1>10. /\ IsFiniteSet(A \cup B)
       /\ Cardinality(A \cup B) = Cardinality(A) + Cardinality(B) - Cardinality(A \cap B)
  BY ONLY <1>3, <1>7, FS_Union
<1>11. Cardinality(A \cap B) = 0
  BY ONLY <1>8, FS_EmptySet
<1>12. Cardinality(A \cup B) <= Cardinality(all)
  BY ONLY <1>3, <1>9, FS_Subset
<1>13. PICK x \in Nat, y \in Nat : x = 2^n /\ y = 2^(n + 1)
  BY PowerOfTwo, n + 1 \in Nat
<1> QED
  BY ONLY <1>3, <1>7, <1>10, <1>11, <1>12, <1>13

LEMMA PowersOrdered ==
  ASSUME NEW m \in Nat, NEW n \in Nat, m <= n
  PROVE  2^m <= 2^n
<1>1. /\ IsFiniteSet(1..m) /\ Cardinality(1..m) = m
      /\ IsFiniteSet(1..n) /\ Cardinality(1..n) = n
  BY FS_Interval
<1>2. PICK A, B : A = SUBSET (1..m) /\ B = SUBSET (1..n)
  OBVIOUS
<1>3. /\ IsFiniteSet(A) /\ Cardinality(A) = 2^m
      /\ IsFiniteSet(B) /\ Cardinality(B) = 2^n
  BY <1>1, <1>2, FS_SUBSET
<1>4. A \in SUBSET B
  BY <1>2
<1> QED
  BY <1>3, <1>4, FS_Subset

\* An argument is read from its slot as the value that was put there.
LEMMA SlotRead ==
  ASSUME NEW w \in Nat \ {0}, NEW v \in Int
  PROVE  /\ 2^w \in Nat \ {0} /\ 2^(w-1) \in Nat \ {0} /\ 2^(w-1) <= 2^w
         /\ v \in SignedIn(w) => Signed(v % 2^w, w) = v /\ v % 2^w \in Nat
         /\ v \in 0..2^w-1 => v % 2^w = v
         /\ v \in Nat /\ v < 2^(w-1) => Signed(v, w) = v
<1>1. w - 1 \in Nat /\ (w - 1) + 1 = w
  OBVIOUS
<1>2. PICK P, H : P = 2^w /\ H = 2^(w-1)
  OBVIOUS
<1>3. P \in Nat \ {0} /\ H \in Nat \ {0}
  BY ONLY <1>1, <1>2, PowerOfTwo, w \in Nat \ {0}
<1>4. P >= H + H
  BY ONLY <1>1, <1>2, PowersGrow
<1>5. /\ \A x \in Int : x \in 0..P-1 => x % P = x
      /\ v < 0 /\ -P <= v => v % P = v + P
  BY ONLY <1>3, ModuloIs, v \in Int
<1>6. \A x : Signed(x, w) = IF x % P >= H THEN (x % P) - P ELSE x % P
  BY ONLY <1>2 DEF Signed
<1>7. ASSUME v \in Nat, v < H PROVE Signed(v, w) = v /\ v % P = v
  <2>1. v \in 0..P-1 /\ ~(v >= H)
    BY ONLY <1>3, <1>4, <1>7
  <2>2. v % P = v
    BY ONLY <1>5, <2>1, v \in Int
  <2> QED
    BY ONLY <1>6, <2>1, <2>2
<1>8. ASSUME v \in -H..H-1 PROVE Signed(v % P, w) = v /\ v % P \in Nat
  <2>1. CASE v >= 0
    BY ONLY <1>3, <1>7, <1>8, <2>1, v \in Int
  <2>2. CASE v < 0
    <3>1. v % P = v + P
      BY ONLY <1>3, <1>4, <1>5, <1>8, <2>2, v \in Int
    <3>2. PICK y \in Int : y = v + P
      BY <1>3
    <3>3. y \in 0..P-1 /\ y >= H /\ y - P = v
      BY ONLY <1>3, <1>4, <1>8, <2>2, <3>2, v \in Int
    <3>4. y % P = y
      BY ONLY <1>5, <3>3, y \in Int
    <3>5. Signed(y, w) = v
      BY ONLY <1>6, <3>3, <3>4
    <3> QED
      BY ONLY <3>1, <3>2, <3>3, <3>5, y \in Int
  <2> QED
    BY ONLY <2>1, <2>2, v \in Int
<1>9. SignedIn(w) = -H..H-1
  BY <1>2 DEF SignedIn
<1>10. H <= P
  BY ONLY <1>3, <1>4
<1> QED
  BY ONLY <1>2, <1>3, <1>5, <1>7, <1>8, <1>9, <1>10, v \in Int

-----------------------------------------------------------------------------
(* snprintf: the text put so far, and what is left of the format and the arguments. *)

\* The text put so far, and as much of it in the buffer as fits.
PutSoFar(x, m, k) ==
  /\ x \in Seq(Glyphs) /\ b = [mem |-> m, buf |-> k, cnt |-> Len(x)]
  /\ DOMAIN m = 0..BufSize
  /\ k = (IF Len(x) <= call.n - 1 THEN Len(x) ELSE call.n - 1)
  /\ \A i \in 0..k-1 : m[i] = x[i + 1]

OutIs(x) == call.n >= 1 /\ \E m, k : PutSoFar(x, m, k)

LEMMA PutAdds ==
  ASSUME Sizes, NEW x, OutIs(x), call' = call, NEW chars \in Seq(Glyphs), Put(chars)
  PROVE  OutIs(x \o chars)'
<1>1. PICK m, k : PutSoFar(x, m, k)
  BY DEF OutIs
<1>2. PICK n \in Int : n = call.n /\ n >= 1 /\ n <= BufSize
  BY DEF Sizes, OutIs
<1>3. PICK len, more, y : len = Len(x) /\ more = Len(chars) /\ y = x \o chars
  OBVIOUS
<1>4. x \in Seq(Glyphs) /\ len \in Nat /\ more \in Nat
  BY <1>1, <1>3 DEF PutSoFar
<1>5. /\ y \in Seq(Glyphs) /\ Len(y) = len + more
      /\ (\A i \in 1..len : y[i] = x[i]) /\ \A i \in 1..more : y[len + i] = chars[i]
  BY ONLY <1>3, <1>4, chars \in Seq(Glyphs)
<1>6. /\ b.mem = m /\ b.buf = k /\ b.cnt = len /\ DOMAIN m = 0..BufSize
      /\ k = (IF len <= n - 1 THEN len ELSE n - 1) /\ \A i \in 0..k-1 : m[i] = x[i + 1]
  BY ONLY <1>1, <1>2, <1>3 DEF PutSoFar
<1>7. k \in Nat
  BY ONLY <1>2, <1>4, <1>6, n \in Int
<1>8. PICK j : j = Min({Room, more})
  OBVIOUS
<1>9. j = IF n - 1 - k <= more THEN n - 1 - k ELSE more
  <2>1. Room = n - 1 - k
    BY ONLY <1>2, <1>6 DEF Room
  <2>2. n - 1 - k \in Int /\ more \in Int
    BY ONLY <1>4, <1>7, n \in Int
  <2> QED
    BY ONLY <1>8, <2>1, <2>2, MinOfTwo
<1>10. j \in Nat
  BY ONLY <1>2, <1>4, <1>6, <1>7, <1>9, n \in Int
<1>11. PICK h : h = [i \in DOMAIN m |-> IF i \in k..k+j-1 THEN chars[i - k + 1] ELSE m[i]]
  OBVIOUS
<1>12. b' = [mem |-> h, buf |-> k + j, cnt |-> len + more]
  BY ONLY <1>3, <1>6, <1>8, <1>11, Put(chars) DEF Put
<1>13. k + j = IF len + more <= n - 1 THEN len + more ELSE n - 1
  <2>1. k = IF len <= n - 1 THEN len ELSE n - 1
    BY ONLY <1>6
  <2>2. CASE len <= n - 1
    <3>1. k = len
      BY ONLY <2>1, <2>2
    <3> QED
      BY ONLY <1>4, <1>9, <2>2, <3>1, n \in Int
  <2>3. CASE ~(len <= n - 1)
    <3>1. k = n - 1
      BY ONLY <2>1, <2>3
    <3>2. n - 1 - k = 0
      BY ONLY <3>1, n \in Int
    <3>3. j = 0
      BY ONLY <1>4, <1>9, <3>2
    <3> QED
      BY ONLY <1>4, <2>3, <3>1, <3>3, n \in Int
  <2> QED
    BY ONLY <2>2, <2>3
<1>14. DOMAIN h = 0..BufSize
  BY ONLY <1>6, <1>11
<1>15. ASSUME NEW i \in 0..k+j-1 PROVE h[i] = y[i + 1]
  <2>1. BufSize \in Nat /\ i \in 0..BufSize
    <3>1. BufSize \in Nat
      BY FmtWidthAssumption DEF FmtWidthAssumption
    <3>2. i \in Nat /\ i <= n - 1
      BY ONLY <1>4, <1>7, <1>10, <1>13, i \in 0..k+j-1, n \in Int
    <3> QED
      BY ONLY <1>2, <3>1, <3>2, n \in Int
  <2>2. CASE i \in 0..k-1
    <3>1. i \notin k..k+j-1 /\ i + 1 \in 1..len
      BY ONLY <1>2, <1>4, <1>6, <1>7, <1>10, <2>2, n \in Int
    <3>2. h[i] = m[i]
      BY ONLY <1>6, <1>11, <2>1, <3>1
    <3> QED
      BY ONLY <1>5, <1>6, <2>2, <3>1, <3>2
  <2>3. CASE i \notin 0..k-1
    <3>1. i \in k..k+j-1
      BY ONLY <1>7, <1>10, <2>3, i \in 0..k+j-1
    <3>2. h[i] = chars[i - k + 1]
      BY ONLY <1>6, <1>11, <2>1, <3>1
    <3>3. k = len
      <4>1. k = IF len <= n - 1 THEN len ELSE n - 1
        BY ONLY <1>6
      <4>2. ASSUME ~(len <= n - 1) PROVE FALSE
        <5>1. k = n - 1 /\ n - 1 - k = 0
          BY ONLY <4>1, <4>2, n \in Int
        <5>2. j = 0
          BY ONLY <1>4, <1>9, <5>1
        <5> QED
          BY ONLY <1>7, <3>1, <5>2
      <4> QED
        BY ONLY <4>1, <4>2
    <3>4. PICK q \in Nat : q = i - k + 1
      BY ONLY <1>7, <3>1
    <3>5. q \in 1..more /\ i + 1 = len + q
      BY ONLY <1>4, <1>7, <1>9, <1>10, <3>1, <3>3, <3>4, n \in Int
    <3> QED
      BY ONLY <1>5, <3>2, <3>4, <3>5
  <2> QED
    BY <2>2, <2>3
<1>16. PutSoFar(y, h, k + j)'
  <2>1. call.n' = n /\ Len(y) = len + more
    BY <1>2, <1>5, call' = call
  <2>2. b' = [mem |-> h, buf |-> k + j, cnt |-> Len(y)]
    BY ONLY <1>12, <2>1
  <2>3. k + j = IF Len(y) <= call'.n - 1 THEN Len(y) ELSE call'.n - 1
    <3>1. call'.n = n
      BY ONLY <2>1
    <3> QED
      BY ONLY <1>13, <2>1, <3>1
  <2> QED
    <3>1. PICK e : e = k + j
      OBVIOUS
    <3>2. b' = [mem |-> h, buf |-> e, cnt |-> Len(y)]
      BY ONLY <2>2, <3>1
    <3>3. e = IF Len(y) <= call'.n - 1 THEN Len(y) ELSE call'.n - 1
      BY ONLY <2>3, <3>1
    <3>4. \A i \in 0..e-1 : h[i] = y[i + 1]
      <4>1. \A i \in 0..k+j-1 : h[i] = y[i + 1]
        BY ONLY <1>15
      <4> QED
        BY ONLY <1>7, <1>10, <3>1, <4>1
    <3>5. PutSoFar(y, h, e)'
      BY ONLY <1>5, <1>14, <3>2, <3>3, <3>4, Zenon DEF PutSoFar
    <3> QED
      BY ONLY <3>1, <3>5, Zenon
<1>17. OutIs(y)'
  BY <1>2, <1>16, call' = call DEF OutIs
<1> QED
  BY ONLY <1>3, <1>17

\* What is stored when the terminator has been put behind it.
LEMMA EndStores ==
  ASSUME Sizes, NEW x, OutIs(x), End
  PROVE  /\ rc' = Len(x) /\ call' = call
         /\ Stored' = SubSeq(x, 1, IF Len(x) < call.n - 1 THEN Len(x) ELSE call.n - 1)
<1>1. PICK m, k : PutSoFar(x, m, k)
  BY DEF OutIs
<1>2. PICK n \in Int : n = call.n /\ n >= 1 /\ n <= BufSize
  BY DEF Sizes, OutIs
<1>3. PICK len : len = Len(x)
  OBVIOUS
<1>4. x \in Seq(Glyphs) /\ len \in Nat
  BY <1>1, <1>3 DEF PutSoFar
<1>5. /\ b.mem = m /\ b.buf = k /\ b.cnt = len /\ DOMAIN m = 0..BufSize /\ b = [mem |-> m, buf |-> k, cnt |-> len]
      /\ k = (IF len <= n - 1 THEN len ELSE n - 1) /\ \A i \in 0..k-1 : m[i] = x[i + 1]
  BY ONLY <1>1, <1>2, <1>3 DEF PutSoFar
<1>6. k \in Nat /\ k <= len /\ k <= n - 1
  BY ONLY <1>2, <1>4, <1>5, n \in Int
<1>7. PICK h : h = [m EXCEPT ![k] = "NUL"]
  OBVIOUS
<1>8. rc' = len /\ call' = call /\ b' = [mem |-> h, buf |-> k, cnt |-> len]
  BY ONLY <1>5, <1>7, End DEF End
<1>9. BufSize \in Nat
  BY FmtWidthAssumption DEF FmtWidthAssumption
<1>10. \A i \in 0..k-1 : h[i] = x[i + 1]
  <2>1. \A i \in 0..k-1 : i \in 0..BufSize /\ i # k
    BY ONLY <1>2, <1>6, <1>9, n \in Int
  <2> QED
    BY ONLY <1>5, <1>7, <2>1
<1>11. PICK row : row = [i \in 1..BufSize+1 |-> h[i - 1]]
  OBVIOUS
<1>12. Stored' = SubSeq(row, 1, k)
  <2>1. b'.mem = h /\ b'.buf = k
    BY ONLY <1>8
  <2> QED
    BY ONLY <1>11, <2>1 DEF Stored
<1>13. PICK s, t : s = SubSeq(row, 1, k) /\ t = SubSeq(x, 1, k)
  OBVIOUS
<1>14. t \in Seq(Glyphs) /\ Len(t) = k /\ \A i \in 1..k : t[i] = x[i]
  BY ONLY <1>3, <1>4, <1>6, <1>13
<1>15. s = [i \in 1..k |-> row[i]]
  <2>1. PICK N \in Nat : N = BufSize + 1
    BY ONLY <1>9
  <2> DEFINE S == {row[i] : i \in 1..N}
  <2>2. row \in [1..N -> S]
    <3>1. row = [i \in 1..N |-> h[i - 1]]
      BY ONLY <1>11, <2>1
    <3>2. \A i \in 1..N : row[i] \in S
      OBVIOUS
    <3> HIDE DEF S
    <3> QED
      BY ONLY <3>1, <3>2
  <2> HIDE DEF S
  <2>3. row \in Seq(S) /\ Len(row) = N /\ k <= N
    <3>1. k <= N
      BY ONLY <1>2, <1>6, <1>9, <2>1, n \in Int
    <3> QED
      BY ONLY <2>2, <3>1, N \in Nat
  <2>4. s \in Seq(S) /\ Len(s) = k /\ \A i \in 1..k : s[i] = row[i]
    BY ONLY <1>6, <1>13, <2>3, N \in Nat
  <2> QED
    BY ONLY <1>6, <2>4
<1>16. t = [i \in 1..k |-> t[i]]
  BY ONLY <1>6, <1>14
<1>17. ASSUME NEW i \in 1..k PROVE row[i] = t[i]
  <2>1. i \in 1..BufSize+1 /\ i - 1 \in 0..k-1 /\ (i - 1) + 1 = i
    BY ONLY <1>2, <1>6, <1>9, n \in Int, i \in 1..k
  <2> QED
    BY ONLY <1>10, <1>11, <1>14, <2>1, i \in 1..k
<1>18. s = t
  BY ONLY <1>15, <1>16, <1>17
<1>19. k = IF len < n - 1 THEN len ELSE n - 1
  BY ONLY <1>2, <1>4, <1>5, n \in Int
<1> QED
  BY ONLY <1>2, <1>3, <1>8, <1>12, <1>13, <1>18, <1>19

Associates(S) == \A s \in Seq(S), t \in Seq(S), u \in Seq(S) : (s \o t) \o u = s \o (t \o u)

LEMMA JoinAssoc == ASSUME NEW S PROVE Associates(S)
<1> SUFFICES ASSUME NEW s \in Seq(S), NEW t \in Seq(S), NEW u \in Seq(S)
             PROVE  (s \o t) \o u = s \o (t \o u)
  BY DEF Associates
<1>1. PICK a, c : a = s \o t /\ c = t \o u
  OBVIOUS
<1>2. PICK x, y : x = a \o u /\ y = s \o c
  OBVIOUS
<1>3. PICK l \in Nat, m \in Nat, n \in Nat : l = Len(s) /\ m = Len(t) /\ n = Len(u)
  OBVIOUS
<1>4. /\ a \in Seq(S) /\ Len(a) = l + m
      /\ (\A k \in 1..l : a[k] = s[k]) /\ \A k \in 1..m : a[l + k] = t[k]
  BY ONLY <1>1, <1>3, s \in Seq(S), t \in Seq(S)
<1>5. /\ c \in Seq(S) /\ Len(c) = m + n
      /\ (\A k \in 1..m : c[k] = t[k]) /\ \A k \in 1..n : c[m + k] = u[k]
  BY ONLY <1>1, <1>3, t \in Seq(S), u \in Seq(S)
<1>6. PICK lm \in Nat, mn \in Nat : lm = l + m /\ mn = m + n
  OBVIOUS
<1>7. /\ x \in Seq(S) /\ Len(x) = lm + n
      /\ (\A k \in 1..lm : x[k] = a[k]) /\ \A k \in 1..n : x[lm + k] = u[k]
  <2>1. a \in Seq(S) /\ Len(a) = lm
    BY ONLY <1>4, <1>6
  <2>2. x = a \o u /\ n = Len(u)
    BY ONLY <1>2, <1>3
  <2>3. lm = Len(a)
    BY ONLY <2>1
  <2>4. x \in Seq(S) /\ Len(x) = lm + n
    <3>1. x \in Seq(S)
      BY ONLY <2>1, <2>2, u \in Seq(S)
    <3>2. Len(x) = Len(a) + Len(u)
      <4>1. a \in Seq(S)
        BY ONLY <2>1
      <4>2. Len(a \o u) = Len(a) + Len(u)
        BY ONLY <4>1, u \in Seq(S)
      <4> QED
        BY ONLY <2>2, <4>2
    <3> QED
      BY ONLY <2>1, <2>2, <3>1, <3>2
  <2>5. \A k \in 1..lm : x[k] = a[k]
    BY ONLY <2>1, <2>2, u \in Seq(S), lm \in Nat
  <2>6. \A k \in 1..n : x[lm + k] = u[k]
    BY ONLY <2>1, <2>2, u \in Seq(S), lm \in Nat, n \in Nat
  <2> QED
    BY ONLY <2>4, <2>5, <2>6
<1>8. /\ y \in Seq(S) /\ Len(y) = l + mn
      /\ (\A k \in 1..l : y[k] = s[k]) /\ \A k \in 1..mn : y[l + k] = c[k]
  BY ONLY <1>2, <1>3, <1>5, <1>6, s \in Seq(S)
<1>9. Len(x) = Len(y)
  BY ONLY <1>6, <1>7, <1>8, l \in Nat, m \in Nat, n \in Nat
<1>10. ASSUME NEW k \in 1..Len(x) PROVE x[k] = y[k]
  <2>1. k \in Nat /\ k >= 1 /\ k <= lm + n
    BY ONLY <1>7, k \in 1..Len(x), lm \in Nat, n \in Nat
  <2>2. CASE k <= l
    <3>1. k \in 1..l /\ k \in 1..lm
      BY ONLY <1>6, <2>1, <2>2, l \in Nat, m \in Nat
    <3> QED
      BY ONLY <1>4, <1>7, <1>8, <3>1
  <2>3. CASE k > l /\ k <= lm
    <3>1. PICK i \in Nat : i = k - l
      BY ONLY <2>1, <2>3, l \in Nat
    <3>2. k = l + i /\ i \in 1..m /\ i \in 1..mn /\ k \in 1..lm
      BY ONLY <1>6, <2>1, <2>3, <3>1, l \in Nat, m \in Nat, n \in Nat
    <3>3. x[k] = t[i]
      BY ONLY <1>4, <1>7, <3>2
    <3>4. y[k] = t[i]
      BY ONLY <1>5, <1>8, <3>2
    <3> QED
      BY ONLY <3>3, <3>4
  <2>4. CASE k > lm
    <3>1. PICK i \in Nat, j \in Nat : i = k - lm /\ j = k - l
      BY ONLY <1>6, <2>1, <2>4, lm \in Nat, l \in Nat, m \in Nat
    <3>2. k = lm + i /\ i \in 1..n /\ j = m + i /\ j \in 1..mn /\ k = l + j
      BY ONLY <1>6, <2>1, <2>4, <3>1, l \in Nat, m \in Nat, n \in Nat, lm \in Nat
    <3>3. x[k] = u[i]
      BY ONLY <1>7, <3>2
    <3>4. y[k] = c[j]
      BY ONLY <1>8, <3>2
    <3>5. c[j] = u[i]
      BY ONLY <1>5, <3>2
    <3> QED
      BY ONLY <3>3, <3>4, <3>5
  <2>5. k <= l \/ (k > l /\ k <= lm) \/ k > lm
    BY ONLY <2>1, l \in Nat, lm \in Nat
  <2> QED
    BY ONLY <2>2, <2>3, <2>4, <2>5
<1>11. x = y
  BY ONLY <1>7, <1>8, <1>9, <1>10, SameSeq
<1> QED
  BY ONLY <1>1, <1>2, <1>11

LEMMA JoinNone ==
  ASSUME NEW S, NEW s \in Seq(S)
  PROVE  << >> \o s = s /\ s \o << >> = s
OBVIOUS

\* The same sequence from behind: each part before those that follow.
Remainders(S, N, parts) ==
  \E g \in [1..N+1 -> Seq(S)] :
    /\ g[N + 1] = << >> /\ \A k \in 1..N : g[k] = parts[k] \o g[k + 1]
    /\ FlattenSeq([j \in 1..N |-> parts[j]]) = g[1]

LEMMA RemaindersExist ==
  ASSUME NEW S, NEW N \in Nat, NEW parts, \A k \in 1..N : parts[k] \in Seq(S)
  PROVE  Remainders(S, N, parts)
<1> DEFINE st == [k \in 1..N |-> [s \in Seq(S) |-> parts[N - k + 1] \o s]]
<1>1. st \in [1..N -> [Seq(S) -> Seq(S)]]
  <2>1. ASSUME NEW k \in 1..N PROVE [s \in Seq(S) |-> parts[N - k + 1] \o s] \in [Seq(S) -> Seq(S)]
    <3>1. N - k + 1 \in 1..N
      OBVIOUS
    <3>2. PICK p \in Seq(S) : p = parts[N - k + 1]
      BY <3>1
    <3>3. \A s \in Seq(S) : p \o s \in Seq(S)
      BY ONLY p \in Seq(S)
    <3> QED
      BY ONLY <3>2, <3>3
  <2> QED
    BY ONLY <2>1
<1>2. Runs(N, Seq(S), << >>, st)
  <2>1. << >> \in Seq(S)
    OBVIOUS
  <2> HIDE DEF st
  <2> QED
    BY <1>1, <2>1, RecursionExists
<1>3. PICK r \in [0..N -> Seq(S)] : r[0] = << >> /\ \A k \in 1..N : r[k] = st[k][r[k - 1]]
  <2> HIDE DEF st
  <2> QED
    BY <1>2 DEF Runs
<1>4. ASSUME NEW k \in 1..N PROVE r[k] = parts[N - k + 1] \o r[k - 1]
  <2>1. r[k - 1] \in Seq(S)
    OBVIOUS
  <2> QED
    BY <1>3, <2>1
<1> HIDE DEF st
<1>5. PICK f \in [0..N -> Seq(S)] :
        /\ f[0] = << >> /\ \A k \in 1..N : f[k] = f[k - 1] \o parts[k]
        /\ \A k \in 0..N : FlattenSeq([j \in 1..k |-> parts[j]]) = f[k]
  <2>1. Flattens(S, N, parts)
    BY FlattenIs
  <2> QED
    BY ONLY <2>1 DEF Flattens
<1> DEFINE D == {d \in Nat : d <= N => f[N - d] \o r[d] = f[N]}
<1>6. 0 \in D
  <2>1. f[N] \in Seq(S) /\ N - 0 = N
    OBVIOUS
  <2>2. f[N] \o << >> = f[N]
    BY ONLY <2>1
  <2> QED
    BY <1>3, <2>1, <2>2
<1>7. ASSUME NEW d \in D PROVE d + 1 \in D
  <2> SUFFICES ASSUME d + 1 <= N PROVE f[N - (d + 1)] \o r[d + 1] = f[N]
    <3>1. d + 1 \in Nat
      OBVIOUS
    <3> QED
      BY <3>1
  <2>1. PICK k \in Nat, i \in Nat : k = N - d /\ i = d + 1
    OBVIOUS
  <2>2. k \in 1..N /\ i \in 1..N /\ N - (d + 1) = k - 1 /\ k - 1 \in 0..N /\ N - i + 1 = k /\ i - 1 = d
        /\ d \in 0..N /\ d <= N
    BY <2>1
  <2>3. f[k] \o r[d] = f[N]
    BY <2>1, <2>2
  <2>4. f[k] = f[k - 1] \o parts[k]
    BY ONLY <1>5, <2>2
  <2>5. r[i] = parts[k] \o r[d]
    BY <1>4, <2>2
  <2>6. f[k - 1] \in Seq(S) /\ parts[k] \in Seq(S) /\ r[d] \in Seq(S)
    BY <2>2
  <2>7. (f[k - 1] \o parts[k]) \o r[d] = f[k - 1] \o (parts[k] \o r[d])
    <3>1. PICK X \in Seq(S), Y \in Seq(S), Z \in Seq(S) :
            X = f[k - 1] /\ Y = parts[k] /\ Z = r[d]
      BY ONLY <2>6
    <3>2. (X \o Y) \o Z = X \o (Y \o Z)
      <4>1. Associates(S)
        BY ONLY JoinAssoc
      <4> QED
        BY ONLY <4>1, X \in Seq(S), Y \in Seq(S), Z \in Seq(S) DEF Associates
    <3> QED
      BY ONLY <3>1, <3>2
  <2> QED
    BY ONLY <2>1, <2>2, <2>3, <2>4, <2>5, <2>7
<1>8. D = Nat
  <2>1. D \in SUBSET Nat
    OBVIOUS
  <2> HIDE DEF D
  <2> QED
    BY ONLY <1>6, <1>7, <2>1, AllNat
<1>9. f[N] = r[N]
  <2>1. f[N - N] \o r[N] = f[N]
    <3>1. N \in D
      BY <1>8
    <3> QED
      BY <3>1
  <2>2. N - N = 0 /\ N \in 0..N
    OBVIOUS
  <2>3. r[N] \in Seq(S)
    BY <2>2
  <2>4. << >> \o r[N] = r[N]
    BY ONLY <2>3
  <2> QED
    BY ONLY <1>5, <2>1, <2>2, <2>4
<1> HIDE DEF D
<1> DEFINE g == [k \in 1..N+1 |-> r[N + 1 - k]]
<1>10. g \in [1..N+1 -> Seq(S)] /\ g[N + 1] = << >> /\ g[1] = r[N]
  <2>1. \A k \in 1..N+1 : N + 1 - k \in 0..N
    OBVIOUS
  <2>2. N + 1 - (N + 1) = 0 /\ N + 1 - 1 = N /\ 1 \in 1..N+1 /\ N + 1 \in 1..N+1
    OBVIOUS
  <2> QED
    BY <1>3, <2>1, <2>2
<1>11. ASSUME NEW k \in 1..N PROVE g[k] = parts[k] \o g[k + 1]
  <2>1. PICK i \in Nat : i = N + 1 - k
    OBVIOUS
  <2>2. i \in 1..N /\ N - i + 1 = k /\ N + 1 - (k + 1) = i - 1 /\ k \in 1..N+1 /\ k + 1 \in 1..N+1
    BY <2>1
  <2>3. r[i] = parts[k] \o r[i - 1]
    BY <1>4, <2>2
  <2>4. g[k] = r[i] /\ g[k + 1] = r[i - 1]
    BY <2>1, <2>2
  <2> QED
    BY ONLY <2>3, <2>4
<1>12. FlattenSeq([j \in 1..N |-> parts[j]]) = g[1]
  <2>1. N \in 0..N
    OBVIOUS
  <2> QED
    BY ONLY <1>5, <1>9, <1>10, <2>1
<1> HIDE DEF g
<1> QED
  BY ONLY <1>10, <1>11, <1>12 DEF Remainders

-----------------------------------------------------------------------------
(* snprintf: the parts of a directive, in its text and among the arguments. *)

\* The parts of a directive's text, and each with what comes after it.
PadPart(it) == Maybe(it.pad # " ", <<it.pad>>)
AltPart(it) == Maybe(it.alt, <<"#">>)
WidthPart(it) == IF it.star THEN <<"*">> ELSE Maybe(it.width > 0, Digits(it.width, 10))
PointPart(it) == Maybe(it.pstar \/ it.prec > 0, <<".">>)
PrecPart(it) == IF it.pstar THEN <<"*">> ELSE Maybe(it.prec > 0, Digits(it.prec, 10))
LongPart(it) == Maybe(it.long, <<"l">>)

ConvOn(it, t) == <<it.conv>> \o t
LongOn(it, t) == LongPart(it) \o ConvOn(it, t)
PrecOn(it, t) == PrecPart(it) \o LongOn(it, t)
PointOn(it, t) == PointPart(it) \o PrecOn(it, t)
WidthOn(it, t) == WidthPart(it) \o PointOn(it, t)
AltOn(it, t) == AltPart(it) \o WidthOn(it, t)
PadOn(it, t) == PadPart(it) \o AltOn(it, t)

LEMMA PartsAre ==
  ASSUME NEW it, Written(it)
  PROVE  /\ PadPart(it) \in Seq(Glyphs) /\ AltPart(it) \in Seq(Glyphs)
         /\ WidthPart(it) \in Seq(Glyphs) /\ PointPart(it) \in Seq(Glyphs)
         /\ PrecPart(it) \in Seq(Glyphs) /\ LongPart(it) \in Seq(Glyphs)
         /\ it.conv \in Glyphs /\ it.pad \in Glyphs
<1>1. /\ it.pad \in {" ", "-", "0"} /\ it.conv \in STRING /\ it.width \in Int /\ it.prec \in Int
  BY DEF Written
<1>2. /\ it.pad \in Glyphs /\ it.conv \in Glyphs /\ "#" \in Glyphs /\ "*" \in Glyphs
      /\ "." \in Glyphs /\ "l" \in Glyphs
  BY <1>1 DEF Glyphs
<1>3. \A v \in Int : v > 0 => Digits(v, 10) \in Seq(Glyphs)
  <2>1. \A v \in Int : v > 0 => v \in Nat
    OBVIOUS
  <2>2. 10 \in Bases
    BY DEF Bases
  <2> QED
    BY ONLY <2>1, <2>2, DigitsText
<1>4. << >> \in Seq(Glyphs) /\ \A c \in Glyphs : <<c>> \in Seq(Glyphs)
  OBVIOUS
<1>5. PadPart(it) \in Seq(Glyphs) /\ AltPart(it) \in Seq(Glyphs)
  BY ONLY <1>2, <1>4 DEF PadPart, AltPart, Maybe
<1>6. PointPart(it) \in Seq(Glyphs) /\ LongPart(it) \in Seq(Glyphs)
  BY ONLY <1>2, <1>4 DEF PointPart, LongPart, Maybe
<1>7. WidthPart(it) \in Seq(Glyphs)
  BY ONLY <1>1, <1>2, <1>3, <1>4 DEF WidthPart, Maybe
<1>8. PrecPart(it) \in Seq(Glyphs)
  BY ONLY <1>1, <1>2, <1>3, <1>4 DEF PrecPart, Maybe
<1> QED
  BY ONLY <1>2, <1>5, <1>6, <1>7, <1>8

LEMMA GlyphJoin ==
  ASSUME NEW s \in Seq(Glyphs), NEW t \in Seq(Glyphs)
  PROVE  s \o t \in Seq(Glyphs)
OBVIOUS

Regroups(s, t, u) == (s \o t) \o u = s \o (t \o u)

LEMMA GlyphAssoc ==
  ASSUME NEW s \in Seq(Glyphs), NEW t \in Seq(Glyphs), NEW u \in Seq(Glyphs)
  PROVE  Regroups(s, t, u)
<1>1. Associates(Glyphs)
  BY ONLY JoinAssoc
<1> QED
  BY ONLY <1>1, s \in Seq(Glyphs), t \in Seq(Glyphs), u \in Seq(Glyphs) DEF Associates, Regroups

LEMMA PartsOn ==
  ASSUME NEW it, Written(it), NEW t \in Seq(Glyphs)
  PROVE  /\ ConvOn(it, t) \in Seq(Glyphs) /\ LongOn(it, t) \in Seq(Glyphs)
         /\ PrecOn(it, t) \in Seq(Glyphs) /\ PointOn(it, t) \in Seq(Glyphs)
         /\ WidthOn(it, t) \in Seq(Glyphs) /\ AltOn(it, t) \in Seq(Glyphs)
         /\ PadOn(it, t) \in Seq(Glyphs)
<1>1. /\ PadPart(it) \in Seq(Glyphs) /\ AltPart(it) \in Seq(Glyphs)
      /\ WidthPart(it) \in Seq(Glyphs) /\ PointPart(it) \in Seq(Glyphs)
      /\ PrecPart(it) \in Seq(Glyphs) /\ LongPart(it) \in Seq(Glyphs)
      /\ it.conv \in Glyphs
  BY PartsAre
<1>2. ConvOn(it, t) \in Seq(Glyphs)
  <2>1. <<it.conv>> \in Seq(Glyphs)
    BY ONLY <1>1
  <2> QED
    BY ONLY <2>1, t \in Seq(Glyphs), GlyphJoin DEF ConvOn
<1>3. LongOn(it, t) \in Seq(Glyphs)
  BY ONLY <1>1, <1>2, GlyphJoin DEF LongOn
<1>4. PrecOn(it, t) \in Seq(Glyphs)
  BY ONLY <1>1, <1>3, GlyphJoin DEF PrecOn
<1>5. PointOn(it, t) \in Seq(Glyphs)
  BY ONLY <1>1, <1>4, GlyphJoin DEF PointOn
<1>6. WidthOn(it, t) \in Seq(Glyphs)
  BY ONLY <1>1, <1>5, GlyphJoin DEF WidthOn
<1>7. AltOn(it, t) \in Seq(Glyphs)
  BY ONLY <1>1, <1>6, GlyphJoin DEF AltOn
<1>8. PadOn(it, t) \in Seq(Glyphs)
  BY ONLY <1>1, <1>7, GlyphJoin DEF PadOn
<1> QED
  BY ONLY <1>2, <1>3, <1>4, <1>5, <1>6, <1>7, <1>8

\* The text of a directive, taken apart.
LEMMA TextSplits ==
  ASSUME NEW it, Written(it), NEW t \in Seq(Glyphs)
  PROVE  /\ it.text \in Seq(Glyphs)
         /\ it.text \o t = <<"%">> \o PadOn(it, t)
<1>1. PICK p, a, w, d, r, l, c :
        /\ p = PadPart(it) /\ a = AltPart(it) /\ w = WidthPart(it) /\ d = PointPart(it)
        /\ r = PrecPart(it) /\ l = LongPart(it) /\ c = <<it.conv>>
  OBVIOUS
<1>2. /\ p \in Seq(Glyphs) /\ a \in Seq(Glyphs) /\ w \in Seq(Glyphs) /\ d \in Seq(Glyphs)
      /\ r \in Seq(Glyphs) /\ l \in Seq(Glyphs) /\ it.conv \in Glyphs
  BY ONLY PartsAre, <1>1, Written(it)
<1>3. c \in Seq(Glyphs)
  BY ONLY <1>1, <1>2
<1>4. PICK h : h = <<"%">>
  OBVIOUS
<1>5. h \in Seq(Glyphs)
  <2>1. "%" \in Glyphs
    BY DEF Glyphs
  <2> QED
    BY ONLY <1>4, <2>1
<1>6. it.text = ((((((h \o p) \o a) \o w) \o d) \o r) \o l) \o c
  BY ONLY <1>1, <1>4, Written(it)
     DEF Written, TextOf, PadPart, AltPart, WidthPart, PointPart, PrecPart, LongPart
<1>7. PICK s1, s2, s3, s4, s5, s6 :
        /\ s1 = h \o p /\ s2 = s1 \o a /\ s3 = s2 \o w /\ s4 = s3 \o d /\ s5 = s4 \o r
        /\ s6 = s5 \o l
  OBVIOUS
<1>8. s1 \in Seq(Glyphs) /\ s2 \in Seq(Glyphs) /\ s3 \in Seq(Glyphs)
  BY ONLY <1>2, <1>5, <1>7, GlyphJoin
<1>9. s4 \in Seq(Glyphs) /\ s5 \in Seq(Glyphs) /\ s6 \in Seq(Glyphs)
  BY ONLY <1>2, <1>8, <1>7, GlyphJoin
<1>10. it.text = s6 \o c /\ it.text \in Seq(Glyphs)
  <2>1. it.text = s6 \o c
    BY ONLY <1>6, <1>7
  <2> QED
    BY ONLY <2>1, <1>9, <1>3, GlyphJoin
<1>11. PICK r7, r6, r5, r4, r3, r2, r1 :
         /\ r7 = c \o t /\ r6 = l \o r7 /\ r5 = r \o r6 /\ r4 = d \o r5 /\ r3 = w \o r4
         /\ r2 = a \o r3 /\ r1 = p \o r2
  OBVIOUS
<1>12. r7 \in Seq(Glyphs) /\ r6 \in Seq(Glyphs) /\ r5 \in Seq(Glyphs) /\ r4 \in Seq(Glyphs)
  BY ONLY <1>2, <1>3, <1>11, t \in Seq(Glyphs), GlyphJoin
<1>13. r3 \in Seq(Glyphs) /\ r2 \in Seq(Glyphs) /\ r1 \in Seq(Glyphs)
  BY ONLY <1>2, <1>12, <1>11, GlyphJoin
<1>14. r1 = PadOn(it, t)
  BY ONLY <1>1, <1>11 DEF PadOn, AltOn, WidthOn, PointOn, PrecOn, LongOn, ConvOn
<1>15. it.text \o t = s6 \o r7
  <2>1. s6 \in Seq(Glyphs) /\ c \in Seq(Glyphs) /\ t \in Seq(Glyphs)
    BY ONLY <1>3, <1>9, <1>10, <1>11, t \in Seq(Glyphs)
  <2>2. it.text = s6 \o c /\ r7 = c \o t
    BY ONLY <1>3, <1>9, <1>10, <1>11, t \in Seq(Glyphs)
  <2>3. Regroups(s6, c, t)
    BY ONLY <2>1, GlyphAssoc, Zenon
  <2> QED
    BY ONLY <2>2, <2>3, Zenon DEF Regroups
<1>16. s6 \o r7 = s5 \o r6
  <2>1. s5 \in Seq(Glyphs) /\ l \in Seq(Glyphs) /\ r7 \in Seq(Glyphs)
    BY ONLY <1>2, <1>5, <1>7, <1>8, <1>9, <1>11, <1>12, <1>13
  <2>2. s6 = s5 \o l /\ r6 = l \o r7
    BY ONLY <1>2, <1>5, <1>7, <1>8, <1>9, <1>11, <1>12, <1>13
  <2>3. Regroups(s5, l, r7)
    BY ONLY <2>1, GlyphAssoc, Zenon
  <2> QED
    BY ONLY <2>2, <2>3, Zenon DEF Regroups
<1>17. s5 \o r6 = s4 \o r5
  <2>1. s4 \in Seq(Glyphs) /\ r \in Seq(Glyphs) /\ r6 \in Seq(Glyphs)
    BY ONLY <1>2, <1>5, <1>7, <1>8, <1>9, <1>11, <1>12, <1>13
  <2>2. s5 = s4 \o r /\ r5 = r \o r6
    BY ONLY <1>2, <1>5, <1>7, <1>8, <1>9, <1>11, <1>12, <1>13
  <2>3. Regroups(s4, r, r6)
    BY ONLY <2>1, GlyphAssoc, Zenon
  <2> QED
    BY ONLY <2>2, <2>3, Zenon DEF Regroups
<1>18. s4 \o r5 = s3 \o r4
  <2>1. s3 \in Seq(Glyphs) /\ d \in Seq(Glyphs) /\ r5 \in Seq(Glyphs)
    BY ONLY <1>2, <1>5, <1>7, <1>8, <1>9, <1>11, <1>12, <1>13
  <2>2. s4 = s3 \o d /\ r4 = d \o r5
    BY ONLY <1>2, <1>5, <1>7, <1>8, <1>9, <1>11, <1>12, <1>13
  <2>3. Regroups(s3, d, r5)
    BY ONLY <2>1, GlyphAssoc, Zenon
  <2> QED
    BY ONLY <2>2, <2>3, Zenon DEF Regroups
<1>19. s3 \o r4 = s2 \o r3
  <2>1. s2 \in Seq(Glyphs) /\ w \in Seq(Glyphs) /\ r4 \in Seq(Glyphs)
    BY ONLY <1>2, <1>5, <1>7, <1>8, <1>9, <1>11, <1>12, <1>13
  <2>2. s3 = s2 \o w /\ r3 = w \o r4
    BY ONLY <1>2, <1>5, <1>7, <1>8, <1>9, <1>11, <1>12, <1>13
  <2>3. Regroups(s2, w, r4)
    BY ONLY <2>1, GlyphAssoc, Zenon
  <2> QED
    BY ONLY <2>2, <2>3, Zenon DEF Regroups
<1>20. s2 \o r3 = s1 \o r2
  <2>1. s1 \in Seq(Glyphs) /\ a \in Seq(Glyphs) /\ r3 \in Seq(Glyphs)
    BY ONLY <1>2, <1>5, <1>7, <1>8, <1>9, <1>11, <1>12, <1>13
  <2>2. s2 = s1 \o a /\ r2 = a \o r3
    BY ONLY <1>2, <1>5, <1>7, <1>8, <1>9, <1>11, <1>12, <1>13
  <2>3. Regroups(s1, a, r3)
    BY ONLY <2>1, GlyphAssoc, Zenon
  <2> QED
    BY ONLY <2>2, <2>3, Zenon DEF Regroups
<1>21. s1 \o r2 = h \o r1
  <2>1. h \in Seq(Glyphs) /\ p \in Seq(Glyphs) /\ r2 \in Seq(Glyphs)
    BY ONLY <1>2, <1>5, <1>7, <1>8, <1>9, <1>11, <1>12, <1>13
  <2>2. s1 = h \o p /\ r1 = p \o r2
    BY ONLY <1>2, <1>5, <1>7, <1>8, <1>9, <1>11, <1>12, <1>13
  <2>3. Regroups(h, p, r2)
    BY ONLY <2>1, GlyphAssoc, Zenon
  <2> QED
    BY ONLY <2>2, <2>3, Zenon DEF Regroups
<1> QED
  BY ONLY <1>4, <1>10, <1>14, <1>15, <1>16, <1>17, <1>18, <1>19, <1>20, <1>21

\* What the flags and the arguments are while a directive is read.
Slots == Int \cup STRING \cup Seq(STRING)

Fl(p, w, r, a) == [padc |-> p, width |-> w, precision |-> r, altflag |-> a]
StarArgs(it) == IF it.star THEN <<it.width % 2^IntWidth>> ELSE << >>
PstarArgs(it) == IF it.pstar THEN <<it.prec % 2^IntWidth>> ELSE << >>
ItemArgs(it) == IF it.type = "none" THEN << >> ELSE <<SlotOf(it)>>
Pointed(it) == it.pstar \/ it.prec > 0
Width0(it) == IF it.star \/ it.width > 0 THEN it.width ELSE -1
Width1(it) == IF Pointed(it) /\ Width0(it) < 0 THEN 0 ELSE Width0(it)
Prec1(it) == IF Pointed(it) THEN it.prec ELSE -1

\* The arguments from the star of the precision, and from that of the width.
PrecArgs(it, r) == PstarArgs(it) \o (ItemArgs(it) \o r)
AllArgs(it, r) == StarArgs(it) \o PrecArgs(it, r)

\* A directive of which the parts before one have been read.
AtPad(it, t, r) == fmt = PadOn(it, t) /\ flags = Fl(" ", -1, -1, FALSE) /\ ap = AllArgs(it, r)
AtAlt(it, t, r) == fmt = AltOn(it, t) /\ flags = Fl(it.pad, -1, -1, FALSE) /\ ap = AllArgs(it, r)
AtWidth(it, t, r) == fmt = WidthOn(it, t) /\ flags = Fl(it.pad, -1, -1, it.alt) /\ ap = AllArgs(it, r)
AtPoint(it, t, r) ==
  fmt = PointOn(it, t) /\ flags = Fl(it.pad, Width0(it), -1, it.alt) /\ ap = PrecArgs(it, r)
AtPrec(it, t, r) ==
  fmt = PrecOn(it, t) /\ flags = Fl(it.pad, Width1(it), -1, it.alt) /\ ap = PrecArgs(it, r)
AtLong(it, t, r) ==
  fmt = LongOn(it, t) /\ flags = Fl(it.pad, Width1(it), Prec1(it), it.alt) /\ ap = ItemArgs(it) \o r
AtConv(it, t, r) ==
  fmt = ConvOn(it, t) /\ flags = Fl(it.pad, Width1(it), Prec1(it), it.alt) /\ ap = ItemArgs(it) \o r

\* What the format goes on with: a character, or a number.
Pending(c, f) == fmt = <<c>> \o f /\ Head(fmt) = c /\ Tail(fmt) = f
PendingNumber(v, f) == fmt = Digits(v, 10) \o f /\ v \in Nat \ {0} /\ f # << >> /\ ~IsDigit(f[1])

Nines == {"1", "2", "3", "4", "5", "6", "7", "8", "9"}

LEMMA NinesAre == {Digit(d) : d \in 1..9} = Nines
<1>1. /\ Digit(1) = "1" /\ Digit(2) = "2" /\ Digit(3) = "3"
      /\ Digit(4) = "4" /\ Digit(5) = "5" /\ Digit(6) = "6" /\ Digit(7) = "7"
      /\ Digit(8) = "8" /\ Digit(9) = "9"
  BY DEF Digit, DigitOf
<1>2. \A d \in 1..9 : d \in {1, 2, 3, 4, 5, 6, 7, 8, 9}
  OBVIOUS
<1>3. \A d \in {1, 2, 3, 4, 5, 6, 7, 8, 9} : d \in 1..9
  OBVIOUS
<1>4. \A d \in 1..9 : Digit(d) \in Nines
  BY ONLY <1>1, <1>2 DEF Nines
<1>5. \A c \in Nines : \E d \in 1..9 : c = Digit(d)
  BY ONLY <1>1, <1>3 DEF Nines
<1> QED
  BY ONLY <1>4, <1>5

LEMMA DigitChars == \A c : IsDigit(c) => c = "0" \/ c \in Nines
<1>1. \A d \in 0..9 : d = 0 \/ d \in 1..9
  OBVIOUS
<1>2. Digit(0) = "0"
  BY DEF Digit, DigitOf
<1>3. \A d \in 1..9 : Digit(d) \in Nines
  BY NinesAre
<1> QED
  BY ONLY <1>1, <1>2, <1>3 DEF IsDigit

\* The conversion is none of the characters that a directive goes on after.
LEMMA ConvApart ==
  ASSUME NEW it, Written(it)
  PROVE  it.conv \notin Nines \cup {"-", "0", "#", "l", ".", "*", "NUL"}
<1>1. it.conv \notin Goes \cup {"*", "NUL", "lit"}
  BY DEF Written
<1>2. Goes = {"-", "0", "#", "l", "."} \cup Nines
  BY NinesAre DEF Goes
<1> QED
  BY <1>1, <1>2

Joins(s, t, x) ==
  /\ x \in Seq(Glyphs) /\ Len(x) = Len(s) + Len(t)
  /\ \A k \in 1..Len(s) : x[k] = s[k]
  /\ \A k \in 1..Len(t) : x[Len(s) + k] = t[k]

LEMMA JoinsAre ==
  ASSUME NEW s \in Seq(Glyphs), NEW t \in Seq(Glyphs)
  PROVE  Joins(s, t, s \o t)
BY DEF Joins

LEMMA PendingIs ==
  ASSUME NEW c \in Glyphs, NEW f \in Seq(Glyphs), fmt = <<c>> \o f
  PROVE  Pending(c, f) /\ fmt[1] = c /\ fmt # << >>
<1>1. PICK x : x = fmt
  OBVIOUS
<1>2. PICK n \in Nat : n = Len(f)
  OBVIOUS
<1>3. x \in Seq(Glyphs) /\ Len(x) = 1 + n /\ x[1] = c /\ \A k \in 1..n : x[1 + k] = f[k]
  <2>1. <<c>> \in Seq(Glyphs) /\ Len(<<c>>) = 1 /\ <<c>>[1] = c
    OBVIOUS
  <2>2. x = <<c>> \o f
    BY <1>1
  <2>3. PICK s : s = <<c>>
    OBVIOUS
  <2>4. s \in Seq(Glyphs) /\ Len(s) = 1 /\ s[1] = c /\ x = s \o f
    BY ONLY <2>1, <2>2, <2>3
  <2>5. Joins(s, f, x)
    BY ONLY <2>4, f \in Seq(Glyphs), JoinsAre
  <2> QED
    BY ONLY <1>2, <2>4, <2>5 DEF Joins
<1>4. x # << >> /\ Head(x) = c
  BY ONLY <1>3, n \in Nat
<1>5. Tail(x) = f
  <2>1. PICK t : t = Tail(x)
    OBVIOUS
  <2>2. t \in Seq(Glyphs) /\ Len(t) = n /\ \A k \in 1..n : t[k] = x[k + 1]
    BY ONLY <1>3, <1>4, <2>1, n \in Nat
  <2>3. Len(t) = Len(f) /\ \A k \in 1..Len(t) : t[k] = f[k]
    <3>1. \A k \in 1..n : k + 1 = 1 + k
      OBVIOUS
    <3> QED
      BY ONLY <1>2, <1>3, <2>2, <3>1
  <2> QED
    BY ONLY <2>1, <2>2, <2>3, SameSeq, f \in Seq(Glyphs)
<1> QED
  BY ONLY <1>1, <1>3, <1>4, <1>5, fmt = <<c>> \o f DEF Pending

LEMMA FirstChar ==
  ASSUME NEW c \in Glyphs, NEW f \in Seq(Glyphs), NEW x, x = <<c>> \o f
  PROVE  x # << >> /\ x[1] = c
<1>1. PICK s : s = <<c>>
  OBVIOUS
<1>2. s \in Seq(Glyphs) /\ Len(s) = 1 /\ s[1] = c
  BY <1>1
<1>3. PICK n \in Nat : n = Len(f)
  OBVIOUS
<1>4. Joins(s, f, x)
  BY ONLY <1>1, <1>2, x = <<c>> \o f, f \in Seq(Glyphs), JoinsAre
<1>5. x \in Seq(Glyphs) /\ Len(x) = 1 + n /\ \A k \in 1..1 : x[k] = s[k]
  BY ONLY <1>2, <1>3, <1>4 DEF Joins
<1> QED
  BY ONLY <1>2, <1>5, n \in Nat

\* The text after a width or a precision begins with no digit.
LEMMA NoDigitNext ==
  ASSUME NEW it, Written(it), NEW t \in Seq(Glyphs)
  PROVE  /\ LongOn(it, t) # << >> /\ ~IsDigit(LongOn(it, t)[1])
         /\ PointOn(it, t) # << >> /\ (Pointed(it) => ~IsDigit(PointOn(it, t)[1]))
         /\ ~Pointed(it) => ~IsDigit(PointOn(it, t)[1])
<1>1. /\ ConvOn(it, t) \in Seq(Glyphs) /\ LongOn(it, t) \in Seq(Glyphs)
      /\ PrecOn(it, t) \in Seq(Glyphs) /\ it.conv \in Glyphs /\ "l" \in Glyphs /\ "." \in Glyphs
  BY PartsOn, PartsAre DEF Glyphs
<1>2. ~IsDigit(it.conv) /\ ~IsDigit("l") /\ ~IsDigit(".")
  <2>1. it.conv # "0" /\ it.conv \notin Nines
    BY ConvApart
  <2>2. "l" \notin Nines /\ "l" # "0" /\ "." \notin Nines /\ "." # "0"
    BY DEF Nines
  <2> QED
    BY ONLY <2>1, <2>2, DigitChars
<1>3. ConvOn(it, t) # << >> /\ ConvOn(it, t)[1] = it.conv
  <2>1. PICK x : x = ConvOn(it, t)
    OBVIOUS
  <2>2. x = <<it.conv>> \o t
    BY ONLY <2>1 DEF ConvOn
  <2> QED
    BY ONLY <1>1, <2>1, <2>2, FirstChar, t \in Seq(Glyphs)
<1>4. LongOn(it, t) # << >> /\ ~IsDigit(LongOn(it, t)[1])
  <2>1. PICK x, y : x = LongOn(it, t) /\ y = ConvOn(it, t)
    OBVIOUS
  <2>2. CASE it.long
    <3>1. x = <<"l">> \o y
      BY ONLY <2>1, <2>2 DEF LongOn, LongPart, Maybe
    <3>2. x # << >> /\ x[1] = "l"
      BY ONLY <1>1, <2>1, <3>1, FirstChar
    <3> QED
      BY ONLY <1>2, <2>1, <3>2
  <2>3. CASE ~it.long
    <3>1. x = << >> \o y
      BY ONLY <2>1, <2>3 DEF LongOn, LongPart, Maybe
    <3>2. x = y
      BY ONLY <1>1, <2>1, <3>1
    <3> QED
      BY ONLY <1>2, <1>3, <2>1, <3>2
  <2> QED
    BY <2>2, <2>3
<1>5. Pointed(it) => PointOn(it, t) # << >> /\ ~IsDigit(PointOn(it, t)[1])
  <2> SUFFICES ASSUME Pointed(it) PROVE PointOn(it, t) # << >> /\ ~IsDigit(PointOn(it, t)[1])
    OBVIOUS
  <2>1. PICK x, y : x = PointOn(it, t) /\ y = PrecOn(it, t)
    OBVIOUS
  <2>2. x = <<".">> \o y
    BY ONLY <2>1, Pointed(it) DEF PointOn, PointPart, Maybe, Pointed
  <2>3. x # << >> /\ x[1] = "."
    BY ONLY <1>1, <2>1, <2>2, FirstChar
  <2> QED
    BY ONLY <1>2, <2>1, <2>3
<1>6. ~Pointed(it) => PointOn(it, t) = LongOn(it, t)
  <2> SUFFICES ASSUME ~Pointed(it) PROVE PointOn(it, t) = LongOn(it, t)
    OBVIOUS
  <2>1. PICK x, y, z : x = PointOn(it, t) /\ y = PrecOn(it, t) /\ z = LongOn(it, t)
    OBVIOUS
  <2>2. x = << >> \o y /\ y = << >> \o z
    BY ONLY <2>1, ~Pointed(it) DEF PointOn, PointPart, PrecOn, PrecPart, Maybe, Pointed
  <2> QED
    BY ONLY <1>1, <2>1, <2>2
<1> QED
  BY <1>4, <1>5, <1>6

LEMMA SlotAssoc ==
  ASSUME NEW s \in Seq(Slots), NEW t \in Seq(Slots), NEW u \in Seq(Slots)
  PROVE  Regroups(s, t, u)
<1>1. Associates(Slots)
  BY ONLY JoinAssoc
<1> QED
  BY ONLY <1>1, s \in Seq(Slots), t \in Seq(Slots), u \in Seq(Slots) DEF Associates, Regroups

\* The arguments of a directive.
LEMMA ArgsAre ==
  ASSUME NEW it, Written(it), NEW r \in Seq(Slots)
  PROVE  /\ ArgsOf(it) \o r = AllArgs(it, r) /\ ArgsOf(it) \in Seq(Slots)
         /\ ItemArgs(it) \o r \in Seq(Slots) /\ PrecArgs(it, r) \in Seq(Slots)
         /\ it.type # "none" => SlotOf(it) \in Slots
<1>1. /\ it.width \in Int /\ it.prec \in Int /\ Takable(it)
  BY DEF Written
<1>2. IntWidth \in Nat \ {0} /\ LongWidth \in Nat \ {0}
  BY FmtWidthAssumption DEF FmtWidthAssumption
<1>3. \A v \in Int : v % 2^IntWidth \in Slots /\ v % 2^LongWidth \in Slots
  <2>1. PICK P \in Nat \ {0}, Q \in Nat \ {0} : P = 2^IntWidth /\ Q = 2^LongWidth
    BY ONLY <1>2, PowerOfTwo
  <2>2. ASSUME NEW v \in Int PROVE v % P \in Int /\ v % Q \in Int
    OBVIOUS
  <2> QED
    BY ONLY <2>1, <2>2 DEF Slots
<1>4. it.type # "none" => SlotOf(it) \in Slots
  <2> SUFFICES ASSUME it.type # "none" PROVE SlotOf(it) \in Slots
    OBVIOUS
  <2>1. CASE it.type = "str" \/ it.type = "char"
    <3>1. it.s \in Seq(STRING) /\ (it.type = "char" => Len(it.s) = 1)
      BY <1>1, <2>1 DEF Takable
    <3>2. it.type = "char" => it.s[1] \in STRING
      BY ONLY <3>1
    <3> QED
      BY ONLY <2>1, <3>1, <3>2 DEF SlotOf, Slots
  <2>2. CASE it.type # "str" /\ it.type # "char"
    <3>1. it.type \in {"int", "long"} /\ it.v \in Int
      <4>1. PICK w : w = IF it.type = "int" THEN IntWidth ELSE LongWidth
        OBVIOUS
      <4>2. PICK P \in Nat \ {0}, H \in Nat \ {0} : P = 2^w /\ H = 2^(w-1)
        <5>1. w \in Nat \ {0} /\ w - 1 \in Nat
          BY ONLY <1>2, <4>1
        <5> QED
          BY ONLY <5>1, PowerOfTwo
      <4>3. CASE it.conv = "e"
        <5>1. it.type = "int" /\ it.v \in SignedIn(IntWidth)
          BY ONLY <1>1, <4>3 DEF Takable
        <5>2. w = IntWidth
          BY ONLY <4>1, <5>1
        <5>3. it.v \in -H..H-1
          BY ONLY <4>2, <5>1, <5>2 DEF SignedIn
        <5> QED
          BY ONLY <5>1, <5>3, H \in Nat \ {0}
      <4>4. CASE it.conv \in {"d", "u", "o", "x", "p"}
        <5>1. it.type \in {"int", "long"} /\ it.v \in SignedIn(w) \cup 0..2^w-1
          BY ONLY <1>1, <4>1, <4>4 DEF Takable
        <5>2. it.v \in -H..H-1 \/ it.v \in 0..P-1
          BY ONLY <4>2, <5>1 DEF SignedIn
        <5> QED
          BY ONLY <5>1, <5>2, H \in Nat \ {0}, P \in Nat \ {0}
      <4>5. CASE it.conv \notin {"d", "u", "o", "x", "p", "e"}
        BY ONLY <1>1, <2>2, <4>5, it.type # "none" DEF Takable
      <4> QED
        BY <4>3, <4>4, <4>5
    <3>2. SlotOf(it) = it.v % 2^(IF it.type = "int" THEN IntWidth ELSE LongWidth)
      BY ONLY <2>2 DEF SlotOf
    <3> QED
      BY ONLY <1>3, <3>1, <3>2
  <2> QED
    BY <2>1, <2>2
<1>5. << >> \in Seq(Slots) /\ \A x \in Slots : <<x>> \in Seq(Slots)
  OBVIOUS
<1>6. PICK s, p, i : s = StarArgs(it) /\ p = PstarArgs(it) /\ i = ItemArgs(it)
  OBVIOUS
<1>7. s \in Seq(Slots) /\ p \in Seq(Slots)
  BY ONLY <1>1, <1>3, <1>5, <1>6 DEF StarArgs, PstarArgs
<1>8. i \in Seq(Slots)
  BY ONLY <1>4, <1>5, <1>6 DEF ItemArgs
<1>9. ArgsOf(it) = (s \o p) \o i
  BY ONLY <1>6 DEF ArgsOf, StarArgs, PstarArgs, ItemArgs
<1>10. ASSUME NEW x \in Seq(Slots), NEW y \in Seq(Slots) PROVE x \o y \in Seq(Slots)
  OBVIOUS
<1>11. PICK sp, ir : sp = s \o p /\ ir = i \o r
  OBVIOUS
<1>12. sp \in Seq(Slots) /\ ir \in Seq(Slots) /\ p \o ir \in Seq(Slots) /\ sp \o i \in Seq(Slots)
  BY ONLY <1>7, <1>8, <1>10, <1>11, r \in Seq(Slots)
<1>13. (sp \o i) \o r = sp \o (i \o r)
  <2>1. Regroups(sp, i, r)
    BY ONLY <1>8, <1>12, SlotAssoc, r \in Seq(Slots)
  <2> QED
    BY ONLY <2>1 DEF Regroups
<1>14. (s \o p) \o ir = s \o (p \o ir)
  <2>1. Regroups(s, p, ir)
    BY ONLY <1>7, <1>12, SlotAssoc
  <2> QED
    BY ONLY <2>1 DEF Regroups
<1>15. (sp \o i) \o r = s \o (p \o ir)
  BY ONLY <1>11, <1>13, <1>14
<1>16. PrecArgs(it, r) = p \o ir /\ AllArgs(it, r) = s \o (p \o ir)
  BY ONLY <1>6, <1>11 DEF PrecArgs, AllArgs
<1> QED
  BY ONLY <1>4, <1>6, <1>9, <1>11, <1>12, <1>15, <1>16

Item(it, t, r) == Written(it) /\ t \in Seq(Glyphs) /\ r \in Seq(Slots)

InDirective(it, t, r) ==
  \/ AtPad(it, t, r) \/ AtAlt(it, t, r) \/ AtWidth(it, t, r) \/ AtPoint(it, t, r)
  \/ AtPrec(it, t, r) \/ AtLong(it, t, r) \/ AtConv(it, t, r)

NextPart(it, t, r) ==
  \/ AtPad(it, t, r) /\ it.pad \in {"-", "0"} /\ Pending(it.pad, AltOn(it, t))
  \/ AtAlt(it, t, r) /\ it.alt /\ Pending("#", WidthOn(it, t))
  \/ AtWidth(it, t, r) /\ it.star /\ Pending("*", PointOn(it, t))
  \/ AtWidth(it, t, r) /\ ~it.star /\ PendingNumber(it.width, PointOn(it, t))
  \/ AtPoint(it, t, r) /\ Pointed(it) /\ Pending(".", PrecOn(it, t))
  \/ AtPrec(it, t, r) /\ it.pstar /\ Pending("*", LongOn(it, t))
  \/ AtPrec(it, t, r) /\ ~it.pstar /\ PendingNumber(it.prec, LongOn(it, t))
  \/ AtLong(it, t, r) /\ it.long /\ Pending("l", ConvOn(it, t))
  \/ AtConv(it, t, r) /\ Pending(it.conv, t)

LEMMA NoneFirst == /\ \A s \in Seq(Glyphs) : << >> \o s = s
                   /\ \A s \in Seq(Slots) : << >> \o s = s
<1>1. ASSUME NEW s \in Seq(Glyphs) PROVE << >> \o s = s
  OBVIOUS
<1>2. ASSUME NEW s \in Seq(Slots) PROVE << >> \o s = s
  OBVIOUS
<1> QED
  BY ONLY <1>1, <1>2

LEMMA OnSeqs ==
  ASSUME NEW it, NEW t, NEW r, Item(it, t, r)
  PROVE  /\ t \in Seq(Glyphs) /\ Written(it)
         /\ ConvOn(it, t) \in Seq(Glyphs) /\ LongOn(it, t) \in Seq(Glyphs)
         /\ PrecOn(it, t) \in Seq(Glyphs) /\ PointOn(it, t) \in Seq(Glyphs)
         /\ WidthOn(it, t) \in Seq(Glyphs) /\ AltOn(it, t) \in Seq(Glyphs)
         /\ ItemArgs(it) \o r \in Seq(Slots) /\ PrecArgs(it, r) \in Seq(Slots)
         /\ it.conv \in Glyphs /\ it.pad \in Glyphs
         /\ "#" \in Glyphs /\ "*" \in Glyphs /\ "." \in Glyphs /\ "l" \in Glyphs
         /\ it.width \in Int /\ it.prec \in Int /\ it.pad \in {" ", "-", "0"}
         /\ it.alt \in BOOLEAN
<1>1. Written(it) /\ t \in Seq(Glyphs) /\ r \in Seq(Slots)
  BY DEF Item
<1>2. "#" \in Glyphs /\ "*" \in Glyphs /\ "." \in Glyphs /\ "l" \in Glyphs
  BY DEF Glyphs
<1>3. it.width \in Int /\ it.prec \in Int /\ it.pad \in {" ", "-", "0"} /\ it.alt \in BOOLEAN
  BY <1>1 DEF Written
<1>5. /\ ConvOn(it, t) \in Seq(Glyphs) /\ LongOn(it, t) \in Seq(Glyphs)
      /\ PrecOn(it, t) \in Seq(Glyphs) /\ PointOn(it, t) \in Seq(Glyphs)
      /\ WidthOn(it, t) \in Seq(Glyphs) /\ AltOn(it, t) \in Seq(Glyphs)
  BY ONLY <1>1, PartsOn
<1>6. ItemArgs(it) \o r \in Seq(Slots) /\ PrecArgs(it, r) \in Seq(Slots)
  BY ONLY <1>1, ArgsAre
<1>7. it.conv \in Glyphs /\ it.pad \in Glyphs
  BY ONLY <1>1, PartsAre
<1> QED
  BY ONLY <1>1, <1>2, <1>3, <1>5, <1>6, <1>7

LEMMA PadNext ==
  ASSUME NEW it, NEW t, NEW r, Item(it, t, r), AtPad(it, t, r)
  PROVE  NextPart(it, t, r) \/ AtAlt(it, t, r)
<1>1. CASE it.pad = " "
  <2>1. PadOn(it, t) = << >> \o AltOn(it, t)
    BY ONLY <1>1 DEF PadOn, PadPart, Maybe
  <2>2. fmt = AltOn(it, t)
    <3>1. fmt = << >> \o AltOn(it, t)
      BY ONLY <2>1, AtPad(it, t, r) DEF AtPad
    <3>2. AltOn(it, t) \in Seq(Glyphs)
      BY ONLY OnSeqs, Item(it, t, r)
    <3> QED
      BY ONLY <3>1, <3>2, NoneFirst
  <2> QED
    BY <1>1, <2>2 DEF AtPad, AtAlt
<1>2. CASE it.pad # " "
  <2>1. fmt = <<it.pad>> \o AltOn(it, t)
    BY ONLY <1>2, AtPad(it, t, r) DEF AtPad, PadOn, PadPart, Maybe
  <2>2. it.pad \in Glyphs /\ AltOn(it, t) \in Seq(Glyphs) /\ it.pad \in {" ", "-", "0"}
    BY ONLY OnSeqs, Item(it, t, r)
  <2>3. Pending(it.pad, AltOn(it, t))
    BY ONLY <2>1, <2>2, PendingIs
  <2> QED
    BY ONLY <1>2, <2>2, <2>3, AtPad(it, t, r) DEF NextPart
<1> QED
  BY <1>1, <1>2

LEMMA AltNext ==
  ASSUME NEW it, NEW t, NEW r, Item(it, t, r), AtAlt(it, t, r)
  PROVE  NextPart(it, t, r) \/ AtWidth(it, t, r)
<1>1. CASE ~it.alt
  <2>1. AltOn(it, t) = << >> \o WidthOn(it, t)
    BY ONLY <1>1 DEF AltOn, AltPart, Maybe
  <2>2. fmt = WidthOn(it, t)
    <3>1. fmt = << >> \o WidthOn(it, t)
      BY ONLY <2>1, AtAlt(it, t, r) DEF AtAlt
    <3>2. WidthOn(it, t) \in Seq(Glyphs)
      BY ONLY OnSeqs, Item(it, t, r)
    <3> QED
      BY ONLY <3>1, <3>2, NoneFirst
  <2>3. it.alt = FALSE
    <3>1. it.alt \in BOOLEAN
      BY ONLY OnSeqs, Item(it, t, r)
    <3> QED
      BY ONLY <1>1, <3>1
  <2> QED
    BY ONLY <2>2, <2>3, AtAlt(it, t, r), Zenon DEF AtAlt, AtWidth
<1>2. CASE it.alt
  <2>1. fmt = <<"#">> \o WidthOn(it, t)
    BY ONLY <1>2, AtAlt(it, t, r) DEF AtAlt, AltOn, AltPart, Maybe
  <2>2. "#" \in Glyphs /\ WidthOn(it, t) \in Seq(Glyphs)
    BY ONLY OnSeqs, Item(it, t, r)
  <2>3. Pending("#", WidthOn(it, t))
    BY ONLY <2>1, <2>2, PendingIs
  <2> QED
    BY ONLY <1>2, <2>3, AtAlt(it, t, r) DEF NextPart
<1> QED
  BY <1>1, <1>2

LEMMA WidthNext ==
  ASSUME NEW it, NEW t, NEW r, Item(it, t, r), AtWidth(it, t, r)
  PROVE  NextPart(it, t, r) \/ AtPoint(it, t, r)
<1>1. CASE it.star
  <2>1. fmt = <<"*">> \o PointOn(it, t)
    BY ONLY <1>1, AtWidth(it, t, r) DEF AtWidth, WidthOn, WidthPart
  <2>2. "*" \in Glyphs /\ PointOn(it, t) \in Seq(Glyphs)
    BY ONLY OnSeqs, Item(it, t, r)
  <2>3. Pending("*", PointOn(it, t))
    BY ONLY <2>1, <2>2, PendingIs
  <2> QED
    BY ONLY <1>1, <2>3, AtWidth(it, t, r) DEF NextPart
<1>2. CASE ~it.star /\ it.width > 0
  <2>1. fmt = Digits(it.width, 10) \o PointOn(it, t)
    BY ONLY <1>2, AtWidth(it, t, r) DEF AtWidth, WidthOn, WidthPart, Maybe
  <2>2. it.width \in Int /\ Written(it) /\ t \in Seq(Glyphs)
    BY ONLY OnSeqs, Item(it, t, r)
  <2>3. PointOn(it, t) # << >> /\ ~IsDigit(PointOn(it, t)[1])
    BY ONLY <2>2, NoDigitNext
  <2>4. it.width \in Nat \ {0}
    BY ONLY <1>2, <2>2
  <2>5. PendingNumber(it.width, PointOn(it, t))
    BY ONLY <2>1, <2>3, <2>4 DEF PendingNumber
  <2> QED
    BY ONLY <1>2, <2>5, AtWidth(it, t, r) DEF NextPart
<1>3. CASE ~it.star /\ ~(it.width > 0)
  <2>1. WidthOn(it, t) = << >> \o PointOn(it, t)
    BY ONLY <1>3 DEF WidthOn, WidthPart, Maybe
  <2>2. fmt = PointOn(it, t)
    <3>1. fmt = << >> \o PointOn(it, t)
      BY ONLY <2>1, AtWidth(it, t, r) DEF AtWidth
    <3>2. PointOn(it, t) \in Seq(Glyphs)
      BY ONLY OnSeqs, Item(it, t, r)
    <3> QED
      BY ONLY <3>1, <3>2, NoneFirst
  <2>3. AllArgs(it, r) = << >> \o PrecArgs(it, r)
    BY ONLY <1>3 DEF AllArgs, StarArgs
  <2>4. ap = PrecArgs(it, r)
    <3>1. ap = << >> \o PrecArgs(it, r)
      BY ONLY <2>3, AtWidth(it, t, r) DEF AtWidth
    <3>2. PrecArgs(it, r) \in Seq(Slots)
      BY ONLY OnSeqs, Item(it, t, r)
    <3> QED
      BY ONLY <3>1, <3>2, NoneFirst
  <2>5. Width0(it) = -1
    BY ONLY <1>3 DEF Width0
  <2>6. flags = Fl(it.pad, -1, -1, it.alt)
    BY ONLY AtWidth(it, t, r) DEF AtWidth
  <2> QED
    BY ONLY <2>2, <2>4, <2>5, <2>6, Zenon DEF AtPoint
<1> QED
  BY <1>1, <1>2, <1>3

LEMMA PointNext ==
  ASSUME NEW it, NEW t, NEW r, Item(it, t, r), AtPoint(it, t, r)
  PROVE  NextPart(it, t, r) \/ AtPrec(it, t, r)
<1>1. CASE ~Pointed(it)
  <2>1. PointOn(it, t) = << >> \o PrecOn(it, t)
    BY ONLY <1>1 DEF PointOn, PointPart, Maybe, Pointed
  <2>2. fmt = PrecOn(it, t)
    <3>1. fmt = << >> \o PrecOn(it, t)
      BY ONLY <2>1, AtPoint(it, t, r) DEF AtPoint
    <3>2. PrecOn(it, t) \in Seq(Glyphs)
      BY ONLY OnSeqs, Item(it, t, r)
    <3> QED
      BY ONLY <3>1, <3>2, NoneFirst
  <2>3. Width1(it) = Width0(it)
    BY ONLY <1>1 DEF Width1
  <2> QED
    BY ONLY <2>2, <2>3, AtPoint(it, t, r), Zenon DEF AtPoint, AtPrec
<1>2. CASE Pointed(it)
  <2>1. fmt = <<".">> \o PrecOn(it, t)
    BY ONLY <1>2, AtPoint(it, t, r) DEF AtPoint, PointOn, PointPart, Maybe, Pointed
  <2>2. "." \in Glyphs /\ PrecOn(it, t) \in Seq(Glyphs)
    BY ONLY OnSeqs, Item(it, t, r)
  <2>3. Pending(".", PrecOn(it, t))
    BY ONLY <2>1, <2>2, PendingIs
  <2> QED
    BY ONLY <1>2, <2>3, AtPoint(it, t, r) DEF NextPart
<1> QED
  BY <1>1, <1>2

LEMMA PrecNext ==
  ASSUME NEW it, NEW t, NEW r, Item(it, t, r), AtPrec(it, t, r)
  PROVE  NextPart(it, t, r) \/ AtLong(it, t, r)
<1>1. CASE it.pstar
  <2>1. fmt = <<"*">> \o LongOn(it, t)
    BY ONLY <1>1, AtPrec(it, t, r) DEF AtPrec, PrecOn, PrecPart
  <2>2. "*" \in Glyphs /\ LongOn(it, t) \in Seq(Glyphs)
    BY ONLY OnSeqs, Item(it, t, r)
  <2>3. Pending("*", LongOn(it, t))
    BY ONLY <2>1, <2>2, PendingIs
  <2> QED
    BY ONLY <1>1, <2>3, AtPrec(it, t, r) DEF NextPart
<1>2. CASE ~it.pstar /\ it.prec > 0
  <2>1. fmt = Digits(it.prec, 10) \o LongOn(it, t)
    BY ONLY <1>2, AtPrec(it, t, r) DEF AtPrec, PrecOn, PrecPart, Maybe
  <2>2. it.prec \in Int /\ Written(it) /\ t \in Seq(Glyphs)
    BY ONLY OnSeqs, Item(it, t, r)
  <2>3. LongOn(it, t) # << >> /\ ~IsDigit(LongOn(it, t)[1])
    BY ONLY <2>2, NoDigitNext
  <2>4. it.prec \in Nat \ {0}
    BY ONLY <1>2, <2>2
  <2>5. PendingNumber(it.prec, LongOn(it, t))
    BY ONLY <2>1, <2>3, <2>4 DEF PendingNumber
  <2> QED
    BY ONLY <1>2, <2>5, AtPrec(it, t, r) DEF NextPart
<1>3. CASE ~it.pstar /\ ~(it.prec > 0)
  <2>1. PrecOn(it, t) = << >> \o LongOn(it, t)
    BY ONLY <1>3 DEF PrecOn, PrecPart, Maybe
  <2>2. fmt = LongOn(it, t)
    <3>1. fmt = << >> \o LongOn(it, t)
      BY ONLY <2>1, AtPrec(it, t, r) DEF AtPrec
    <3>2. LongOn(it, t) \in Seq(Glyphs)
      BY ONLY OnSeqs, Item(it, t, r)
    <3> QED
      BY ONLY <3>1, <3>2, NoneFirst
  <2>3. PrecArgs(it, r) = << >> \o (ItemArgs(it) \o r)
    BY ONLY <1>3 DEF PrecArgs, PstarArgs
  <2>4. ap = ItemArgs(it) \o r
    <3>1. ap = << >> \o (ItemArgs(it) \o r)
      BY ONLY <2>3, AtPrec(it, t, r) DEF AtPrec
    <3>2. ItemArgs(it) \o r \in Seq(Slots)
      BY ONLY OnSeqs, Item(it, t, r)
    <3> QED
      BY ONLY <3>1, <3>2, NoneFirst
  <2>5. Prec1(it) = -1
    BY ONLY <1>3 DEF Prec1, Pointed
  <2>6. flags = Fl(it.pad, Width1(it), -1, it.alt)
    BY ONLY AtPrec(it, t, r) DEF AtPrec
  <2> QED
    BY ONLY <2>2, <2>4, <2>5, <2>6, Zenon DEF AtLong
<1> QED
  BY <1>1, <1>2, <1>3

LEMMA LongNext ==
  ASSUME NEW it, NEW t, NEW r, Item(it, t, r), AtLong(it, t, r)
  PROVE  NextPart(it, t, r) \/ AtConv(it, t, r)
<1>1. CASE ~it.long
  <2>1. LongOn(it, t) = << >> \o ConvOn(it, t)
    BY ONLY <1>1 DEF LongOn, LongPart, Maybe
  <2>2. fmt = ConvOn(it, t)
    <3>1. fmt = << >> \o ConvOn(it, t)
      BY ONLY <2>1, AtLong(it, t, r) DEF AtLong
    <3>2. ConvOn(it, t) \in Seq(Glyphs)
      BY ONLY OnSeqs, Item(it, t, r)
    <3> QED
      BY ONLY <3>1, <3>2, NoneFirst
  <2> QED
    BY ONLY <2>2, AtLong(it, t, r) DEF AtLong, AtConv
<1>2. CASE it.long
  <2>1. fmt = <<"l">> \o ConvOn(it, t)
    BY ONLY <1>2, AtLong(it, t, r) DEF AtLong, LongOn, LongPart, Maybe
  <2>2. "l" \in Glyphs /\ ConvOn(it, t) \in Seq(Glyphs)
    BY ONLY OnSeqs, Item(it, t, r)
  <2>3. Pending("l", ConvOn(it, t))
    BY ONLY <2>1, <2>2, PendingIs
  <2> QED
    BY ONLY <1>2, <2>3, AtLong(it, t, r) DEF NextPart
<1> QED
  BY <1>1, <1>2

LEMMA ConvNext ==
  ASSUME NEW it, NEW t, NEW r, Item(it, t, r), AtConv(it, t, r)
  PROVE  NextPart(it, t, r)
<1>1. fmt = <<it.conv>> \o t
  BY DEF AtConv, ConvOn
<1>2. it.conv \in Glyphs /\ t \in Seq(Glyphs)
  BY ONLY OnSeqs, Item(it, t, r)
<1>3. Pending(it.conv, t)
  BY ONLY <1>1, <1>2, PendingIs
<1> QED
  BY ONLY <1>3, AtConv(it, t, r) DEF NextPart

\* The part that a directive goes on with, past those that it does not have.
LEMMA NextPartIs ==
  ASSUME NEW it, NEW t, NEW r, Item(it, t, r), InDirective(it, t, r)
  PROVE  NextPart(it, t, r)
<1>1. AtLong(it, t, r) => NextPart(it, t, r)
  BY LongNext, ConvNext
<1>2. AtPrec(it, t, r) => NextPart(it, t, r)
  BY <1>1, PrecNext
<1>3. AtPoint(it, t, r) => NextPart(it, t, r)
  BY <1>2, PointNext
<1>4. AtWidth(it, t, r) => NextPart(it, t, r)
  BY <1>3, WidthNext
<1>5. AtAlt(it, t, r) => NextPart(it, t, r)
  BY <1>4, AltNext
<1> QED
  BY ONLY <1>1, <1>2, <1>3, <1>4, <1>5, InDirective(it, t, r), Item(it, t, r), PadNext, ConvNext
     DEF InDirective

-----------------------------------------------------------------------------
(* snprintf: what a case of the switch does to a directive that is read in part. *)

Flagging == Nines \cup {"-", "0", "#", "l", ".", "*"}

LEMMA NumberHead ==
  ASSUME NEW v, NEW f \in Seq(Glyphs), PendingNumber(v, f)
  PROVE  /\ Head(fmt) \in Nines /\ v \in Nat \ {0}
         /\ NumberValue(fmt, NumberLen(fmt)) = v
         /\ SubSeq(fmt, NumberLen(fmt) + 1, Len(fmt)) = f
<1>1. v \in Nat \ {0} /\ f # << >> /\ ~IsDigit(f[1]) /\ fmt = Digits(v, 10) \o f
  BY DEF PendingNumber
<1>2. PICK x : x = fmt
  OBVIOUS
<1>3. /\ Head(x) \in {Digit(d) : d \in 1..9}
      /\ NumberValue(x, NumberLen(x)) = v
      /\ SubSeq(x, NumberLen(x) + 1, Len(x)) = f
  BY ONLY <1>1, <1>2, f \in Seq(Glyphs), NumberRead
<1> QED
  BY ONLY <1>1, <1>2, <1>3, NinesAre

\* The first character says which part is read.
LEMMA Chosen ==
  ASSUME NEW it, NEW t, NEW r, Item(it, t, r), NextPart(it, t, r)
  PROVE  /\ Head(fmt) \in {"-", "0"} => AtPad(it, t, r) /\ Pending(it.pad, AltOn(it, t))
         /\ Head(fmt) = "#" => AtAlt(it, t, r) /\ it.alt /\ Pending("#", WidthOn(it, t))
         /\ Head(fmt) = "*" =>
              \/ AtWidth(it, t, r) /\ it.star /\ Pending("*", PointOn(it, t))
              \/ AtPrec(it, t, r) /\ it.pstar /\ Pending("*", LongOn(it, t))
         /\ Head(fmt) \in Nines =>
              \/ AtWidth(it, t, r) /\ ~it.star /\ PendingNumber(it.width, PointOn(it, t))
              \/ AtPrec(it, t, r) /\ ~it.pstar /\ PendingNumber(it.prec, LongOn(it, t))
         /\ Head(fmt) = "." => AtPoint(it, t, r) /\ Pointed(it) /\ Pending(".", PrecOn(it, t))
         /\ Head(fmt) = "l" => AtLong(it, t, r) /\ it.long /\ Pending("l", ConvOn(it, t))
         /\ Head(fmt) \notin Flagging => AtConv(it, t, r) /\ Pending(it.conv, t)
<1>1. PICK h : h = Head(fmt)
  OBVIOUS
<1>2. \A c, f : Pending(c, f) => h = c
  BY <1>1 DEF Pending
<1>3. PendingNumber(it.width, PointOn(it, t)) => h \in Nines
  <2>1. PointOn(it, t) \in Seq(Glyphs)
    BY ONLY OnSeqs, Item(it, t, r)
  <2> QED
    BY ONLY <1>1, <2>1, NumberHead
<1>4. PendingNumber(it.prec, LongOn(it, t)) => h \in Nines
  <2>1. LongOn(it, t) \in Seq(Glyphs)
    BY ONLY OnSeqs, Item(it, t, r)
  <2> QED
    BY ONLY <1>1, <2>1, NumberHead
<1>5. it.conv \notin Flagging
  <2>1. Written(it)
    BY ONLY Item(it, t, r) DEF Item
  <2> QED
    BY ONLY <2>1, ConvApart DEF Flagging
<1>6. Flagging = Nines \cup {"-", "0", "#", "l", ".", "*"}
  BY DEF Flagging
<1>7. "-" \notin Nines /\ "0" \notin Nines /\ "#" \notin Nines /\ "l" \notin Nines
      /\ "." \notin Nines /\ "*" \notin Nines
  BY DEF Nines
<1>8. CASE h \in {"-", "0"}
  <2>1. AtPad(it, t, r) /\ Pending(it.pad, AltOn(it, t))
    BY ONLY <1>2, <1>3, <1>4, <1>5, <1>6, <1>7, <1>8, NextPart(it, t, r) DEF NextPart
  <2> QED
    BY ONLY <1>1, <1>6, <1>7, <1>8, <2>1
<1>9. CASE h = "#"
  <2>1. AtAlt(it, t, r) /\ it.alt /\ Pending("#", WidthOn(it, t))
    BY ONLY <1>2, <1>3, <1>4, <1>5, <1>6, <1>7, <1>9, NextPart(it, t, r) DEF NextPart
  <2> QED
    BY ONLY <1>1, <1>6, <1>7, <1>9, <2>1
<1>10. CASE h = "*"
  <2>1. \/ AtWidth(it, t, r) /\ it.star /\ Pending("*", PointOn(it, t))
        \/ AtPrec(it, t, r) /\ it.pstar /\ Pending("*", LongOn(it, t))
    BY ONLY <1>2, <1>3, <1>4, <1>5, <1>6, <1>7, <1>10, NextPart(it, t, r) DEF NextPart
  <2> QED
    BY ONLY <1>1, <1>6, <1>7, <1>10, <2>1
<1>11. CASE h \in Nines
  <2>1. \/ AtWidth(it, t, r) /\ ~it.star /\ PendingNumber(it.width, PointOn(it, t))
        \/ AtPrec(it, t, r) /\ ~it.pstar /\ PendingNumber(it.prec, LongOn(it, t))
    BY ONLY <1>2, <1>5, <1>6, <1>7, <1>11, NextPart(it, t, r) DEF NextPart
  <2> QED
    BY ONLY <1>1, <1>6, <1>7, <1>11, <2>1
<1>12. CASE h = "."
  <2>1. AtPoint(it, t, r) /\ Pointed(it) /\ Pending(".", PrecOn(it, t))
    BY ONLY <1>2, <1>3, <1>4, <1>5, <1>6, <1>7, <1>12, NextPart(it, t, r) DEF NextPart
  <2> QED
    BY ONLY <1>1, <1>6, <1>7, <1>12, <2>1
<1>13. CASE h = "l"
  <2>1. AtLong(it, t, r) /\ it.long /\ Pending("l", ConvOn(it, t))
    BY ONLY <1>2, <1>3, <1>4, <1>5, <1>6, <1>7, <1>13, NextPart(it, t, r) DEF NextPart
  <2> QED
    BY ONLY <1>1, <1>6, <1>7, <1>13, <2>1
<1>14. CASE h \notin Flagging
  <2>1. AtConv(it, t, r) /\ Pending(it.conv, t)
    BY ONLY <1>2, <1>3, <1>4, <1>5, <1>6, <1>14, NextPart(it, t, r) DEF NextPart
  <2> QED
    BY ONLY <1>1, <1>6, <1>14, <2>1
<1> QED
  BY ONLY <1>6, <1>8, <1>9, <1>10, <1>11, <1>12, <1>13, <1>14

\* Each flag takes the directive a part further.
LEMMA FlagReads ==
  ASSUME NEW it, NEW t, NEW r, Item(it, t, r), NextPart(it, t, r),
         PadFlag \/ Alternate \/ Long \/ Point
  PROVE  InDirective(it, t, r)'
<1>1. CASE PadFlag
  <2>1. /\ Head(fmt) \in {"-", "0"} /\ fmt' = Tail(fmt) /\ ap' = ap
        /\ flags' = [flags EXCEPT !.padc = Head(fmt)]
    BY ONLY <1>1 DEF PadFlag, At, Reswitch, FmtStep
  <2>2. AtPad(it, t, r) /\ Pending(it.pad, AltOn(it, t))
    BY ONLY <2>1, Chosen, Item(it, t, r), NextPart(it, t, r)
  <2>3. PICK c, m : c = it.pad /\ m = -1
    OBVIOUS
  <2>4. fmt' = AltOn(it, t) /\ Head(fmt) = c
    BY ONLY <2>1, <2>2, <2>3 DEF Pending
  <2>5. flags = [padc |-> " ", width |-> m, precision |-> m, altflag |-> FALSE] /\ ap = AllArgs(it, r)
    BY ONLY <2>2, <2>3 DEF AtPad, Fl
  <2>6. flags' = [padc |-> c, width |-> m, precision |-> m, altflag |-> FALSE]
    BY ONLY <2>1, <2>4, <2>5
  <2>7. AtAlt(it, t, r)'
    BY ONLY <2>1, <2>3, <2>4, <2>5, <2>6, Zenon DEF AtAlt, Fl
  <2> QED
    BY <2>7 DEF InDirective
<1>2. CASE Alternate
  <2>1. /\ Head(fmt) = "#" /\ fmt' = Tail(fmt) /\ ap' = ap
        /\ flags' = [flags EXCEPT !.altflag = TRUE]
    BY ONLY <1>2 DEF Alternate, At, Reswitch, FmtStep
  <2>2. AtAlt(it, t, r) /\ it.alt /\ Pending("#", WidthOn(it, t))
    BY ONLY <2>1, Chosen, Item(it, t, r), NextPart(it, t, r)
  <2>3. PICK c, m : c = it.pad /\ m = -1
    OBVIOUS
  <2>4. fmt' = WidthOn(it, t)
    BY ONLY <2>1, <2>2 DEF Pending
  <2>5. flags = [padc |-> c, width |-> m, precision |-> m, altflag |-> FALSE] /\ ap = AllArgs(it, r)
    BY ONLY <2>2, <2>3 DEF AtAlt, Fl
  <2>6. flags' = [padc |-> c, width |-> m, precision |-> m, altflag |-> TRUE]
    BY ONLY <2>1, <2>5
  <2>7. it.alt = TRUE
    <3>1. it.alt \in BOOLEAN
      BY ONLY OnSeqs, Item(it, t, r)
    <3> QED
      BY ONLY <2>2, <3>1
  <2>8. AtWidth(it, t, r)'
    BY ONLY <2>1, <2>3, <2>4, <2>5, <2>6, <2>7, Zenon DEF AtWidth, Fl
  <2> QED
    BY <2>8 DEF InDirective
<1>3. CASE Long
  <2>1. Head(fmt) = "l" /\ fmt' = Tail(fmt) /\ ap' = ap /\ flags' = flags
    BY ONLY <1>3 DEF Long, At, Reswitch, FmtStep
  <2>2. AtLong(it, t, r) /\ Pending("l", ConvOn(it, t))
    BY ONLY <2>1, Chosen, Item(it, t, r), NextPart(it, t, r)
  <2>3. AtConv(it, t, r)'
    BY ONLY <2>1, <2>2, Zenon DEF AtLong, AtConv, Pending
  <2> QED
    BY <2>3 DEF InDirective
<1>4. CASE Point
  <2>1. /\ Head(fmt) = "." /\ fmt' = Tail(fmt) /\ ap' = ap
        /\ flags' = [flags EXCEPT !.width = IF @ < 0 THEN 0 ELSE @]
    BY ONLY <1>4 DEF Point, At, Reswitch, FmtStep
  <2>2. AtPoint(it, t, r) /\ Pointed(it) /\ Pending(".", PrecOn(it, t))
    BY ONLY <2>1, Chosen, Item(it, t, r), NextPart(it, t, r)
  <2>3. PICK c, w, m, a : c = it.pad /\ w = Width0(it) /\ m = -1 /\ a = it.alt
    OBVIOUS
  <2>4. fmt' = PrecOn(it, t)
    BY ONLY <2>1, <2>2 DEF Pending
  <2>5. flags = [padc |-> c, width |-> w, precision |-> m, altflag |-> a] /\ ap = PrecArgs(it, r)
    BY ONLY <2>2, <2>3 DEF AtPoint, Fl
  <2>6. PICK v : v = IF w < 0 THEN 0 ELSE w
    OBVIOUS
  <2>7. flags' = [padc |-> c, width |-> v, precision |-> m, altflag |-> a]
    BY ONLY <2>1, <2>5, <2>6
  <2>8. v = Width1(it)
    BY ONLY <2>2, <2>3, <2>6 DEF Width1
  <2>9. AtPrec(it, t, r)'
    BY ONLY <2>1, <2>3, <2>4, <2>5, <2>7, <2>8, Zenon DEF AtPrec, Fl
  <2> QED
    BY <2>9 DEF InDirective
<1> QED
  BY <1>1, <1>2, <1>3, <1>4

\* process_precision, for the first number and for the second.
LEMMA FirstNumber ==
  ASSUME NEW it, NEW t, NEW r, Item(it, t, r), AtWidth(it, t, r), it.star \/ it.width > 0
  PROVE  ProcessPrecision(it.width) = Fl(it.pad, Width0(it), -1, it.alt)
<1>0. PICK m \in Int : m = -1
  OBVIOUS
<1>7. PICK c, w, a : c = it.pad /\ w = it.width /\ a = it.alt
  OBVIOUS
<1>1. c = it.pad /\ w = it.width /\ a = it.alt /\ m = -1
  BY ONLY <1>0, <1>7
<1>2. flags = [padc |-> c, width |-> m, precision |-> m, altflag |-> a]
  BY ONLY <1>1, AtWidth(it, t, r) DEF AtWidth, Fl
<1>3. flags.width < 0
  BY ONLY <1>0, <1>2
<1>4. ProcessPrecision(w) = [flags EXCEPT !.width = w, !.precision = m]
  <2>1. ProcessPrecision(w) = [flags EXCEPT !.width = w, !.precision = -1]
    BY ONLY <1>3, Zenon DEF ProcessPrecision
  <2> QED
    BY ONLY <1>0, <2>1, Zenon
<1>8. PICK g : g = [flags EXCEPT !.width = w, !.precision = m]
  OBVIOUS
<1>5. g = [padc |-> c, width |-> w, precision |-> m, altflag |-> a]
  BY ONLY <1>2, <1>8
<1>6. Width0(it) = w
  BY ONLY <1>1, it.star \/ it.width > 0 DEF Width0
<1> QED
  BY ONLY <1>1, <1>4, <1>5, <1>6, <1>8 DEF Fl

LEMMA SecondNumber ==
  ASSUME NEW it, NEW t, NEW r, Item(it, t, r), AtPrec(it, t, r), it.pstar \/ it.prec > 0
  PROVE  ProcessPrecision(it.prec) = Fl(it.pad, Width1(it), Prec1(it), it.alt)
<1>1. PICK c, w, a, m, p : c = it.pad /\ w = Width1(it) /\ a = it.alt /\ m = -1 /\ p = it.prec
  OBVIOUS
<1>2. flags = [padc |-> c, width |-> w, precision |-> m, altflag |-> a]
  BY ONLY <1>1, AtPrec(it, t, r) DEF AtPrec, Fl
<1>3. ~(w < 0)
  <2>1. PICK z : z = Width0(it)
    OBVIOUS
  <2>2. w = IF z < 0 THEN 0 ELSE z
    BY ONLY <1>1, <2>1, it.pstar \/ it.prec > 0 DEF Width1, Pointed
  <2> QED
    BY ONLY <2>2
<1>4. ProcessPrecision(p) = [flags EXCEPT !.precision = p]
  <2>1. ~(flags.width < 0)
    BY ONLY <1>2, <1>3
  <2> QED
    BY ONLY <2>1 DEF ProcessPrecision
<1>5. [flags EXCEPT !.precision = p] = [padc |-> c, width |-> w, precision |-> p, altflag |-> a]
  BY ONLY <1>2
<1>6. Prec1(it) = p
  BY ONLY <1>1, it.pstar \/ it.prec > 0 DEF Prec1, Pointed
<1> QED
  BY ONLY <1>1, <1>4, <1>5, <1>6 DEF Fl

ArgsJoin(s, t, x) ==
  /\ x \in Seq(Slots) /\ Len(x) = Len(s) + Len(t)
  /\ \A k \in 1..Len(s) : x[k] = s[k]
  /\ \A k \in 1..Len(t) : x[Len(s) + k] = t[k]

LEMMA ArgsJoined ==
  ASSUME NEW s \in Seq(Slots), NEW t \in Seq(Slots)
  PROVE  ArgsJoin(s, t, s \o t)
BY DEF ArgsJoin

LEMMA HeadOfArgs ==
  ASSUME NEW x, NEW s \in Seq(Slots), NEW y, y = <<x>> \o s, x \in Slots
  PROVE  Head(y) = x /\ Tail(y) = s
<1>1. PICK o : o = <<x>>
  OBVIOUS
<1>2. o \in Seq(Slots) /\ Len(o) = 1 /\ o[1] = x
  BY <1>1
<1>3. PICK n \in Nat : n = Len(s)
  OBVIOUS
<1>4. y \in Seq(Slots) /\ Len(y) = 1 + n /\ y[1] = x /\ \A k \in 1..n : y[1 + k] = s[k]
  <2>1. y = o \o s
    BY <1>1
  <2>2. ArgsJoin(o, s, y)
    BY ONLY <1>2, <2>1, s \in Seq(Slots), ArgsJoined
  <2> QED
    BY ONLY <1>2, <1>3, <2>2 DEF ArgsJoin
<1>5. y # << >> /\ Head(y) = x
  BY ONLY <1>4, n \in Nat
<1>6. Tail(y) = s
  <2>1. PICK t : t = Tail(y)
    OBVIOUS
  <2>2. t \in Seq(Slots) /\ Len(t) = n /\ \A k \in 1..n : t[k] = y[k + 1]
    BY ONLY <1>4, <1>5, <2>1, n \in Nat
  <2>3. Len(t) = Len(s) /\ \A k \in 1..Len(t) : t[k] = s[k]
    <3>1. \A k \in 1..n : k + 1 = 1 + k
      OBVIOUS
    <3> QED
      BY ONLY <1>3, <1>4, <2>2, <3>1
  <2> QED
    BY ONLY <2>1, <2>2, <2>3, SameSeq, s \in Seq(Slots)
<1> QED
  BY ONLY <1>5, <1>6

LEMMA StarSlot ==
  ASSUME NEW v \in SignedIn(IntWidth)
  PROVE  v \in Int /\ v % 2^IntWidth \in Slots /\ Signed(v % 2^IntWidth, IntWidth) = v
<1>1. IntWidth \in Nat \ {0} /\ IntWidth - 1 \in Nat
  BY FmtWidthAssumption DEF FmtWidthAssumption
<1>2. PICK H \in Nat \ {0} : H = 2^(IntWidth-1)
  BY <1>1, PowerOfTwo
<1>3. v \in Int
  BY <1>2 DEF SignedIn
<1>4. Signed(v % 2^IntWidth, IntWidth) = v /\ v % 2^IntWidth \in Nat
  BY ONLY <1>1, <1>3, SlotRead, v \in SignedIn(IntWidth)
<1>5. v % 2^IntWidth \in Slots
  BY <1>4 DEF Slots
<1> QED
  BY ONLY <1>3, <1>4, <1>5

LEMMA StarReads ==
  ASSUME NEW it, NEW t, NEW r, Item(it, t, r), NextPart(it, t, r), Star
  PROVE  InDirective(it, t, r)'
<1>1. /\ Head(fmt) = "*" /\ fmt' = Tail(fmt) /\ ap' = Tail(ap)
      /\ flags' = ProcessPrecision(Signed(Head(ap), IntWidth))
  BY ONLY Star DEF Star, At, Reswitch, FmtStep
<1>2. Written(it) /\ r \in Seq(Slots)
  BY DEF Item
<1>3. \/ AtWidth(it, t, r) /\ it.star /\ Pending("*", PointOn(it, t))
      \/ AtPrec(it, t, r) /\ it.pstar /\ Pending("*", LongOn(it, t))
  BY ONLY <1>1, Chosen, Item(it, t, r), NextPart(it, t, r)
<1>4. CASE AtWidth(it, t, r) /\ it.star /\ Pending("*", PointOn(it, t))
  <2>1. it.width \in SignedIn(IntWidth)
    BY ONLY <1>2, <1>4 DEF Written
  <2>2. PICK x : x = it.width % 2^IntWidth
    OBVIOUS
  <2>3. x \in Slots /\ Signed(x, IntWidth) = it.width
    BY ONLY <2>1, <2>2, StarSlot
  <2>4. ap = <<x>> \o PrecArgs(it, r)
    BY ONLY <1>4, <2>2 DEF AtWidth, AllArgs, StarArgs
  <2>5. PrecArgs(it, r) \in Seq(Slots)
    BY ONLY <1>2, ArgsAre
  <2>6. Head(ap) = x /\ Tail(ap) = PrecArgs(it, r)
    BY ONLY <2>3, <2>4, <2>5, HeadOfArgs
  <2>7. flags' = Fl(it.pad, Width0(it), -1, it.alt)
    <3>1. ProcessPrecision(it.width) = Fl(it.pad, Width0(it), -1, it.alt)
      BY ONLY <1>4, FirstNumber, Item(it, t, r)
    <3> QED
      BY ONLY <1>1, <2>3, <2>6, <3>1
  <2>8. fmt' = PointOn(it, t)
    BY ONLY <1>1, <1>4 DEF Pending
  <2>9. AtPoint(it, t, r)'
    BY ONLY <1>1, <2>6, <2>7, <2>8, Zenon DEF AtPoint
  <2> QED
    BY <2>9 DEF InDirective
<1>5. CASE AtPrec(it, t, r) /\ it.pstar /\ Pending("*", LongOn(it, t))
  <2>1. it.prec \in SignedIn(IntWidth)
    BY ONLY <1>2, <1>5 DEF Written
  <2>2. PICK x : x = it.prec % 2^IntWidth
    OBVIOUS
  <2>3. x \in Slots /\ Signed(x, IntWidth) = it.prec
    BY ONLY <2>1, <2>2, StarSlot
  <2>4. ap = <<x>> \o (ItemArgs(it) \o r)
    BY ONLY <1>5, <2>2 DEF AtPrec, PrecArgs, PstarArgs
  <2>5. ItemArgs(it) \o r \in Seq(Slots)
    BY ONLY <1>2, ArgsAre
  <2>6. Head(ap) = x /\ Tail(ap) = ItemArgs(it) \o r
    BY ONLY <2>3, <2>4, <2>5, HeadOfArgs
  <2>7. flags' = Fl(it.pad, Width1(it), Prec1(it), it.alt)
    <3>1. ProcessPrecision(it.prec) = Fl(it.pad, Width1(it), Prec1(it), it.alt)
      BY ONLY <1>5, SecondNumber, Item(it, t, r)
    <3> QED
      BY ONLY <1>1, <2>3, <2>6, <3>1
  <2>8. fmt' = LongOn(it, t)
    BY ONLY <1>1, <1>5 DEF Pending
  <2>9. AtLong(it, t, r)'
    BY ONLY <1>1, <2>6, <2>7, <2>8, Zenon DEF AtLong
  <2> QED
    BY <2>9 DEF InDirective
<1> QED
  BY ONLY <1>3, <1>4, <1>5

LEMMA NumberReads ==
  ASSUME NEW it, NEW t, NEW r, Item(it, t, r), NextPart(it, t, r), Number
  PROVE  InDirective(it, t, r)'
<1>1. PICK len : len = NumberLen(fmt)
  OBVIOUS
<1>2. /\ Head(fmt) \in {Digit(d) : d \in 1..9} /\ ap' = ap
      /\ fmt' = SubSeq(fmt, len + 1, Len(fmt))
      /\ flags' = ProcessPrecision(NumberValue(fmt, len))
  <2>1. Reswitch(ProcessPrecision(NumberValue(fmt, len)), SubSeq(fmt, len + 1, Len(fmt)), ap)
    BY <1>1 DEF Number, NumberLen, NumberValue
  <2>2. Head(fmt) \in {Digit(d) : d \in 1..9}
    BY DEF Number, At
  <2> QED
    BY ONLY <2>1, <2>2 DEF Reswitch, FmtStep
<1>3. Head(fmt) \in Nines
  BY ONLY <1>2, NinesAre
<1>4. \/ AtWidth(it, t, r) /\ ~it.star /\ PendingNumber(it.width, PointOn(it, t))
      \/ AtPrec(it, t, r) /\ ~it.pstar /\ PendingNumber(it.prec, LongOn(it, t))
  BY ONLY <1>3, Chosen, Item(it, t, r), NextPart(it, t, r)
<1>5. CASE AtWidth(it, t, r) /\ ~it.star /\ PendingNumber(it.width, PointOn(it, t))
  <2>1. PointOn(it, t) \in Seq(Glyphs)
    BY ONLY OnSeqs, Item(it, t, r)
  <2>2. /\ it.width \in Nat \ {0} /\ NumberValue(fmt, len) = it.width
        /\ SubSeq(fmt, len + 1, Len(fmt)) = PointOn(it, t)
    BY ONLY <1>1, <1>5, <2>1, NumberHead
  <2>3. it.width > 0
    BY ONLY <2>2
  <2>4. flags' = Fl(it.pad, Width0(it), -1, it.alt)
    <3>1. ProcessPrecision(it.width) = Fl(it.pad, Width0(it), -1, it.alt)
      BY ONLY <1>5, <2>3, FirstNumber, Item(it, t, r)
    <3> QED
      BY ONLY <1>2, <2>2, <3>1
  <2>5. ap' = PrecArgs(it, r)
    <3>1. ap = << >> \o PrecArgs(it, r)
      BY ONLY <1>5 DEF AtWidth, AllArgs, StarArgs
    <3>2. PrecArgs(it, r) \in Seq(Slots)
      BY ONLY OnSeqs, Item(it, t, r)
    <3> QED
      BY ONLY <1>2, <3>1, <3>2, NoneFirst
  <2>6. AtPoint(it, t, r)'
    BY ONLY <1>2, <2>2, <2>4, <2>5, Zenon DEF AtPoint
  <2> QED
    BY <2>6 DEF InDirective
<1>6. CASE AtPrec(it, t, r) /\ ~it.pstar /\ PendingNumber(it.prec, LongOn(it, t))
  <2>1. LongOn(it, t) \in Seq(Glyphs)
    BY ONLY OnSeqs, Item(it, t, r)
  <2>2. /\ it.prec \in Nat \ {0} /\ NumberValue(fmt, len) = it.prec
        /\ SubSeq(fmt, len + 1, Len(fmt)) = LongOn(it, t)
    BY ONLY <1>1, <1>6, <2>1, NumberHead
  <2>3. it.prec > 0
    BY ONLY <2>2
  <2>4. flags' = Fl(it.pad, Width1(it), Prec1(it), it.alt)
    <3>1. ProcessPrecision(it.prec) = Fl(it.pad, Width1(it), Prec1(it), it.alt)
      BY ONLY <1>6, <2>3, SecondNumber, Item(it, t, r)
    <3> QED
      BY ONLY <1>2, <2>2, <3>1
  <2>5. ap' = ItemArgs(it) \o r
    <3>1. ap = << >> \o (ItemArgs(it) \o r)
      BY ONLY <1>6 DEF AtPrec, PrecArgs, PstarArgs
    <3>2. ItemArgs(it) \o r \in Seq(Slots)
      BY ONLY OnSeqs, Item(it, t, r)
    <3> QED
      BY ONLY <1>2, <3>1, <3>2, NoneFirst
  <2>6. AtLong(it, t, r)'
    BY ONLY <1>2, <2>2, <2>4, <2>5, Zenon DEF AtLong
  <2> QED
    BY <2>6 DEF InDirective
<1> QED
  BY ONLY <1>4, <1>5, <1>6

-----------------------------------------------------------------------------
(* snprintf: what a conversion puts. *)

\* The conversion of a directive puts its text and takes its argument.
Converts(it, t, r) ==
  /\ fmt_at' = "text" /\ call' = call /\ fmt' = t /\ ap' = r
  /\ Rendered(it) \in Seq(Glyphs) /\ Put(Rendered(it))

LEMMA ConvReads ==
  ASSUME NEW it, NEW t, NEW r, Item(it, t, r), AtConv(it, t, r)
  PROVE  /\ Head(fmt) = it.conv /\ Tail(fmt) = t
         /\ it.type = "none" => ap = r
         /\ it.type # "none" => Head(ap) = SlotOf(it) /\ Tail(ap) = r
         /\ flags.padc = it.pad /\ flags.width = Width1(it)
         /\ flags.precision = Prec1(it) /\ flags.altflag = it.alt
<1>1. Written(it) /\ r \in Seq(Slots) /\ t \in Seq(Glyphs)
  BY DEF Item
<1>2. Pending(it.conv, t)
  <2>1. it.conv \in Glyphs
    BY ONLY OnSeqs, Item(it, t, r)
  <2>2. fmt = <<it.conv>> \o t
    BY DEF AtConv, ConvOn
  <2> QED
    BY ONLY <1>1, <2>1, <2>2, PendingIs
<1>3. ap = ItemArgs(it) \o r
  BY DEF AtConv
<1>4. ASSUME it.type = "none" PROVE ap = r
  <2>1. ap = << >> \o r
    BY ONLY <1>3, <1>4 DEF ItemArgs
  <2>2. ap = r
    BY ONLY <1>1, <2>1, NoneFirst
  <2> QED
    BY ONLY <2>2
<1>5. ASSUME it.type # "none" PROVE Head(ap) = SlotOf(it) /\ Tail(ap) = r
  <2>1. ap = <<SlotOf(it)>> \o r
    BY ONLY <1>3, <1>5 DEF ItemArgs
  <2>2. SlotOf(it) \in Slots
    BY ONLY <1>1, <1>5, ArgsAre
  <2>3. PICK x : x = SlotOf(it)
    OBVIOUS
  <2>4. Head(ap) = x /\ Tail(ap) = r
    BY ONLY <1>1, <2>1, <2>2, <2>3, HeadOfArgs
  <2> QED
    BY ONLY <2>3, <2>4
<1>6. /\ flags.padc = it.pad /\ flags.width = Width1(it)
      /\ flags.precision = Prec1(it) /\ flags.altflag = it.alt
  BY DEF AtConv, Fl
<1>7. (it.type = "none" => ap = r) /\ (it.type # "none" => Head(ap) = SlotOf(it) /\ Tail(ap) = r)
  BY ONLY <1>4, <1>5
<1>8. Head(fmt) = it.conv /\ Tail(fmt) = t
  BY ONLY <1>2 DEF Pending
<1> QED
  BY ONLY <1>6, <1>7, <1>8

\* A width that is not positive fills nothing.
LEMMA FillSame ==
  ASSUME NEW it, Written(it), NEW L \in Nat, NEW c \in Glyphs
  PROVE  /\ Width1(it) \in Int /\ it.width \in Int
         /\ Pad(Width1(it) - L, c) = Pad(it.width - L, c)
         /\ Pad(it.width - L, c) \in Seq(Glyphs)
         /\ it.width <= 0 => Pad(it.width - L, c) = << >>
<1>1. it.width \in Int
  BY DEF Written
<1>8. PICK w \in Int : w = it.width
  BY <1>1
<1>2. PICK z : w = it.width /\ z = Width1(it)
  BY ONLY <1>8
<1>3. z \in Int /\ (w > 0 => z = w) /\ (~(w > 0) => z <= 0)
  <2>5. PICK m \in Int : m = -1
    OBVIOUS
  <2>6. PICK y : y = Width0(it)
    OBVIOUS
  <2>1. y = Width0(it) /\ m = -1
    BY ONLY <2>5, <2>6
  <2>2. y = IF it.star \/ w > 0 THEN w ELSE m
    BY ONLY <1>2, <2>1 DEF Width0
  <2>3. z = IF Pointed(it) /\ y < 0 THEN 0 ELSE y
    BY ONLY <1>2, <2>1 DEF Width1
  <2>4. y \in Int /\ (w > 0 => y = w) /\ (~(w > 0) => y <= 0)
    BY ONLY <2>1, <2>2, w \in Int, m \in Int
  <2> QED
    BY ONLY <2>3, <2>4, w \in Int
<1>4. \A n \in Int : Pad(n, c) \in Seq(Glyphs) /\ (n <= 0 => Pad(n, c) = << >>)
  BY ONLY PadText, c \in Glyphs
<1>5. PICK x \in Int, y \in Int : x = w - L /\ y = z - L
  BY <1>3
<1>6. (w > 0 => x = y) /\ (~(w > 0) => x <= 0 /\ y <= 0)
  BY ONLY <1>3, <1>5, w \in Int, L \in Nat
<1>7. Pad(y, c) = Pad(x, c) /\ Pad(x, c) \in Seq(Glyphs) /\ (~(w > 0) => Pad(x, c) = << >>)
  BY ONLY <1>4, <1>6, x \in Int, y \in Int
<1>9. w <= 0 => ~(w > 0)
  BY ONLY w \in Int
<1> QED
  BY ONLY <1>2, <1>3, <1>5, <1>7, <1>9

LEMMA JustifyText ==
  ASSUME NEW it, Written(it), NEW s \in Seq(Glyphs)
  PROVE  Justify(it, s) \in Seq(Glyphs)
<1>1. PICK L \in Nat : L = Len(s)
  OBVIOUS
<1>2. it.pad \in Glyphs /\ " " \in Glyphs
  <2>1. " " \in Glyphs
    BY DEF Glyphs
  <2> QED
    BY ONLY <2>1, PartsAre, Written(it)
<1>3. Pad(it.width - L, it.pad) \in Seq(Glyphs) /\ Pad(it.width - L, " ") \in Seq(Glyphs)
  BY ONLY <1>2, FillSame, Written(it), L \in Nat
<1>4. PICK f, g : f = Pad(it.width - L, it.pad) /\ g = Pad(it.width - L, " ")
  OBVIOUS
<1>5. f \o s \in Seq(Glyphs) /\ s \o g \in Seq(Glyphs)
  BY ONLY <1>3, <1>4, GlyphJoin, s \in Seq(Glyphs)
<1> QED
  BY ONLY <1>1, <1>4, <1>5 DEF Justify

\* Without a width there is no filler.
LEMMA JustifyNone ==
  ASSUME NEW it, Written(it), it.width <= 0, NEW s \in Seq(Glyphs)
  PROVE  Justify(it, s) = s
<1>1. PICK L \in Nat : L = Len(s)
  OBVIOUS
<1>2. it.pad \in Glyphs /\ " " \in Glyphs
  <2>1. " " \in Glyphs
    BY DEF Glyphs
  <2> QED
    BY ONLY <2>1, PartsAre, Written(it)
<1>3. PICK w \in Int : w = it.width
  BY DEF Written
<1>4. PICK x \in Int : x = w - L /\ x <= 0
  <2>1. w - L \in Int /\ w - L <= 0
    BY ONLY <1>3, it.width <= 0, L \in Nat, w \in Int
  <2> QED
    BY ONLY <2>1
<1>5. Pad(x, it.pad) = << >> /\ Pad(x, " ") = << >>
  BY ONLY <1>2, <1>4, PadText, x \in Int
<1>6. << >> \o s = s /\ s \o << >> = s
  BY ONLY NoneFirst, s \in Seq(Glyphs)
<1> QED
  BY ONLY <1>1, <1>3, <1>4, <1>5, <1>6 DEF Justify

LEMMA NumberText ==
  ASSUME NEW it, Written(it), NEW v \in Nat, NEW base \in Bases, it.width > 0 => it.pad # "-"
  PROVE  printnum(v, base, Width1(it), it.pad) = Justify(it, Digits(v, base))
<1>1. PICK D, L : D = Digits(v, base) /\ L = Len(D)
  OBVIOUS
<1>2. D \in Seq(Glyphs) /\ L \in Nat
  BY ONLY <1>1, DigitsText, v \in Nat, base \in Bases
<1>3. it.pad \in Glyphs /\ " " \in Glyphs
  <2>1. " " \in Glyphs
    BY DEF Glyphs
  <2> QED
    BY ONLY <2>1, PartsAre, Written(it)
<1>4. /\ Width1(it) \in Int /\ it.width \in Int
      /\ Pad(Width1(it) - L, it.pad) = Pad(it.width - L, it.pad)
      /\ it.width <= 0 => Pad(it.width - L, it.pad) = << >> /\ Pad(it.width - L, " ") = << >>
  BY ONLY <1>2, <1>3, FillSame, Written(it)
<1>5. printnum(v, base, Width1(it), it.pad) = Pad(it.width - L, it.pad) \o D
  <2>1. printnum(v, base, Width1(it), it.pad) = Pad(Width1(it) - L, it.pad) \o D
    BY ONLY <1>1, <1>3, <1>4, PrintnumText, v \in Nat, base \in Bases
  <2> QED
    BY ONLY <1>4, <2>1
<1>6. CASE it.pad # "-"
  <2>1. Justify(it, D) = Pad(it.width - L, it.pad) \o D
    BY ONLY <1>1, <1>6 DEF Justify
  <2> QED
    BY ONLY <1>1, <1>5, <2>1
<1>7. CASE it.pad = "-"
  <2>1. it.width <= 0
    <3>1. ~(it.width > 0)
      BY <1>7
    <3>2. it.width \in Int
      BY ONLY <1>4
    <3> QED
      BY ONLY <3>1, <3>2
  <2>2. Justify(it, D) = D \o Pad(it.width - L, " ")
    BY ONLY <1>1, <1>7 DEF Justify
  <2>3. Justify(it, D) = D \o << >> /\ printnum(v, base, Width1(it), it.pad) = << >> \o D
    BY ONLY <1>4, <1>5, <2>1, <2>2
  <2>4. D \o << >> = D /\ << >> \o D = D
    <3>1. D \in Seq(Glyphs)
      BY ONLY <1>2
    <3>2. D \o << >> = D
      BY ONLY <3>1
    <3>3. << >> \o D = D
      BY ONLY <3>1, NoneFirst
    <3> QED
      BY ONLY <3>2, <3>3
  <2> QED
    BY ONLY <1>1, <2>3, <2>4
<1> QED
  BY <1>6, <1>7

\* What the slot of a number holds.
LEMMA NumberSlot ==
  ASSUME NEW it, Written(it), it.conv \in {"d", "u", "o", "x", "p"}
  PROVE  /\ it.type # "none" /\ it.v \in Int
         /\ it.v >= 0 => /\ it.v \in Nat /\ SlotOf(it) = it.v
                         /\ it.conv \in {"d", "o"} => Signed(SlotOf(it), LongWidth) = it.v
         /\ it.v < 0 /\ it.type = "long" => Signed(SlotOf(it), LongWidth) = it.v
<1>1. IntWidth \in Nat \ {0} /\ LongWidth \in Nat \ {0}
  BY FmtWidthAssumption DEF FmtWidthAssumption
<1>2. PICK w : w = IF it.type = "int" THEN IntWidth ELSE LongWidth
  OBVIOUS
<1>3. w \in Nat \ {0} /\ w - 1 \in Nat /\ LongWidth - 1 \in Nat
  BY ONLY <1>1, <1>2
<1>4. PICK P \in Nat \ {0}, H \in Nat \ {0} : P = 2^w /\ H = 2^(w-1)
  BY ONLY <1>3, PowerOfTwo
<1>5. /\ it.type \in {"int", "long"} /\ it.v \in SignedIn(w) \cup 0..2^w-1
      /\ it.conv \in {"d", "o"} => it.v < 2^(LongWidth-1)
  BY <1>2 DEF Written, Takable
<1>6. it.v \in -H..H-1 \/ it.v \in 0..P-1
  BY ONLY <1>4, <1>5 DEF SignedIn
<1>7. PICK v \in Int : v = it.v
  BY ONLY <1>6, H \in Nat \ {0}, P \in Nat \ {0}
<1>8. SlotOf(it) = v % P
  <2>1. it.type # "str" /\ it.type # "char"
    BY ONLY <1>5
  <2>2. SlotOf(it) = v % 2^w
    BY ONLY <1>2, <1>7, <2>1 DEF SlotOf
  <2> QED
    BY ONLY <1>4, <2>2
<1>9. /\ H <= P
      /\ v \in SignedIn(w) => Signed(v % P, w) = v
      /\ v \in 0..P-1 => v % P = v
  BY ONLY <1>3, <1>4, SlotRead, v \in Int
<1>10. ASSUME v >= 0
       PROVE  /\ v \in Nat /\ SlotOf(it) = v
              /\ it.conv \in {"d", "o"} => Signed(SlotOf(it), LongWidth) = v
  <2>1. v \in 0..P-1 /\ v \in Nat
    BY ONLY <1>6, <1>7, <1>9, <1>10, H \in Nat \ {0}, P \in Nat \ {0}, v \in Int
  <2>2. SlotOf(it) = v
    BY ONLY <1>8, <1>9, <2>1
  <2>3. ASSUME it.conv \in {"d", "o"} PROVE Signed(v, LongWidth) = v
    <3>1. v < 2^(LongWidth-1)
      BY ONLY <1>5, <1>7, <2>3
    <3> QED
      BY ONLY <1>1, <2>1, <3>1, SlotRead, v \in Int
  <2> QED
    BY ONLY <2>1, <2>2, <2>3
<1>11. ASSUME v < 0, it.type = "long" PROVE Signed(SlotOf(it), LongWidth) = v
  <2>1. w = LongWidth
    BY ONLY <1>2, <1>11
  <2>2. v \in -H..H-1
    BY ONLY <1>6, <1>7, <1>11, P \in Nat \ {0}, v \in Int
  <2>3. v \in SignedIn(w)
    BY ONLY <1>4, <2>2 DEF SignedIn
  <2> QED
    BY ONLY <1>8, <1>9, <2>1, <2>3
<1>12. it.type # "none"
  BY ONLY <1>5
<1> QED
  BY ONLY <1>7, <1>10, <1>11, <1>12

\* Num puts what is asked for a number that is not negative, or below its sign.
LEMMA NumPuts ==
  ASSUME NEW it, NEW t, NEW r, Item(it, t, r), AtConv(it, t, r), Promised(it),
         it.conv \in {"d", "u", "o", "x", "p"}, NEW v \in Nat,
         v = (IF it.v < 0 THEN -it.v ELSE it.v),
         NEW prefix \in Seq(Glyphs),
         prefix = (CASE it.conv = "p" -> <<"0", "x">> [] it.v < 0 -> <<"-">> [] OTHER -> << >>),
         Num(v, BaseOf(it.conv), prefix)
  PROVE  Converts(it, t, r)
<1>1. Written(it)
  BY DEF Item
<1>2. PICK base \in Bases : base = BaseOf(it.conv)
  BY DEF BaseOf, Bases
<1>3. /\ Head(fmt) = it.conv /\ Tail(fmt) = t /\ flags.padc = it.pad /\ flags.width = Width1(it)
      /\ it.type # "none" => Tail(ap) = r
  BY ONLY ConvReads, Item(it, t, r), AtConv(it, t, r)
<1>4. it.type # "none"
  BY ONLY <1>1, NumberSlot, it.conv \in {"d", "u", "o", "x", "p"}
<1>5. it.width > 0 => it.pad # "-"
  BY DEF Promised
<1>6. PICK D : D = Digits(v, base)
  OBVIOUS
<1>7. printnum(v, base, Width1(it), it.pad) = Justify(it, D)
  BY ONLY <1>1, <1>5, <1>6, NumberText, v \in Nat, base \in Bases
<1>8. Rendered(it) = prefix \o Justify(it, D)
  <2>1. Rendered(it) = (CASE it.conv = "p" -> <<"0", "x">> [] it.v < 0 -> <<"-">> [] OTHER -> << >>)
                       \o Justify(it, Digits(IF it.v < 0 THEN -it.v ELSE it.v, BaseOf(it.conv)))
    BY ONLY it.conv \in {"d", "u", "o", "x", "p"} DEF Rendered
  <2>2. Digits(IF it.v < 0 THEN -it.v ELSE it.v, BaseOf(it.conv)) = D
    BY ONLY <1>2, <1>6, v = (IF it.v < 0 THEN -it.v ELSE it.v)
  <2>3. PICK q : q = (CASE it.conv = "p" -> <<"0", "x">> [] it.v < 0 -> <<"-">> [] OTHER -> << >>)
    OBVIOUS
  <2>4. q = prefix
    BY ONLY <2>3, prefix = (CASE it.conv = "p" -> <<"0", "x">> [] it.v < 0 -> <<"-">> [] OTHER -> << >>)
  <2> QED
    BY ONLY <2>1, <2>2, <2>3, <2>4
<1>9. Rendered(it) \in Seq(Glyphs)
  <2>1. D \in Seq(Glyphs)
    BY ONLY <1>6, DigitsText, v \in Nat, base \in Bases
  <2>2. PICK j \in Seq(Glyphs) : j = Justify(it, D)
    BY ONLY <1>1, <2>1, JustifyText
  <2>3. prefix \o j \in Seq(Glyphs)
    BY ONLY GlyphJoin, prefix \in Seq(Glyphs), j \in Seq(Glyphs)
  <2> QED
    BY ONLY <1>8, <2>2, <2>3
<1>10. /\ Put(prefix \o printnum(v, base, flags.width, flags.padc))
       /\ fmt_at' = "text" /\ fmt' = Tail(fmt) /\ ap' = Tail(ap) /\ call' = call
  BY ONLY <1>2, Num(v, BaseOf(it.conv), prefix) DEF Num, Prints, FmtStep
<1>11. Put(Rendered(it))
  BY ONLY <1>3, <1>7, <1>8, <1>10
<1> QED
  BY ONLY <1>3, <1>4, <1>9, <1>10, <1>11 DEF Converts

Numerals == {"d", "u", "o", "x", "p"}

LEMMA NumbersConvert ==
  ASSUME NEW it, NEW t, NEW r, Item(it, t, r), AtConv(it, t, r), Promised(it),
         Dec \/ Oct \/ Uns \/ Hex \/ Ptr
  PROVE  Converts(it, t, r)
<1>1. Written(it)
  BY DEF Item
<1>2. PICK x : x = Head(ap)
  OBVIOUS
<1>3. Head(fmt) = it.conv /\ (it.type # "none" => x = SlotOf(it))
  BY ONLY <1>2, ConvReads, Item(it, t, r), AtConv(it, t, r)
<1>4. << >> \in Seq(Glyphs) /\ <<"-">> \in Seq(Glyphs) /\ <<"0", "x">> \in Seq(Glyphs)
  <2>1. "-" \in Glyphs /\ "0" \in Glyphs /\ "x" \in Glyphs
    BY DEF Glyphs
  <2> QED
    BY ONLY <2>1
<1>5. CASE Dec \/ Oct
  <2>1. PICK base : base = IF it.conv = "d" THEN 10 ELSE 8
    OBVIOUS
  <2>2. it.conv \in {"d", "o"} /\ it.conv \in {"d", "u", "o", "x", "p"}
    BY ONLY <1>3, <1>5 DEF Dec, Oct, At
  <2>3. base = BaseOf(it.conv)
    BY ONLY <2>1, <2>2 DEF BaseOf
  <2>4. SignedNum(base)
    <3>1. CASE Dec
      <4>1. it.conv = "d" /\ SignedNum(10)
        BY ONLY <1>3, <3>1 DEF Dec, At
      <4> QED
        BY ONLY <2>1, <4>1
    <3>2. CASE Oct
      <4>1. it.conv = "o" /\ SignedNum(8)
        BY ONLY <1>3, <3>2 DEF Oct, At
      <4>2. base = 8
        BY ONLY <2>1, <4>1
      <4> QED
        BY ONLY <4>1, <4>2
    <3> QED
      BY ONLY <1>5, <3>1, <3>2
  <2>5. PICK y : y = Signed(x, LongWidth)
    OBVIOUS
  <2>6. IF y < 0 THEN Num(-y, base, <<"-">>) ELSE Num(y, base, << >>)
    BY ONLY <1>2, <2>4, <2>5 DEF SignedNum
  <2>7. /\ it.type # "none" /\ it.v \in Int
        /\ it.v >= 0 => it.v \in Nat /\ Signed(SlotOf(it), LongWidth) = it.v
        /\ it.v < 0 /\ it.type = "long" => Signed(SlotOf(it), LongWidth) = it.v
    BY ONLY <1>1, <2>2, NumberSlot
  <2>8. it.v >= 0 \/ it.type = "long"
    BY ONLY <2>2, Promised(it) DEF Promised
  <2>9. y = it.v
    BY ONLY <1>3, <2>5, <2>7, <2>8
  <2>10. it.conv # "p"
    BY ONLY <2>2
  <2>11. CASE it.v >= 0
    <3>1. ~(it.v < 0) /\ it.v \in Nat /\ Num(it.v, BaseOf(it.conv), << >>)
      BY ONLY <2>3, <2>6, <2>7, <2>9, <2>11
    <3>2. PICK v \in Nat, prefix \in Seq(Glyphs) : v = it.v /\ prefix = << >>
      BY ONLY <1>4, <3>1
    <3>3. v = (IF it.v < 0 THEN -it.v ELSE it.v)
      BY ONLY <3>1, <3>2
    <3>4. prefix = (CASE it.conv = "p" -> <<"0", "x">> [] it.v < 0 -> <<"-">> [] OTHER -> << >>)
      BY ONLY <2>10, <3>1, <3>2
    <3>5. Num(v, BaseOf(it.conv), prefix)
      BY ONLY <3>1, <3>2
    <3> QED
      BY ONLY <2>2, <3>3, <3>4, <3>5, NumPuts, Item(it, t, r), AtConv(it, t, r), Promised(it),
              v \in Nat, prefix \in Seq(Glyphs)
  <2>12. CASE it.v < 0
    <3>1. -it.v \in Nat /\ Num(-it.v, BaseOf(it.conv), <<"-">>)
      BY ONLY <2>3, <2>6, <2>7, <2>9, <2>12
    <3>2. PICK v \in Nat, prefix \in Seq(Glyphs) : v = -it.v /\ prefix = <<"-">>
      BY ONLY <1>4, <3>1
    <3>3. v = (IF it.v < 0 THEN -it.v ELSE it.v)
      BY ONLY <2>12, <3>2
    <3>4. prefix = (CASE it.conv = "p" -> <<"0", "x">> [] it.v < 0 -> <<"-">> [] OTHER -> << >>)
      BY ONLY <2>10, <2>12, <3>2
    <3>5. Num(v, BaseOf(it.conv), prefix)
      BY ONLY <3>1, <3>2
    <3> QED
      BY ONLY <2>2, <3>3, <3>4, <3>5, NumPuts, Item(it, t, r), AtConv(it, t, r), Promised(it),
              v \in Nat, prefix \in Seq(Glyphs)
  <2> QED
    BY ONLY <2>7, <2>11, <2>12
<1>6. CASE Uns \/ Hex \/ Ptr
  <2>1. PICK prefix \in Seq(Glyphs) : prefix = IF it.conv = "p" THEN <<"0", "x">> ELSE << >>
    BY ONLY <1>4
  <2>2. it.conv \in {"u", "x", "p"} /\ it.conv \in {"d", "u", "o", "x", "p"}
    BY ONLY <1>3, <1>6 DEF Uns, Hex, Ptr, At
  <2>3. Num(x, BaseOf(it.conv), prefix)
    <3>1. CASE Uns
      <4>1. it.conv = "u" /\ Num(x, 10, << >>)
        BY ONLY <1>2, <1>3, <3>1 DEF Uns, At
      <4>2. BaseOf(it.conv) = 10 /\ prefix = << >>
        BY ONLY <2>1, <4>1 DEF BaseOf
      <4> QED
        BY ONLY <4>1, <4>2
    <3>2. CASE Hex
      <4>1. it.conv = "x" /\ Num(x, 16, << >>)
        BY ONLY <1>2, <1>3, <3>2 DEF Hex, At
      <4>2. BaseOf(it.conv) = 16 /\ prefix = << >>
        BY ONLY <2>1, <4>1 DEF BaseOf
      <4> QED
        BY ONLY <4>1, <4>2
    <3>3. CASE Ptr
      <4>1. it.conv = "p" /\ Num(x, 16, <<"0", "x">>)
        BY ONLY <1>2, <1>3, <3>3 DEF Ptr, At
      <4>2. BaseOf(it.conv) = 16 /\ prefix = <<"0", "x">>
        BY ONLY <2>1, <4>1 DEF BaseOf
      <4> QED
        BY ONLY <4>1, <4>2
    <3> QED
      BY ONLY <1>6, <3>1, <3>2, <3>3
  <2>4. /\ it.type # "none" /\ it.v \in Int
        /\ it.v >= 0 => it.v \in Nat /\ SlotOf(it) = it.v
    BY ONLY <1>1, <2>2, NumberSlot
  <2>5. it.v >= 0
    BY ONLY <2>2, Promised(it) DEF Promised
  <2>6. PICK v \in Nat : v = it.v
    BY ONLY <2>4, <2>5
  <2>7. x = v /\ ~(it.v < 0)
    BY ONLY <1>3, <2>4, <2>5, <2>6
  <2>8. v = (IF it.v < 0 THEN -it.v ELSE it.v)
    BY ONLY <2>6, <2>7
  <2>9. prefix = (CASE it.conv = "p" -> <<"0", "x">> [] it.v < 0 -> <<"-">> [] OTHER -> << >>)
    BY ONLY <2>1, <2>7
  <2>10. Num(v, BaseOf(it.conv), prefix)
    BY ONLY <2>3, <2>7
  <2> QED
    BY ONLY <2>2, <2>8, <2>9, <2>10, NumPuts, Item(it, t, r), AtConv(it, t, r), Promised(it),
            v \in Nat, prefix \in Seq(Glyphs)
<1> QED
  BY <1>5, <1>6

\* The conversions that are not numbers.
LEMMA StringGlyphs == /\ \A s \in Seq(STRING) : s \in Seq(Glyphs)
                      /\ STRING \subseteq Glyphs
<1>1. STRING \subseteq Glyphs
  BY DEF Glyphs
<1>2. ASSUME NEW s \in Seq(STRING) PROVE s \in Seq(Glyphs)
  <2>1. PICK n \in Nat : n = Len(s)
    OBVIOUS
  <2>2. s \in [1..n -> STRING]
    BY ONLY <2>1, s \in Seq(STRING)
  <2>3. s \in [1..n -> Glyphs]
    BY ONLY <1>1, <2>2
  <2> QED
    BY ONLY <2>3, n \in Nat
<1> QED
  BY ONLY <1>1, <1>2

LEMMA CharConverts ==
  ASSUME NEW it, NEW t, NEW r, Item(it, t, r), AtConv(it, t, r), Char
  PROVE  Converts(it, t, r)
<1>1. Written(it)
  BY DEF Item
<1>2. /\ Head(fmt) = it.conv /\ Tail(fmt) = t
      /\ it.type # "none" => Head(ap) = SlotOf(it) /\ Tail(ap) = r
  BY ONLY ConvReads, Item(it, t, r), AtConv(it, t, r)
<1>3. it.conv = "c"
  BY ONLY <1>2, Char DEF Char, At
<1>4. it.type = "char" /\ it.s \in Seq(STRING) /\ Len(it.s) = 1
  BY ONLY <1>1, <1>3 DEF Written, Takable
<1>5. SlotOf(it) = it.s[1]
  BY ONLY <1>4 DEF SlotOf
<1>6. <<it.s[1]>> = it.s
  <2>1. PICK s \in Seq(STRING) : s = it.s
    BY ONLY <1>4
  <2>2. Len(s) = 1
    BY ONLY <1>4, <2>1
  <2>3. <<s[1]>> = s
    BY ONLY <2>2, s \in Seq(STRING)
  <2> QED
    BY ONLY <2>1, <2>3
<1>7. Rendered(it) = it.s
  BY ONLY <1>3 DEF Rendered
<1>8. Rendered(it) \in Seq(Glyphs)
  BY ONLY <1>4, <1>7, StringGlyphs
<1>9. /\ Put(<<Head(ap)>>) /\ fmt_at' = "text" /\ fmt' = Tail(fmt) /\ ap' = Tail(ap)
      /\ call' = call
  BY ONLY Char DEF Char, Prints, FmtStep
<1>10. Head(ap) = it.s[1] /\ Tail(ap) = r
  BY ONLY <1>2, <1>4, <1>5
<1>11. Put(Rendered(it))
  BY ONLY <1>6, <1>7, <1>9, <1>10
<1> QED
  BY ONLY <1>2, <1>8, <1>9, <1>10, <1>11 DEF Converts

LEMMA PercentConverts ==
  ASSUME NEW it, NEW t, NEW r, Item(it, t, r), AtConv(it, t, r), Percent
  PROVE  Converts(it, t, r)
<1>1. Written(it)
  BY DEF Item
<1>2. Head(fmt) = it.conv /\ Tail(fmt) = t /\ (it.type = "none" => ap = r)
  BY ONLY ConvReads, Item(it, t, r), AtConv(it, t, r)
<1>3. it.conv = "%"
  BY ONLY <1>2, Percent DEF Percent, At
<1>4. it.type = "none"
  BY ONLY <1>1, <1>3 DEF Written, Takable
<1>5. Rendered(it) = <<"%">>
  BY ONLY <1>3 DEF Rendered
<1>6. "%" \in Glyphs
  BY DEF Glyphs
<1>7. Rendered(it) \in Seq(Glyphs)
  BY ONLY <1>5, <1>6
<1>8. /\ Put(<<"%">>) /\ fmt_at' = "text" /\ fmt' = Tail(fmt) /\ ap' = ap /\ call' = call
  BY ONLY Percent DEF Percent, Prints, FmtStep
<1>9. Put(Rendered(it))
  BY ONLY <1>5, <1>8
<1> QED
  BY ONLY <1>2, <1>4, <1>7, <1>8, <1>9 DEF Converts

LEMMA ErrorConverts ==
  ASSUME NEW it, NEW t, NEW r, Item(it, t, r), AtConv(it, t, r), Promised(it), ErrorText
  PROVE  Converts(it, t, r)
<1>1. Written(it)
  BY DEF Item
<1>2. /\ Head(fmt) = it.conv /\ Tail(fmt) = t
      /\ it.type # "none" => Head(ap) = SlotOf(it) /\ Tail(ap) = r
  BY ONLY ConvReads, Item(it, t, r), AtConv(it, t, r)
<1>3. it.conv = "e"
  BY ONLY <1>2, ErrorText DEF ErrorText, At
<1>4. it.type = "int" /\ it.v \in SignedIn(IntWidth)
  BY ONLY <1>1, <1>3 DEF Written, Takable
<1>5. SlotOf(it) = it.v % 2^IntWidth
  BY ONLY <1>4 DEF SlotOf
<1>6. PICK v : v = it.v
  OBVIOUS
<1>7. v \in Int /\ Signed(SlotOf(it), IntWidth) = v
  BY ONLY <1>4, <1>5, <1>6, StarSlot
<1>8. PICK e \in Nat : e = IF v < 0 THEN -v ELSE v
  BY ONLY <1>7
<1>9. PICK D : D = Digits(e, 10)
  OBVIOUS
<1>10. D \in Seq(Glyphs) /\ Len(D) \in Nat
  <2>1. 10 \in Bases
    BY DEF Bases
  <2> QED
    BY ONLY <1>9, <2>1, DigitsText, e \in Nat
<1>11. printnum(e, 10, -1, " ") = D
  <2>1. 10 \in Bases
    BY DEF Bases
  <2>2. " " \in Glyphs
    BY DEF Glyphs
  <2>3. PICK m \in Int : m = -1
    OBVIOUS
  <2>4. printnum(e, 10, m, " ") = Pad(m - Len(D), " ") \o D
    BY ONLY <1>9, <2>1, <2>2, PrintnumText, e \in Nat, m \in Int
  <2>10. PICK L \in Nat : L = Len(D)
    BY ONLY <1>10
  <2>5. PICK y \in Int : y = m - Len(D)
    BY ONLY <2>10, L \in Nat, m \in Int
  <2>6. y <= 0
    BY ONLY <2>3, <2>5, <2>10, L \in Nat, m \in Int
  <2>7. Pad(y, " ") = << >>
    BY ONLY <2>2, <2>6, PadText, y \in Int
  <2>8. printnum(e, 10, m, " ") = << >> \o D
    BY ONLY <2>4, <2>5, <2>7
  <2>9. printnum(e, 10, m, " ") = D
    BY ONLY <1>10, <2>8, NoneFirst
  <2> QED
    BY ONLY <2>3, <2>9
<1>12. PICK out : out = IF e >= MAXERROR \/ e \notin Described
                          THEN <<"e", "r", "r", "o", "r", " ">> \o D ELSE ErrorName(e)
  OBVIOUS
<1>13. Rendered(it) = out
  <2>1. Rendered(it) = IF e \in 1..MAXERROR-1 THEN ErrorName(e)
                       ELSE <<"e", "r", "r", "o", "r", " ">> \o Digits(e, 10)
    BY ONLY <1>3, <1>6, <1>8 DEF Rendered
  <2>2. e # E_NO_SYS
    BY ONLY <1>3, <1>6, <1>7, <1>8, Promised(it) DEF Promised, E_NO_SYS
  <2>3. e \in 1..MAXERROR-1 <=> ~(e >= MAXERROR \/ e \notin Described)
    BY ONLY <2>2, e \in Nat DEF MAXERROR, Described, E_NO_SYS
  <2> QED
    BY ONLY <1>9, <1>12, <2>1, <2>3
<1>14. out \in Seq(Glyphs)
  <2>1. "e" \in Glyphs /\ "r" \in Glyphs /\ "o" \in Glyphs /\ " " \in Glyphs /\ "m" \in Glyphs
    BY DEF Glyphs
  <2>2. CASE e >= MAXERROR \/ e \notin Described
    <3>1. PICK s \in Seq(Glyphs) : s = <<"e", "r", "r", "o", "r", " ">>
      <4>1. ASSUME NEW c1 \in Glyphs, NEW c2 \in Glyphs, NEW c3 \in Glyphs, NEW c4 \in Glyphs
            PROVE  <<c1, c2, c2, c3, c2, c4>> \in Seq(Glyphs)
        OBVIOUS
      <4> QED
        BY ONLY <2>1, <4>1
    <3>2. s \o D \in Seq(Glyphs)
      BY ONLY <1>10, GlyphJoin, s \in Seq(Glyphs)
    <3> QED
      BY ONLY <1>12, <2>2, <3>1, <3>2
  <2>3. CASE ~(e >= MAXERROR \/ e \notin Described)
    <3>1. e \in 0..15
      BY ONLY <2>3, e \in Nat DEF MAXERROR, Described
    <3>2. Digit(e) \in Glyphs
      BY ONLY <3>1, DigitString
    <3>3. ErrorName(e) \in Seq(Glyphs)
      <4>1. ASSUME NEW c1 \in Glyphs, NEW c2 \in Glyphs PROVE <<c1, c2>> \in Seq(Glyphs)
        OBVIOUS
      <4> QED
        BY ONLY <2>1, <3>2, <4>1 DEF ErrorName
    <3> QED
      BY ONLY <1>12, <2>3, <3>3
  <2> QED
    BY ONLY <2>2, <2>3
<1>15. Head(ap) = SlotOf(it) /\ Tail(ap) = r
  BY ONLY <1>2, <1>4
<1>16. Prints(out, Tail(ap))
  <2>1. Signed(Head(ap), IntWidth) = v
    BY ONLY <1>7, <1>15
  <2>2. Prints(IF e >= MAXERROR \/ e \notin Described
               THEN <<"e", "r", "r", "o", "r", " ">> \o printnum(e, 10, -1, " ")
               ELSE ErrorName(e), Tail(ap))
    BY ONLY <1>8, <2>1, ErrorText DEF ErrorText
  <2> QED
    BY ONLY <1>11, <1>12, <2>2
<1>17. Put(out) /\ fmt_at' = "text" /\ fmt' = Tail(fmt) /\ ap' = Tail(ap) /\ call' = call
  BY ONLY <1>16 DEF Prints, FmtStep
<1> QED
  BY ONLY <1>2, <1>13, <1>14, <1>15, <1>17 DEF Converts

\* As much of a string as a precision allows, with what is not printable shown as '?'.
Shows(s, len, alt) == [k \in 1..len |-> IF alt /\ s[k] = "TAB" THEN "?" ELSE s[k]]

LEMMA StringConverts ==
  ASSUME NEW it, NEW t, NEW r, Item(it, t, r), AtConv(it, t, r), Promised(it), StringArg
  PROVE  Converts(it, t, r)
<1>1. Written(it)
  BY DEF Item
<1>2. /\ Head(fmt) = it.conv /\ Tail(fmt) = t
      /\ it.type # "none" => Head(ap) = SlotOf(it) /\ Tail(ap) = r
      /\ flags.padc = it.pad /\ flags.width = Width1(it)
      /\ flags.precision = Prec1(it) /\ flags.altflag = it.alt
  BY ONLY ConvReads, Item(it, t, r), AtConv(it, t, r)
<1>3. it.conv = "s"
  BY ONLY <1>2, StringArg DEF StringArg, At
<1>4. it.type = "str" /\ it.s \in Seq(STRING)
  BY ONLY <1>1, <1>3 DEF Written, Takable
<1>5. SlotOf(it) = it.s
  BY ONLY <1>4 DEF SlotOf
<1>6. PICK p : p = IF it.s = NullStr THEN NullText ELSE it.s
  OBVIOUS
<1>7. p \in Seq(Glyphs)
  <2>1. it.s \in Seq(Glyphs)
    BY ONLY <1>4, StringGlyphs
  <2>2. NullText \in Seq(Glyphs)
    <3>1. /\ "(" \in Glyphs /\ "n" \in Glyphs /\ "u" \in Glyphs /\ "l" \in Glyphs
          /\ ")" \in Glyphs
      BY DEF Glyphs
    <3>2. ASSUME NEW c1 \in Glyphs, NEW c2 \in Glyphs, NEW c3 \in Glyphs, NEW c4 \in Glyphs,
                 NEW c5 \in Glyphs
          PROVE  <<c1, c2, c3, c4, c4, c5>> \in Seq(Glyphs)
      OBVIOUS
    <3> QED
      BY ONLY <3>1, <3>2 DEF NullText
  <2> QED
    BY ONLY <1>6, <2>1, <2>2
<1>8. PICK n \in Nat : n = Len(p)
  BY ONLY <1>7
<1>9. PICK q : q = it.prec
  OBVIOUS
<1>10. q \in Int /\ (it.pstar \/ q > 0 \/ q < 0)
  <2>1. q \in Int /\ (it.pstar \/ q # 0)
    BY ONLY <1>1, <1>9 DEF Written
  <2> QED
    BY ONLY <2>1
<1>31. PICK m \in Int : m = -1
  OBVIOUS
<1>11. PICK z : z = Prec1(it) /\ m = -1
  BY ONLY <1>31
<1>12. z = IF it.pstar \/ q > 0 THEN q ELSE m
  BY ONLY <1>9, <1>11 DEF Prec1, Pointed
<1>13. PICK len : len = strnlen(p, z)
  OBVIOUS
<1>14. len = IF z < 0 \/ n < z THEN n ELSE z
  BY ONLY <1>8, <1>13 DEF strnlen
<1>15. len = (IF q >= 0 /\ q < n THEN q ELSE n) /\ len \in Nat /\ len <= n
  BY ONLY <1>10, <1>11, <1>12, <1>14, q \in Int, m \in Int, n \in Nat
<1>16. PICK cut : cut = IF q >= 0 /\ q < n THEN SubSeq(p, 1, q) ELSE p
  OBVIOUS
<1>17. Len(cut) = len /\ \A k \in 1..len : cut[k] = p[k]
  <2>1. CASE q >= 0 /\ q < n
    <3>1. Len(SubSeq(p, 1, q)) = q /\ \A k \in 1..q : SubSeq(p, 1, q)[k] = p[k]
      BY ONLY <1>7, <1>8, <1>10, <2>1, n \in Nat
    <3> QED
      BY ONLY <1>15, <1>16, <2>1, <3>1
  <2>2. CASE ~(q >= 0 /\ q < n)
    BY ONLY <1>8, <1>15, <1>16, <2>2
  <2> QED
    BY ONLY <2>1, <2>2
<1>18. PICK shown : shown = Shows(p, len, it.alt)
  OBVIOUS
<1>19. shown \in Seq(Glyphs) /\ Len(shown) = len
  <2>1. "?" \in Glyphs
    BY DEF Glyphs
  <2>2. \A k \in 1..len : p[k] \in Glyphs
    BY ONLY <1>7, <1>8, <1>15, n \in Nat
  <2>3. shown \in [1..len -> Glyphs]
    BY ONLY <1>18, <2>1, <2>2 DEF Shows
  <2> QED
    BY ONLY <1>15, <2>3
<1>20. [k \in 1..Len(cut) |-> IF it.alt /\ cut[k] = "TAB" THEN "?" ELSE cut[k]] = shown
  BY ONLY <1>17, <1>18 DEF Shows
<1>21. Rendered(it) = Justify(it, shown)
  <2>1. Rendered(it) = [k \in 1..Len(cut) |-> IF it.alt /\ cut[k] = "TAB" THEN "?" ELSE cut[k]]
    BY ONLY <1>3, <1>6, <1>8, <1>9, <1>16 DEF Rendered
  <2>2. it.width <= 0
    BY ONLY <1>3, Promised(it) DEF Promised
  <2> QED
    BY ONLY <1>1, <1>19, <1>20, <2>1, <2>2, JustifyNone
<1>22. Rendered(it) \in Seq(Glyphs)
  BY ONLY <1>1, <1>19, <1>21, JustifyText
<1>23. Head(ap) = it.s /\ Tail(ap) = r
  BY ONLY <1>2, <1>4, <1>5
<1>24. PICK left, right : /\ left = IF it.pad # "-" THEN Width1(it) - len ELSE 0
                          /\ right = IF it.pad # "-" THEN 0 ELSE Width1(it) - len
  OBVIOUS
<1>25. Prints(Pad(left, it.pad) \o shown \o Pad(right, " "), Tail(ap))
  BY ONLY <1>2, <1>6, <1>11, <1>13, <1>18, <1>23, <1>24, StringArg DEF StringArg, Shows
<1>26. it.pad \in Glyphs /\ " " \in Glyphs
  <2>1. " " \in Glyphs
    BY DEF Glyphs
  <2> QED
    BY ONLY <2>1, PartsAre, <1>1
<1>27. \A c \in Glyphs : Pad(0, c) = << >>
  <2>1. PICK y \in Int : y = 0
    OBVIOUS
  <2>2. \A c \in Glyphs : Pad(y, c) = << >>
    BY ONLY <2>1, PadText, y \in Int
  <2> QED
    BY ONLY <2>1, <2>2
<1>28. /\ Pad(Width1(it) - len, it.pad) = Pad(it.width - len, it.pad)
       /\ Pad(Width1(it) - len, " ") = Pad(it.width - len, " ")
       /\ Pad(it.width - len, it.pad) \in Seq(Glyphs) /\ Pad(it.width - len, " ") \in Seq(Glyphs)
  BY ONLY <1>1, <1>15, <1>26, FillSame
<1>29. Pad(left, it.pad) \o shown \o Pad(right, " ") = Justify(it, shown)
  <2>1. PICK f : f = Pad(it.width - len, it.pad)
    OBVIOUS
  <2>2. PICK g : g = Pad(it.width - len, " ")
    OBVIOUS
  <2>3. f \in Seq(Glyphs) /\ g \in Seq(Glyphs)
    BY ONLY <1>28, <2>1, <2>2
  <2>4. CASE it.pad # "-"
    <3>1. Pad(left, it.pad) = f /\ Pad(right, " ") = << >>
      BY ONLY <1>24, <1>26, <1>27, <1>28, <2>1, <2>4
    <3>2. Justify(it, shown) = f \o shown
      BY ONLY <1>19, <2>1, <2>4 DEF Justify
    <3>3. PICK x : x = f \o shown
      OBVIOUS
    <3>4. x \in Seq(Glyphs)
      BY ONLY <1>19, <2>3, <3>3, GlyphJoin
    <3>5. x \o << >> = x
      BY ONLY <3>4
    <3> QED
      BY ONLY <3>1, <3>2, <3>3, <3>5
  <2>5. CASE it.pad = "-"
    <3>1. Pad(left, it.pad) = << >> /\ Pad(right, " ") = g
      BY ONLY <1>24, <1>26, <1>27, <1>28, <2>2, <2>5
    <3>2. Justify(it, shown) = shown \o g
      BY ONLY <1>19, <2>2, <2>5 DEF Justify
    <3>3. << >> \o shown = shown
      BY ONLY <1>19, NoneFirst
    <3> QED
      BY ONLY <3>1, <3>2, <3>3
  <2> QED
    BY ONLY <2>4, <2>5
<1>30. Put(Rendered(it)) /\ fmt_at' = "text" /\ fmt' = Tail(fmt) /\ ap' = Tail(ap) /\ call' = call
  BY ONLY <1>21, <1>25, <1>29 DEF Prints, FmtStep
<1> QED
  BY ONLY <1>2, <1>22, <1>23, <1>30 DEF Converts

\* Every conversion that snprintf knows.
LEMMA KnownConverts ==
  ASSUME NEW it, NEW t, NEW r, Item(it, t, r), AtConv(it, t, r), Promised(it),
         Char \/ Percent \/ ErrorText \/ StringArg \/ Dec \/ Oct \/ Uns \/ Hex \/ Ptr
  PROVE  Converts(it, t, r)
<1>1. CASE Char
  BY ONLY <1>1, CharConverts, Item(it, t, r), AtConv(it, t, r)
<1>2. CASE Percent
  BY ONLY <1>2, PercentConverts, Item(it, t, r), AtConv(it, t, r)
<1>3. CASE ErrorText
  BY ONLY <1>3, ErrorConverts, Item(it, t, r), AtConv(it, t, r), Promised(it)
<1>4. CASE StringArg
  BY ONLY <1>4, StringConverts, Item(it, t, r), AtConv(it, t, r), Promised(it)
<1>5. CASE Dec \/ Oct \/ Uns \/ Hex \/ Ptr
  BY ONLY <1>5, NumbersConvert, Item(it, t, r), AtConv(it, t, r), Promised(it)
<1> QED
  BY <1>1, <1>2, <1>3, <1>4, <1>5

\* The characters between the directives.
Plain == Glyphs \ {"%", "NUL"}

LEMMA PlainGlyphs == \A s \in Seq(Plain) : s \in Seq(Glyphs)
<1>1. ASSUME NEW s \in Seq(Plain) PROVE s \in Seq(Glyphs)
  <2>1. PICK n \in Nat : n = Len(s)
    OBVIOUS
  <2>2. s \in [1..n -> Plain]
    BY ONLY <2>1, s \in Seq(Plain)
  <2>3. s \in [1..n -> Glyphs]
    BY ONLY <2>2 DEF Plain
  <2> QED
    BY ONLY <2>3, n \in Nat
<1> QED
  BY ONLY <1>1

LEMMA PlainDigits ==
  ASSUME NEW w \in Nat
  PROVE  Digits(w, 10) \in Seq(Plain)
<1>1. PICK D : D = Digits(w, 10)
  OBVIOUS
<1>2. D \in Seq(Glyphs)
  <2>1. 10 \in Bases
    BY DEF Bases
  <2> QED
    BY ONLY <1>1, <2>1, DigitsText, w \in Nat
<1>3. PICK n \in Nat : n = Len(D)
  BY ONLY <1>2
<1>4. \A k \in 1..n : IsDigit(D[k])
  BY ONLY <1>1, <1>3, DigitsValue, w \in Nat
<1>5. \A c : c = "0" \/ c \in Nines => c # "%" /\ c # "NUL"
  BY DEF Nines
<1>6. \A k \in 1..n : D[k] \in Plain
  BY ONLY <1>2, <1>3, <1>4, <1>5, DigitChars DEF Plain
<1>7. D \in [1..n -> Plain]
  BY ONLY <1>2, <1>3, <1>6
<1> QED
  BY ONLY <1>1, <1>7, n \in Nat

LEMMA PlainParts ==
  ASSUME NEW it, Written(it), it.conv # "%"
  PROVE  /\ PadPart(it) \in Seq(Plain) /\ AltPart(it) \in Seq(Plain)
         /\ WidthPart(it) \in Seq(Plain) /\ PointPart(it) \in Seq(Plain)
         /\ PrecPart(it) \in Seq(Plain) /\ LongPart(it) \in Seq(Plain)
         /\ <<it.conv>> \in Seq(Plain)
<1>1. /\ "-" \in Plain /\ "0" \in Plain /\ "#" \in Plain /\ "*" \in Plain
      /\ "." \in Plain /\ "l" \in Plain
  BY DEF Plain, Glyphs
<1>2. /\ it.pad \in {" ", "-", "0"} /\ it.width \in Int /\ it.prec \in Int
  BY DEF Written
<1>3. it.conv \in Plain
  <2>1. it.conv \in Glyphs /\ it.conv # "NUL"
    BY ONLY PartsAre, ConvApart, Written(it)
  <2> QED
    BY ONLY <2>1, it.conv # "%" DEF Plain
<1>4. << >> \in Seq(Plain) /\ \A c \in Plain : <<c>> \in Seq(Plain)
  OBVIOUS
<1>5. PadPart(it) \in Seq(Plain)
  BY ONLY <1>1, <1>2, <1>4 DEF PadPart, Maybe
<1>6. AltPart(it) \in Seq(Plain)
  BY ONLY <1>1, <1>4 DEF AltPart, Maybe
<1>7. WidthPart(it) \in Seq(Plain)
  <2>1. CASE ~it.star /\ it.width > 0
    <3>3. PICK w \in Int : w = it.width
      BY ONLY <1>2
    <3>4. w > 0
      BY ONLY <2>1, <3>3
    <3>5. w \in Nat
      BY ONLY <3>4, w \in Int
    <3>1. it.width \in Nat
      BY ONLY <3>3, <3>5
    <3>2. Digits(it.width, 10) \in Seq(Plain)
      BY ONLY <3>1, PlainDigits
    <3> QED
      BY ONLY <2>1, <3>2 DEF WidthPart, Maybe
  <2>2. CASE ~(~it.star /\ it.width > 0)
    BY ONLY <1>1, <1>4, <2>2 DEF WidthPart, Maybe
  <2> QED
    BY ONLY <2>1, <2>2
<1>8. PointPart(it) \in Seq(Plain)
  BY ONLY <1>1, <1>4 DEF PointPart, Maybe
<1>9. PrecPart(it) \in Seq(Plain)
  <2>1. CASE ~it.pstar /\ it.prec > 0
    <3>3. PICK w \in Int : w = it.prec
      BY ONLY <1>2
    <3>4. w > 0
      BY ONLY <2>1, <3>3
    <3>5. w \in Nat
      BY ONLY <3>4, w \in Int
    <3>1. it.prec \in Nat
      BY ONLY <3>3, <3>5
    <3>2. Digits(it.prec, 10) \in Seq(Plain)
      BY ONLY <3>1, PlainDigits
    <3> QED
      BY ONLY <2>1, <3>2 DEF PrecPart, Maybe
  <2>2. CASE ~(~it.pstar /\ it.prec > 0)
    BY ONLY <1>1, <1>4, <2>2 DEF PrecPart, Maybe
  <2> QED
    BY ONLY <2>1, <2>2
<1>10. LongPart(it) \in Seq(Plain)
  BY ONLY <1>1, <1>4 DEF LongPart, Maybe
<1> QED
  BY ONLY <1>3, <1>4, <1>5, <1>6, <1>7, <1>8, <1>9, <1>10

\* A text x that stands before t, and another that goes before both.
Precedes(x, t, y) == x \in Seq(Plain) /\ x \o t = y

LEMMA PrecedesMore ==
  ASSUME NEW p \in Seq(Plain), NEW x, NEW t \in Seq(Glyphs), NEW y, Precedes(x, t, y)
  PROVE  Precedes(p \o x, t, p \o y)
<1>1. x \in Seq(Plain) /\ x \o t = y
  BY DEF Precedes
<1>2. p \o x \in Seq(Plain)
  BY ONLY <1>1, p \in Seq(Plain)
<1>3. Regroups(p, x, t)
  <2>1. p \in Seq(Glyphs) /\ x \in Seq(Glyphs)
    BY ONLY <1>1, p \in Seq(Plain), PlainGlyphs
  <2> QED
    BY ONLY <2>1, t \in Seq(Glyphs), GlyphAssoc
<1> QED
  BY ONLY <1>1, <1>2, <1>3 DEF Precedes, Regroups

LEMMA UnknownText ==
  ASSUME NEW it, Written(it), it.conv # "%", NEW t \in Seq(Glyphs)
  PROVE  /\ Precedes(PadOn(it, << >>), t, PadOn(it, t))
         /\ it.text = <<"%">> \o PadOn(it, << >>)
<1>1. /\ PadPart(it) \in Seq(Plain) /\ AltPart(it) \in Seq(Plain)
      /\ WidthPart(it) \in Seq(Plain) /\ PointPart(it) \in Seq(Plain)
      /\ PrecPart(it) \in Seq(Plain) /\ LongPart(it) \in Seq(Plain)
      /\ <<it.conv>> \in Seq(Plain)
  BY PlainParts
<1>2. Precedes(<< >>, t, t)
  <2>1. << >> \in Seq(Plain)
    OBVIOUS
  <2> QED
    BY ONLY <2>1, NoneFirst, t \in Seq(Glyphs) DEF Precedes
<1>3. Precedes(ConvOn(it, << >>), t, ConvOn(it, t))
  BY ONLY <1>1, <1>2, PrecedesMore, t \in Seq(Glyphs) DEF ConvOn
<1>4. Precedes(LongOn(it, << >>), t, LongOn(it, t))
  BY ONLY <1>1, <1>3, PrecedesMore, t \in Seq(Glyphs) DEF LongOn
<1>5. Precedes(PrecOn(it, << >>), t, PrecOn(it, t))
  BY ONLY <1>1, <1>4, PrecedesMore, t \in Seq(Glyphs) DEF PrecOn
<1>6. Precedes(PointOn(it, << >>), t, PointOn(it, t))
  BY ONLY <1>1, <1>5, PrecedesMore, t \in Seq(Glyphs) DEF PointOn
<1>7. Precedes(WidthOn(it, << >>), t, WidthOn(it, t))
  BY ONLY <1>1, <1>6, PrecedesMore, t \in Seq(Glyphs) DEF WidthOn
<1>8. Precedes(AltOn(it, << >>), t, AltOn(it, t))
  BY ONLY <1>1, <1>7, PrecedesMore, t \in Seq(Glyphs) DEF AltOn
<1>9. Precedes(PadOn(it, << >>), t, PadOn(it, t))
  BY ONLY <1>1, <1>8, PrecedesMore, t \in Seq(Glyphs) DEF PadOn
<1>10. it.text = <<"%">> \o PadOn(it, << >>)
  <2>5. << >> \in Seq(Glyphs)
    OBVIOUS
  <2>1. PICK e \in Seq(Glyphs) : e = << >>
    BY ONLY <2>5
  <2>2. it.text \in Seq(Glyphs) /\ it.text \o e = <<"%">> \o PadOn(it, e)
    BY ONLY TextSplits, Written(it), e \in Seq(Glyphs)
  <2>3. PICK s \in Seq(Glyphs) : s = it.text
    BY ONLY <2>2
  <2>4. s \o e = s
    BY ONLY <2>1, s \in Seq(Glyphs)
  <2> QED
    BY ONLY <2>1, <2>2, <2>3, <2>4
<1> QED
  BY ONLY <1>9, <1>10

\* What every item is rendered as, whether or not it is a directive.
LEMMA NumberRendered ==
  ASSUME NEW it, Written(it), it.conv \in Numerals
  PROVE  Rendered(it) \in Seq(Glyphs)
<1>1. it.conv \in {"d", "u", "o", "x", "p"}
  BY DEF Numerals
<1>2. PICK v : v = IF it.v < 0 THEN -it.v ELSE it.v
  OBVIOUS
<1>3. v \in Nat
  <2>1. it.v \in Int
    BY ONLY <1>1, NumberSlot, Written(it)
  <2> QED
    BY ONLY <1>2, <2>1
<1>4. PICK base \in Bases : base = BaseOf(it.conv)
  BY DEF BaseOf, Bases
<1>5. Digits(v, base) \in Seq(Glyphs)
  BY ONLY <1>3, DigitsText, base \in Bases
<1>6. PICK j \in Seq(Glyphs) : j = Justify(it, Digits(v, base))
  BY ONLY <1>5, JustifyText, Written(it)
<1>7. PICK q : q = CASE it.conv = "p" -> <<"0", "x">> [] it.v < 0 -> <<"-">> [] OTHER -> << >>
  OBVIOUS
<1>8. q \in Seq(Glyphs)
  <2>1. "-" \in Glyphs /\ "0" \in Glyphs /\ "x" \in Glyphs
    BY DEF Glyphs
  <2>2. << >> \in Seq(Glyphs) /\ <<"-">> \in Seq(Glyphs) /\ <<"0", "x">> \in Seq(Glyphs)
    BY ONLY <2>1
  <2> QED
    BY ONLY <1>7, <2>2
<1>9. Rendered(it) = q \o j
  <2>1. Rendered(it) = (CASE it.conv = "p" -> <<"0", "x">> [] it.v < 0 -> <<"-">> [] OTHER -> << >>)
                       \o Justify(it, Digits(IF it.v < 0 THEN -it.v ELSE it.v, BaseOf(it.conv)))
    BY ONLY <1>1 DEF Rendered
  <2> QED
    BY ONLY <1>2, <1>4, <1>6, <1>7, <2>1
<1> QED
  BY ONLY <1>8, <1>9, GlyphJoin, j \in Seq(Glyphs)

LEMMA StringRendered ==
  ASSUME NEW it, Written(it), it.conv = "s"
  PROVE  Rendered(it) \in Seq(Glyphs)
<1>1. it.s \in Seq(Glyphs) /\ it.prec \in Int
  BY StringGlyphs DEF Written, Takable
<1>2. PICK p : p = IF it.s = NullStr THEN NullText ELSE it.s
  OBVIOUS
<1>3. p \in Seq(Glyphs)
  <2>1. NullText \in Seq(Glyphs)
    <3>1. /\ "(" \in Glyphs /\ "n" \in Glyphs /\ "u" \in Glyphs /\ "l" \in Glyphs
          /\ ")" \in Glyphs
      BY DEF Glyphs
    <3>2. ASSUME NEW c1 \in Glyphs, NEW c2 \in Glyphs, NEW c3 \in Glyphs, NEW c4 \in Glyphs,
                 NEW c5 \in Glyphs
          PROVE  <<c1, c2, c3, c4, c4, c5>> \in Seq(Glyphs)
      OBVIOUS
    <3> QED
      BY ONLY <3>1, <3>2 DEF NullText
  <2> QED
    BY ONLY <1>1, <1>2, <2>1
<1>4. PICK q \in Int : q = it.prec
  BY <1>1
<1>5. PICK cut : cut = IF q >= 0 /\ q < Len(p) THEN SubSeq(p, 1, q) ELSE p
  OBVIOUS
<1>6. cut \in Seq(Glyphs)
  <2>1. PICK n \in Nat : n = Len(p)
    BY ONLY <1>3
  <2>2. q >= 0 /\ q < n => SubSeq(p, 1, q) \in Seq(Glyphs)
    BY ONLY <1>3, <2>1, q \in Int, n \in Nat
  <2> QED
    BY ONLY <1>3, <1>5, <2>1, <2>2
<1>7. PICK n \in Nat : n = Len(cut)
  BY ONLY <1>6
<1>8. PICK shown : shown = Shows(cut, n, it.alt)
  OBVIOUS
<1>9. shown \in Seq(Glyphs)
  <2>1. "?" \in Glyphs
    BY DEF Glyphs
  <2>2. \A k \in 1..n : cut[k] \in Glyphs
    BY ONLY <1>6, <1>7, n \in Nat
  <2>3. shown \in [1..n -> Glyphs]
    BY ONLY <1>8, <2>1, <2>2 DEF Shows
  <2> QED
    BY ONLY <2>3, n \in Nat
<1>10. Rendered(it) = shown
  BY ONLY <1>2, <1>4, <1>5, <1>7, <1>8, it.conv = "s" DEF Rendered, Shows
<1> QED
  BY ONLY <1>9, <1>10

LEMMA ErrorRendered ==
  ASSUME NEW it, Written(it), it.conv = "e"
  PROVE  Rendered(it) \in Seq(Glyphs)
<1>1. it.v \in SignedIn(IntWidth)
  BY DEF Written, Takable
<1>2. PICK v \in Int : v = it.v
  BY ONLY <1>1, StarSlot
<1>3. PICK e \in Nat : e = IF v < 0 THEN -v ELSE v
  OBVIOUS
<1>4. Rendered(it) = IF e \in 1..MAXERROR-1 THEN ErrorName(e)
                     ELSE <<"e", "r", "r", "o", "r", " ">> \o Digits(e, 10)
  BY ONLY <1>2, <1>3, it.conv = "e" DEF Rendered
<1>5. "e" \in Glyphs /\ "r" \in Glyphs /\ "o" \in Glyphs /\ " " \in Glyphs /\ "m" \in Glyphs
  BY DEF Glyphs
<1>6. CASE e \in 1..MAXERROR-1
  <2>1. e \in 0..15
    BY ONLY <1>6 DEF MAXERROR
  <2>2. Digit(e) \in Glyphs
    BY ONLY <2>1, DigitString
  <2>3. ASSUME NEW c1 \in Glyphs, NEW c2 \in Glyphs PROVE <<c1, c2>> \in Seq(Glyphs)
    OBVIOUS
  <2> QED
    BY ONLY <1>4, <1>5, <1>6, <2>2, <2>3 DEF ErrorName
<1>7. CASE e \notin 1..MAXERROR-1
  <2>1. ASSUME NEW c1 \in Glyphs, NEW c2 \in Glyphs, NEW c3 \in Glyphs, NEW c4 \in Glyphs
        PROVE  <<c1, c2, c2, c3, c2, c4>> \in Seq(Glyphs)
    OBVIOUS
  <2>2. PICK s \in Seq(Glyphs) : s = <<"e", "r", "r", "o", "r", " ">>
    BY ONLY <1>5, <2>1
  <2>3. 10 \in Bases
    BY DEF Bases
  <2>4. Digits(e, 10) \in Seq(Glyphs)
    BY ONLY <2>3, DigitsText, e \in Nat
  <2>5. s \o Digits(e, 10) \in Seq(Glyphs)
    BY ONLY <2>4, GlyphJoin, s \in Seq(Glyphs)
  <2> QED
    BY ONLY <1>4, <1>7, <2>2, <2>5
<1> QED
  BY ONLY <1>6, <1>7

LEMMA RenderedText ==
  ASSUME NEW it, Written(it)
  PROVE  Rendered(it) \in Seq(Glyphs)
<1>1. CASE it.conv \in Numerals
  BY <1>1, NumberRendered
<1>2. CASE it.conv = "s"
  BY <1>2, StringRendered
<1>3. CASE it.conv = "e"
  BY <1>3, ErrorRendered
<1>4. CASE it.conv = "c"
  <2>1. Rendered(it) = it.s
    BY ONLY <1>4 DEF Rendered
  <2>2. it.s \in Seq(STRING)
    BY ONLY <1>4, Written(it) DEF Written, Takable
  <2> QED
    BY ONLY <2>1, <2>2, StringGlyphs
<1>5. CASE it.conv = "%"
  <2>1. Rendered(it) = <<"%">>
    BY ONLY <1>5 DEF Rendered
  <2>2. "%" \in Glyphs
    BY DEF Glyphs
  <2> QED
    BY ONLY <2>1, <2>2
<1>6. CASE it.conv \notin Numerals \cup {"s", "e", "c", "%"}
  <2>1. Rendered(it) = it.text
    BY ONLY <1>6 DEF Rendered, Numerals
  <2>2. << >> \in Seq(Glyphs)
    OBVIOUS
  <2> QED
    BY ONLY <2>1, <2>2, TextSplits, Written(it)
<1> QED
  BY ONLY <1>1, <1>2, <1>3, <1>4, <1>5, <1>6

LEMMA LiteralIs ==
  ASSUME NEW it, NEW last \in BOOLEAN, Literal(it, last)
  PROVE  /\ it.text \in Seq(Glyphs) /\ it.text # << >>
         /\ it.text \in Seq(Plain) \/ (last /\ it.text = <<"%">>)
         /\ Rendered(it) = it.text /\ ArgsOf(it) = << >>
<1>1. Rendered(it) = it.text
  BY DEF Literal, Rendered
<1>2. ArgsOf(it) = << >>
  <2>1. ArgsOf(it) = << >> \o << >> \o << >>
    BY DEF Literal, ArgsOf
  <2> QED
    BY ONLY <2>1
<1>3. it.text \in Seq(Plain) \/ (last /\ it.text = <<"%">>)
  <2>1. CASE PlainText(it.text)
    <3>1. PICK s : s = it.text
      OBVIOUS
    <3>2. s \in Seq(STRING) /\ \A k \in 1..Len(s) : s[k] \notin {"%", "NUL"}
      BY ONLY <2>1, <3>1 DEF PlainText
    <3>3. PICK n \in Nat : n = Len(s)
      BY ONLY <3>2
    <3>4. \A k \in 1..n : s[k] \in Plain
      BY ONLY <3>2, <3>3, StringGlyphs, n \in Nat DEF Plain
    <3>5. s \in [1..n -> Plain]
      BY ONLY <3>2, <3>3, <3>4
    <3> QED
      BY ONLY <3>1, <3>5, n \in Nat
  <2> QED
    BY <2>1 DEF Literal
<1>4. it.text \in Seq(Glyphs)
  <2>1. "%" \in Glyphs
    BY DEF Glyphs
  <2>2. <<"%">> \in Seq(Glyphs)
    BY ONLY <2>1
  <2> QED
    BY ONLY <1>3, <2>2, PlainGlyphs
<1>5. it.text # << >>
  BY DEF Literal
<1> QED
  BY ONLY <1>1, <1>2, <1>3, <1>4, <1>5

-----------------------------------------------------------------------------
(* snprintf: a whole call. *)

\* A call of which every item is written as C says, and asks for what is promised.
AllWritten(c) ==
  \A k \in 1..Len(c.items) :
    WellWritten(c.items[k], k = Len(c.items)) /\ Promised(c.items[k])

\* The format, the arguments and the text asked for, each from an item on.
TextsOf(c, T) ==
  /\ T \in [1..Len(c.items)+1 -> Seq(Glyphs)] /\ T[Len(c.items) + 1] = <<"NUL">>
  /\ \A k \in 1..Len(c.items) : T[k] = c.items[k].text \o T[k + 1]

SlotsFrom(c, A) ==
  /\ A \in [1..Len(c.items)+1 -> Seq(Slots)] /\ A[Len(c.items) + 1] = << >>
  /\ \A k \in 1..Len(c.items) : A[k] = ArgsOf(c.items[k]) \o A[k + 1]

AskedFrom(c, R) ==
  /\ R \in [1..Len(c.items)+1 -> Seq(Glyphs)] /\ R[Len(c.items) + 1] = << >>
  /\ \A k \in 1..Len(c.items) : R[k] = Rendered(c.items[k]) \o R[k + 1]
  /\ R[1] = FlattenSeq([k \in 1..Len(c.items) |-> Rendered(c.items[k])])

Parted(c, T, A, R) ==
  Len(c.items) \in Nat /\ TextsOf(c, T) /\ SlotsFrom(c, A) /\ AskedFrom(c, R)

LEMMA ItemIs ==
  ASSUME NEW c, AllWritten(c), NEW k \in 1..Len(c.items)
  PROVE  /\ Literal(c.items[k], k = Len(c.items)) \/ Written(c.items[k])
         /\ Promised(c.items[k])
         /\ c.items[k].text \in Seq(Glyphs) /\ Rendered(c.items[k]) \in Seq(Glyphs)
         /\ ArgsOf(c.items[k]) \in Seq(Slots)
<1>5. PICK last \in BOOLEAN : last = (k = Len(c.items))
  OBVIOUS
<1>1. PICK it : it = c.items[k] /\ last = (k = Len(c.items))
  BY ONLY <1>5
<1>2. (Literal(it, last) \/ Written(it)) /\ Promised(it)
  BY <1>1 DEF AllWritten, WellWritten
<1>3. << >> \in Seq(Glyphs) /\ << >> \in Seq(Slots)
  OBVIOUS
<1>4. it.text \in Seq(Glyphs) /\ Rendered(it) \in Seq(Glyphs) /\ ArgsOf(it) \in Seq(Slots)
  <2>1. CASE Literal(it, last)
    BY ONLY <1>3, <2>1, LiteralIs, last \in BOOLEAN
  <2>2. CASE Written(it)
    BY ONLY <1>3, <2>2, TextSplits, RenderedText, ArgsAre
  <2> QED
    BY ONLY <1>2, <2>1, <2>2
<1> QED
  BY ONLY <1>1, <1>2, <1>4

LEMMA PartedExist ==
  ASSUME NEW c, AllWritten(c), Len(c.items) \in Nat
  PROVE  \E T, A, R : Parted(c, T, A, R) /\ T[1] = FormatOf(c) /\ A[1] = SlotsOf(c)
<1>1. PICK N \in Nat : N = Len(c.items)
  OBVIOUS
<1>2. PICK texts : texts = [k \in 1..N |-> c.items[k].text]
  OBVIOUS
<1>3. PICK args : args = [k \in 1..N |-> ArgsOf(c.items[k])]
  OBVIOUS
<1>4. PICK asked : asked = [k \in 1..N |-> Rendered(c.items[k])]
  OBVIOUS
<1>5. \A k \in 1..N : /\ texts[k] = c.items[k].text /\ args[k] = ArgsOf(c.items[k])
                      /\ asked[k] = Rendered(c.items[k])
  BY ONLY <1>2, <1>3, <1>4
<1>6. \A k \in 1..N : /\ texts[k] \in Seq(Glyphs) /\ args[k] \in Seq(Slots)
                      /\ asked[k] \in Seq(Glyphs)
  BY ONLY <1>1, <1>5, ItemIs, AllWritten(c)
<1>7. texts = [k \in 1..N |-> texts[k]] /\ args = [k \in 1..N |-> args[k]]
      /\ asked = [k \in 1..N |-> asked[k]]
  BY ONLY <1>2, <1>3, <1>4
<1>8. PICK g \in [1..N+1 -> Seq(Glyphs)] :
        /\ g[N + 1] = << >> /\ \A k \in 1..N : g[k] = texts[k] \o g[k + 1]
        /\ FlattenSeq(texts) = g[1]
  <2>1. Remainders(Glyphs, N, texts)
    BY ONLY <1>6, RemaindersExist, N \in Nat
  <2> QED
    BY ONLY <1>7, <2>1 DEF Remainders
<1>9. PICK A \in [1..N+1 -> Seq(Slots)] :
        /\ A[N + 1] = << >> /\ \A k \in 1..N : A[k] = args[k] \o A[k + 1]
        /\ FlattenSeq(args) = A[1]
  <2>1. Remainders(Slots, N, args)
    BY ONLY <1>6, RemaindersExist, N \in Nat
  <2> QED
    BY ONLY <1>7, <2>1 DEF Remainders
<1>10. PICK R \in [1..N+1 -> Seq(Glyphs)] :
        /\ R[N + 1] = << >> /\ \A k \in 1..N : R[k] = asked[k] \o R[k + 1]
        /\ FlattenSeq(asked) = R[1]
  <2>1. Remainders(Glyphs, N, asked)
    BY ONLY <1>6, RemaindersExist, N \in Nat
  <2> QED
    BY ONLY <1>7, <2>1 DEF Remainders
<1>11. PICK nul \in Seq(Glyphs) : nul = <<"NUL">>
  <2>1. "NUL" \in Glyphs
    BY DEF Glyphs
  <2>2. <<"NUL">> \in Seq(Glyphs)
    BY ONLY <2>1
  <2> QED
    BY ONLY <2>2
<1>12. PICK T : T = [k \in 1..N+1 |-> g[k] \o nul]
  OBVIOUS
<1>13. T \in [1..N+1 -> Seq(Glyphs)]
  <2>1. \A k \in 1..N+1 : g[k] \o nul \in Seq(Glyphs)
    BY ONLY GlyphJoin, g \in [1..N+1 -> Seq(Glyphs)], nul \in Seq(Glyphs)
  <2> QED
    BY ONLY <1>12, <2>1
<1>14. T[N + 1] = nul
  <2>1. N + 1 \in 1..N+1
    OBVIOUS
  <2>2. T[N + 1] = << >> \o nul
    BY ONLY <1>8, <1>12, <2>1
  <2> QED
    BY ONLY <2>2, NoneFirst, nul \in Seq(Glyphs)
<1>15. ASSUME NEW k \in 1..N PROVE T[k] = texts[k] \o T[k + 1]
  <2>1. k \in 1..N+1 /\ k + 1 \in 1..N+1
    BY ONLY k \in 1..N, N \in Nat
  <2>2. T[k] = (texts[k] \o g[k + 1]) \o nul /\ T[k + 1] = g[k + 1] \o nul
    BY ONLY <1>8, <1>12, <2>1, k \in 1..N
  <2>3. PICK f \in Seq(Glyphs), h \in Seq(Glyphs) : f = texts[k] /\ h = g[k + 1]
    BY ONLY <1>6, <2>1, k \in 1..N, g \in [1..N+1 -> Seq(Glyphs)]
  <2>4. Regroups(f, h, nul)
    BY ONLY GlyphAssoc, f \in Seq(Glyphs), h \in Seq(Glyphs), nul \in Seq(Glyphs)
  <2> QED
    BY ONLY <2>2, <2>3, <2>4 DEF Regroups
<1>16. T[1] = FormatOf(c)
  <2>1. 1 \in 1..N+1
    OBVIOUS
  <2>2. T[1] = FlattenSeq(texts) \o nul
    BY ONLY <1>8, <1>12, <2>1
  <2> QED
    BY ONLY <1>1, <1>2, <1>11, <2>2 DEF FormatOf
<1>17. A[1] = SlotsOf(c)
  BY ONLY <1>1, <1>3, <1>9 DEF SlotsOf
<1>18. TextsOf(c, T)
  BY ONLY <1>1, <1>5, <1>11, <1>13, <1>14, <1>15 DEF TextsOf
<1>19. SlotsFrom(c, A)
  BY ONLY <1>1, <1>5, <1>9 DEF SlotsFrom
<1>20. AskedFrom(c, R)
  BY ONLY <1>1, <1>4, <1>5, <1>10 DEF AskedFrom
<1>21. Parted(c, T, A, R)
  BY ONLY <1>18, <1>19, <1>20, Len(c.items) \in Nat DEF Parted
<1> QED
  BY ONLY <1>16, <1>17, <1>21

\* Between two directives: x is put, u is text to put before the items from k on.
AtText(c, T, A, R, x, u, k) ==
  /\ k \in 1..Len(c.items)+1 /\ u \in Seq(Plain) /\ OutIs(x) /\ x \in Seq(Glyphs)
  /\ fmt = u \o T[k] /\ ap = A[k] /\ x \o (u \o R[k]) = R[1]

\* What comes next there: a character, the end, a directive, or the last '%'.
PlainNext(c, T, A, R, x, h, v, k) ==
  /\ k \in 1..Len(c.items)+1 /\ OutIs(x) /\ x \in Seq(Glyphs)
  /\ h \in Plain /\ v \in Seq(Plain)
  /\ Pending(h, v \o T[k]) /\ ap = A[k] /\ (x \o <<h>>) \o (v \o R[k]) = R[1]

EndNext(R, x) == OutIs(x) /\ fmt = <<"NUL">> /\ x = R[1]

ItemNext(c, T, A, R, x, k) ==
  /\ k \in 1..Len(c.items) /\ OutIs(x) /\ x \in Seq(Glyphs)
  /\ Item(c.items[k], T[k+1], A[k+1]) /\ Promised(c.items[k])
  /\ Pending("%", PadOn(c.items[k], T[k+1])) /\ ap = AllArgs(c.items[k], A[k+1])
  /\ x \o R[k] = R[1]

LastNext(c, T, A, R, x, k) ==
  /\ k \in 1..Len(c.items) /\ OutIs(x) /\ x \in Seq(Glyphs)
  /\ k = Len(c.items) /\ Pending("%", <<"NUL">>) /\ ap = A[k+1]
  /\ x \o (<<"%">> \o R[k+1]) = R[1]

LEMMA PlainSplits ==
  ASSUME NEW u \in Seq(Plain), u # << >>
  PROVE  \E h \in Plain, v \in Seq(Plain) : u = <<h>> \o v
<1>1. PICK n \in Nat : n = Len(u)
  OBVIOUS
<1>2. n >= 1
  <2>1. n # 0
    BY ONLY <1>1, u \in Seq(Plain), u # << >>
  <2> QED
    BY ONLY <2>1, n \in Nat
<1>3. PICK h \in Plain, v \in Seq(Plain) : h = u[1] /\ v = Tail(u)
  <2>1. u[1] \in Plain
    BY ONLY <1>1, <1>2, u \in Seq(Plain), n \in Nat
  <2>2. Tail(u) \in Seq(Plain)
    BY ONLY u \in Seq(Plain), u # << >>
  <2> QED
    BY ONLY <2>1, <2>2
<1>4. Len(v) = n - 1 /\ \A j \in 1..n-1 : v[j] = u[j + 1]
  BY ONLY <1>1, <1>2, <1>3, u \in Seq(Plain), u # << >>, n \in Nat
<1>5. PICK s : s = <<h>>
  OBVIOUS
<1>6. s \in Seq(Glyphs) /\ Len(s) = 1 /\ s[1] = h /\ v \in Seq(Glyphs) /\ u \in Seq(Glyphs)
  <2>1. h \in Glyphs
    BY ONLY h \in Plain DEF Plain
  <2>2. <<h>> \in Seq(Glyphs) /\ Len(<<h>>) = 1 /\ <<h>>[1] = h
    BY ONLY <2>1
  <2> QED
    BY ONLY <1>5, <2>2, PlainGlyphs, v \in Seq(Plain), u \in Seq(Plain)
<1>7. PICK y : y = s \o v
  OBVIOUS
<1>8. y \in Seq(Glyphs) /\ Len(y) = n /\ \A j \in 1..n : y[j] = u[j]
  <2>1. Joins(s, v, y)
    BY ONLY <1>6, <1>7, JoinsAre
  <2>2. PICK m \in Int : m = n - 1
    OBVIOUS
  <2>3. Len(v) = m /\ \A j \in 1..m : v[j] = u[j + 1]
    BY ONLY <1>4, <2>2
  <2>4. y \in Seq(Glyphs) /\ Len(y) = 1 + m /\ y[1] = h /\ \A j \in 1..m : y[1 + j] = v[j]
    <3>1. 1 \in 1..1
      OBVIOUS
    <3> QED
      BY ONLY <1>6, <2>1, <2>3, <3>1 DEF Joins
  <2>5. ASSUME NEW j \in 1..n PROVE y[j] = u[j]
    <3>1. CASE j = 1
      BY ONLY <1>3, <2>4, <3>1
    <3>2. CASE j # 1
      <4>1. PICK i \in 1..m : i = j - 1
        BY ONLY <2>2, <3>2, j \in 1..n, n \in Nat
      <4>2. 1 + i = j /\ i + 1 = j
        BY ONLY <2>2, <4>1, j \in 1..n, n \in Nat
      <4> QED
        BY ONLY <2>3, <2>4, <4>2, i \in 1..m
    <3> QED
      BY ONLY <3>1, <3>2
  <2>6. 1 + m = n
    BY ONLY <2>2, n \in Nat
  <2> QED
    BY ONLY <2>4, <2>5, <2>6
<1>9. y = u
  <2>1. Len(y) = Len(u) /\ \A j \in 1..Len(y) : y[j] = u[j]
    BY ONLY <1>1, <1>8
  <2>2. y \in Seq(Glyphs) /\ u \in Seq(Glyphs)
    BY ONLY <1>6, <1>8
  <2> QED
    BY ONLY <2>1, <2>2, SameSeq
<1> QED
  BY ONLY <1>5, <1>7, <1>9, h \in Plain, v \in Seq(Plain)

LEMMA PartsTyped ==
  ASSUME NEW c, NEW T, NEW A, NEW R, Parted(c, T, A, R), NEW k \in 1..Len(c.items)+1
  PROVE  T[k] \in Seq(Glyphs) /\ A[k] \in Seq(Slots) /\ R[k] \in Seq(Glyphs)
BY DEF Parted, TextsOf, SlotsFrom, AskedFrom

LEMMA PlainComes ==
  ASSUME NEW c, NEW T, NEW A, NEW R, Parted(c, T, A, R), NEW x, NEW u, NEW k,
         AtText(c, T, A, R, x, u, k), u # << >>
  PROVE  \E h, v : PlainNext(c, T, A, R, x, h, v, k)
<1>1. /\ k \in 1..Len(c.items)+1 /\ u \in Seq(Plain) /\ OutIs(x) /\ x \in Seq(Glyphs)
      /\ fmt = u \o T[k] /\ ap = A[k] /\ x \o (u \o R[k]) = R[1]
  BY DEF AtText
<1>2. PICK h \in Plain, v \in Seq(Plain) : u = <<h>> \o v
  BY ONLY <1>1, PlainSplits, u # << >>
<1>3. PICK t \in Seq(Glyphs), q \in Seq(Glyphs) : t = T[k] /\ q = R[k]
  BY ONLY <1>1, PartsTyped, Parted(c, T, A, R)
<1>13. <<h>> \in Seq(Plain)
  OBVIOUS
<1>4. PICK s \in Seq(Plain) : s = <<h>>
  BY ONLY <1>13
<1>5. s \in Seq(Glyphs) /\ v \in Seq(Glyphs) /\ h \in Glyphs
  BY ONLY PlainGlyphs, s \in Seq(Plain), v \in Seq(Plain), h \in Plain DEF Plain
<1>6. Regroups(s, v, t) /\ Regroups(s, v, q)
  BY ONLY <1>5, GlyphAssoc, t \in Seq(Glyphs), q \in Seq(Glyphs)
<1>7. v \o t \in Seq(Glyphs) /\ v \o q \in Seq(Glyphs)
  BY ONLY <1>5, GlyphJoin, t \in Seq(Glyphs), q \in Seq(Glyphs)
<1>8. fmt = <<h>> \o (v \o t)
  BY ONLY <1>1, <1>2, <1>3, <1>4, <1>6 DEF Regroups
<1>9. Pending(h, v \o t)
  BY ONLY <1>5, <1>7, <1>8, PendingIs
<1>10. Regroups(x, s, v \o q)
  BY ONLY <1>1, <1>5, <1>7, GlyphAssoc
<1>11. (x \o <<h>>) \o (v \o q) = R[1]
  BY ONLY <1>1, <1>2, <1>3, <1>4, <1>6, <1>10 DEF Regroups
<1>12. PlainNext(c, T, A, R, x, h, v, k)
  BY ONLY <1>1, <1>3, <1>9, <1>11, h \in Plain, v \in Seq(Plain) DEF PlainNext
<1> QED
  BY ONLY <1>12

LEMMA NextComes ==
  ASSUME NEW c, NEW T, NEW A, NEW R, Parted(c, T, A, R), AllWritten(c), NEW x, NEW u, NEW k,
         AtText(c, T, A, R, x, u, k)
  PROVE  \/ \E h, v, j : PlainNext(c, T, A, R, x, h, v, j)
         \/ EndNext(R, x)
         \/ \E j : ItemNext(c, T, A, R, x, j) \/ LastNext(c, T, A, R, x, j)
<1>1. /\ k \in 1..Len(c.items)+1 /\ u \in Seq(Plain) /\ OutIs(x) /\ x \in Seq(Glyphs)
      /\ fmt = u \o T[k] /\ ap = A[k] /\ x \o (u \o R[k]) = R[1]
  BY DEF AtText
<1>2. CASE u # << >>
  BY <1>2, PlainComes
<1>3. ASSUME u = << >> PROVE fmt = T[k] /\ x \o R[k] = R[1]
  <2>1. T[k] \in Seq(Glyphs) /\ R[k] \in Seq(Glyphs)
    BY ONLY <1>1, PartsTyped, Parted(c, T, A, R)
  <2>2. << >> \o T[k] = T[k] /\ << >> \o R[k] = R[k]
    BY ONLY <2>1, NoneFirst
  <2> QED
    BY ONLY <1>1, <1>3, <2>2
<1>4. PICK N \in Nat : N = Len(c.items)
  BY DEF Parted
<1>5. CASE u = << >> /\ k = N + 1
  <2>1. fmt = <<"NUL">> /\ x \o << >> = R[1]
    BY ONLY <1>3, <1>4, <1>5, Parted(c, T, A, R) DEF Parted, TextsOf, AskedFrom
  <2>2. x \o << >> = x
    BY ONLY <1>1
  <2>3. EndNext(R, x)
    BY ONLY <1>1, <2>1, <2>2 DEF EndNext
  <2> QED
    BY ONLY <2>3
<1>6. CASE u = << >> /\ k # N + 1
  <2>1. k \in 1..N /\ k + 1 \in 1..N+1
    BY ONLY <1>1, <1>4, <1>6, N \in Nat
  <2>2. PICK it : it = c.items[k]
    OBVIOUS
  <2>3. PICK t \in Seq(Glyphs), a \in Seq(Slots), q \in Seq(Glyphs) :
          t = T[k + 1] /\ a = A[k + 1] /\ q = R[k + 1]
    BY ONLY <1>4, <2>1, PartsTyped, Parted(c, T, A, R)
  <2>4. /\ Literal(it, k = N) \/ Written(it)
        /\ Promised(it) /\ it.text \in Seq(Glyphs)
    BY ONLY <1>4, <2>1, <2>2, ItemIs, AllWritten(c)
  <2>5. /\ T[k] = it.text \o t /\ A[k] = ArgsOf(it) \o a /\ R[k] = Rendered(it) \o q
    BY ONLY <1>4, <2>1, <2>2, <2>3, Parted(c, T, A, R) DEF Parted, TextsOf, SlotsFrom, AskedFrom
  <2>6. fmt = it.text \o t /\ ap = ArgsOf(it) \o a /\ x \o R[k] = R[1]
    BY ONLY <1>1, <1>3, <1>6, <2>5
  <2>7. CASE Written(it)
    <3>1. it.text \o t = <<"%">> \o PadOn(it, t)
      BY ONLY <2>7, TextSplits, t \in Seq(Glyphs)
    <3>2. ArgsOf(it) \o a = AllArgs(it, a)
      BY ONLY <2>7, ArgsAre, a \in Seq(Slots)
    <3>3. PadOn(it, t) \in Seq(Glyphs)
      BY ONLY <2>7, PartsOn, t \in Seq(Glyphs)
    <3>4. "%" \in Glyphs
      BY DEF Glyphs
    <3>5. fmt = <<"%">> \o PadOn(it, t)
      BY ONLY <2>6, <3>1
    <3>6. Pending("%", PadOn(it, t))
      BY ONLY <3>3, <3>4, <3>5, PendingIs
    <3>7. Item(it, t, a)
      BY ONLY <2>7, t \in Seq(Glyphs), a \in Seq(Slots) DEF Item
    <3>8. ItemNext(c, T, A, R, x, k)
      BY ONLY <1>1, <1>4, <2>1, <2>2, <2>3, <2>4, <2>6, <3>2, <3>6, <3>7 DEF ItemNext
    <3> QED
      BY ONLY <3>8
  <2>8. CASE Literal(it, k = N)
    <3>1. PICK last \in BOOLEAN : last = (k = N)
      OBVIOUS
    <3>2. Literal(it, last)
      BY ONLY <2>8, <3>1
    <3>3. /\ it.text # << >>
          /\ it.text \in Seq(Plain) \/ (k = N /\ it.text = <<"%">>)
          /\ Rendered(it) = it.text /\ ArgsOf(it) = << >>
      BY ONLY <3>1, <3>2, LiteralIs, last \in BOOLEAN
    <3>4. ap = a
      <4>1. ap = << >> \o a
        BY ONLY <2>6, <3>3
      <4> QED
        BY ONLY <4>1, NoneFirst, a \in Seq(Slots)
    <3>5. x \o (it.text \o q) = R[1]
      BY ONLY <2>5, <2>6, <3>3
    <3>6. CASE it.text \in Seq(Plain)
      <4>1. PICK u2 : u2 = it.text
        OBVIOUS
      <4>2. AtText(c, T, A, R, x, u2, k + 1)
        BY ONLY <1>1, <1>4, <2>1, <2>3, <2>6, <3>4, <3>5, <3>6, <4>1 DEF AtText
      <4>3. u2 # << >>
        BY ONLY <3>3, <4>1
      <4> QED
        BY ONLY <4>2, <4>3, PlainComes, Parted(c, T, A, R)
    <3>7. CASE k = N /\ it.text = <<"%">>
      <4>1. t = <<"NUL">>
        BY ONLY <1>4, <2>3, <3>7, Parted(c, T, A, R) DEF Parted, TextsOf
      <4>2. fmt = <<"%">> \o t
        BY ONLY <2>6, <3>7
      <4>3. "%" \in Glyphs
        BY DEF Glyphs
      <4>4. Pending("%", t)
        BY ONLY <4>2, <4>3, PendingIs, t \in Seq(Glyphs)
      <4>5. LastNext(c, T, A, R, x, k)
        BY ONLY <1>1, <1>4, <2>1, <2>3, <3>4, <3>5, <3>7, <4>1, <4>4 DEF LastNext
      <4> QED
        BY ONLY <4>5
    <3> QED
      BY ONLY <3>3, <3>6, <3>7
  <2> QED
    BY ONLY <2>4, <2>7, <2>8
<1> QED
  BY ONLY <1>2, <1>5, <1>6

\* Within a directive, or after the last '%'.
ItemGoes(c, T, A, R, x, k) ==
  /\ k \in 1..Len(c.items) /\ OutIs(x) /\ x \in Seq(Glyphs) /\ x \o R[k] = R[1]
  /\ Item(c.items[k], T[k+1], A[k+1]) /\ Promised(c.items[k])
  /\ since = PadOn(c.items[k], T[k+1]) /\ InDirective(c.items[k], T[k+1], A[k+1])

LastGoes(c, T, A, R, x, k) ==
  /\ k \in 1..Len(c.items) /\ k = Len(c.items) /\ OutIs(x) /\ x \in Seq(Glyphs)
  /\ x \o (<<"%">> \o R[k+1]) = R[1]
  /\ fmt = <<"NUL">> /\ since = <<"NUL">> /\ ap = A[k+1]

FreshBuf == \E m : b = [mem |-> m, buf |-> 0, cnt |-> 0] /\ DOMAIN m = 0..BufSize

\* How far a call is: what is put, and what of the format and the arguments is left.
GoesOn(c, T, A, R) ==
  /\ fmt_at = "call" => fmt = T[1] /\ ap = A[1] /\ FreshBuf
  /\ fmt_at = "text" => \E x, u, k : AtText(c, T, A, R, x, u, k)
  /\ fmt_at = "flags" => \E x, k : ItemGoes(c, T, A, R, x, k) \/ LastGoes(c, T, A, R, x, k)
  /\ fmt_at = "returned" /\ rc # -3 =>
       /\ rc = Len(R[1])
       /\ Stored = SubSeq(R[1], 1, IF Len(R[1]) < call.n - 1 THEN Len(R[1]) ELSE call.n - 1)

CallGoes(c, T, A, R) == Sizes /\ call = c /\ AllWritten(c) /\ Parted(c, T, A, R)

LEMMA OutKept ==
  ASSUME NEW x, OutIs(x), b' = b, call' = call
  PROVE  OutIs(x)'
BY DEF OutIs, PutSoFar

LEMMA TextFollows ==
  ASSUME NEW c, NEW T, NEW A, NEW R, NEW x, NEW u, NEW k,
         AtText(c, T, A, R, x, u, k)', fmt_at' = "text"
  PROVE  GoesOn(c, T, A, R)'
BY DEF GoesOn

LEMMA FlagsFollow ==
  ASSUME NEW c, NEW T, NEW A, NEW R, NEW x, NEW k, fmt_at' = "flags",
         ItemGoes(c, T, A, R, x, k)' \/ LastGoes(c, T, A, R, x, k)'
  PROVE  GoesOn(c, T, A, R)'
BY DEF GoesOn

LEMMA StartGoes ==
  ASSUME NEW c, NEW T, NEW A, NEW R, CallGoes(c, T, A, R), GoesOn(c, T, A, R), Start
  PROVE  GoesOn(c, T, A, R)'
<1>1. /\ fmt_at' = "text" /\ fmt' = fmt /\ ap' = ap /\ call' = call /\ b' = b
      /\ fmt_at = "call" /\ call.n >= 1
  BY DEF Start, FmtStep
<1>2. fmt = T[1] /\ ap = A[1] /\ FreshBuf
  BY <1>1 DEF GoesOn
<1>3. PICK m : b = [mem |-> m, buf |-> 0, cnt |-> 0] /\ DOMAIN m = 0..BufSize
  BY <1>2 DEF FreshBuf
<1>4. PICK e \in Seq(Glyphs) : e = << >>
  <2>1. << >> \in Seq(Glyphs)
    OBVIOUS
  <2> QED
    BY ONLY <2>1
<1>5. Len(e) = 0
  BY ONLY <1>4
<1>6. PutSoFar(e, m, 0)
  <2>1. PICK n \in Int : n = call.n /\ n >= 1
    BY <1>1 DEF CallGoes, Sizes
  <2>2. 0 = IF Len(e) <= call.n - 1 THEN Len(e) ELSE call.n - 1
    BY ONLY <1>5, <2>1, n \in Int
  <2>3. \A i \in 0..0-1 : m[i] = e[i + 1]
    OBVIOUS
  <2> QED
    BY ONLY <1>3, <1>5, <2>2, <2>3, e \in Seq(Glyphs) DEF PutSoFar
<1>7. OutIs(e)
  BY ONLY <1>1, <1>6 DEF OutIs
<1>8. OutIs(e)'
  BY ONLY <1>1, <1>7, OutKept
<1>9. PICK N \in Nat : N = Len(c.items)
  BY DEF CallGoes, Parted
<1>10. 1 \in 1..Len(c.items)+1
  <2>1. 1 \in 1..N+1
    OBVIOUS
  <2> QED
    BY ONLY <1>9, <2>1
<1>11. T[1] \in Seq(Glyphs) /\ R[1] \in Seq(Glyphs)
  BY ONLY <1>10, PartsTyped, CallGoes(c, T, A, R) DEF CallGoes
<1>12. << >> \o T[1] = T[1] /\ << >> \o R[1] = R[1]
  BY ONLY <1>11, NoneFirst
<1>13. fmt' = e \o T[1] /\ e \o (e \o R[1]) = R[1] /\ ap' = A[1]
  BY ONLY <1>1, <1>2, <1>4, <1>12
<1>14. e \in Seq(Plain)
  <2>1. << >> \in Seq(Plain)
    OBVIOUS
  <2> QED
    BY ONLY <1>4, <2>1
<1>15. AtText(c, T, A, R, e, e, 1)'
  BY ONLY <1>8, <1>10, <1>13, <1>14, e \in Seq(Glyphs) DEF AtText
<1> QED
  BY ONLY <1>1, <1>15, TextFollows

LEMMA TextGoes ==
  ASSUME NEW c, NEW T, NEW A, NEW R, CallGoes(c, T, A, R), GoesOn(c, T, A, R), Text
  PROVE  GoesOn(c, T, A, R)'
<1>1. /\ fmt_at = "text" /\ Head(fmt) \notin {"NUL", "%"} /\ Put(<<Head(fmt)>>)
      /\ fmt_at' = "text" /\ fmt' = Tail(fmt) /\ ap' = ap /\ call' = call
  BY DEF Text, FmtStep
<1>2. Sizes /\ Parted(c, T, A, R) /\ AllWritten(c)
  BY DEF CallGoes
<1>3. PICK x, u, k : AtText(c, T, A, R, x, u, k)
  BY <1>1 DEF GoesOn
<1>4. ~EndNext(R, x)
  <2>1. ASSUME fmt = <<"NUL">> PROVE Head(fmt) = "NUL"
    BY ONLY <2>1
  <2> QED
    BY ONLY <1>1, <2>1 DEF EndNext
<1>5. \A j : ~(ItemNext(c, T, A, R, x, j) \/ LastNext(c, T, A, R, x, j))
  BY ONLY <1>1 DEF ItemNext, LastNext, Pending
<1>6. PICK h, v, j : PlainNext(c, T, A, R, x, h, v, j)
  BY ONLY <1>2, <1>3, <1>4, <1>5, NextComes
<1>7. /\ j \in 1..Len(c.items)+1 /\ OutIs(x) /\ x \in Seq(Glyphs) /\ h \in Plain
      /\ v \in Seq(Plain) /\ Pending(h, v \o T[j]) /\ ap = A[j]
      /\ (x \o <<h>>) \o (v \o R[j]) = R[1]
  BY ONLY <1>6 DEF PlainNext
<1>8. Head(fmt) = h /\ Tail(fmt) = v \o T[j]
  BY ONLY <1>7 DEF Pending
<1>9. PICK s : s = <<h>>
  OBVIOUS
<1>10. s \in Seq(Glyphs)
  <2>1. h \in Glyphs
    BY ONLY <1>7 DEF Plain
  <2> QED
    BY ONLY <1>9, <2>1
<1>11. Put(s)
  BY ONLY <1>1, <1>8, <1>9
<1>12. OutIs(x \o s)'
  BY ONLY <1>1, <1>2, <1>7, <1>10, <1>11, PutAdds
<1>13. PICK y : y = x \o s
  OBVIOUS
<1>14. y \in Seq(Glyphs)
  BY ONLY <1>7, <1>10, <1>13, GlyphJoin
<1>15. AtText(c, T, A, R, y, v, j)'
  BY ONLY <1>1, <1>7, <1>8, <1>9, <1>12, <1>13, <1>14 DEF AtText
<1> QED
  BY ONLY <1>1, <1>15, TextFollows

LEMMA EndGoes ==
  ASSUME NEW c, NEW T, NEW A, NEW R, CallGoes(c, T, A, R), GoesOn(c, T, A, R), End
  PROVE  GoesOn(c, T, A, R)'
<1>1. fmt_at = "text" /\ Head(fmt) = "NUL" /\ fmt_at' = "returned"
  BY DEF End
<1>2. Sizes /\ Parted(c, T, A, R) /\ AllWritten(c)
  BY DEF CallGoes
<1>3. PICK x, u, k : AtText(c, T, A, R, x, u, k)
  BY <1>1 DEF GoesOn
<1>4. \A h, v, j : ~PlainNext(c, T, A, R, x, h, v, j)
  BY ONLY <1>1 DEF PlainNext, Pending, Plain
<1>5. \A j : ~(ItemNext(c, T, A, R, x, j) \/ LastNext(c, T, A, R, x, j))
  <2>1. "NUL" # "%"
    OBVIOUS
  <2> QED
    BY ONLY <1>1, <2>1 DEF ItemNext, LastNext, Pending
<1>6. OutIs(x) /\ x = R[1]
  <2>1. EndNext(R, x)
    BY ONLY <1>2, <1>3, <1>4, <1>5, NextComes
  <2> QED
    BY ONLY <2>1 DEF EndNext
<1>7. /\ rc' = Len(x) /\ call' = call
      /\ Stored' = SubSeq(x, 1, IF Len(x) < call.n - 1 THEN Len(x) ELSE call.n - 1)
  BY ONLY <1>2, <1>6, EndStores, End
<1> QED
  BY ONLY <1>1, <1>6, <1>7 DEF GoesOn

LEMMA DirectiveGoes ==
  ASSUME NEW c, NEW T, NEW A, NEW R, CallGoes(c, T, A, R), GoesOn(c, T, A, R), Directive
  PROVE  GoesOn(c, T, A, R)'
<1>1. /\ fmt_at = "text" /\ Head(fmt) = "%" /\ since' = Tail(fmt) /\ flags' = NoFlags
      /\ fmt_at' = "flags" /\ fmt' = Tail(fmt) /\ ap' = ap /\ call' = call /\ b' = b
  BY DEF Directive, FmtStep
<1>2. Sizes /\ Parted(c, T, A, R) /\ AllWritten(c)
  BY DEF CallGoes
<1>3. PICK x, u, k : AtText(c, T, A, R, x, u, k)
  BY <1>1 DEF GoesOn
<1>4. \A h, v, j : ~PlainNext(c, T, A, R, x, h, v, j)
  BY ONLY <1>1 DEF PlainNext, Pending, Plain
<1>5. ~EndNext(R, x)
  <2>1. ASSUME fmt = <<"NUL">> PROVE Head(fmt) = "NUL"
    BY ONLY <2>1
  <2>2. "NUL" # "%"
    OBVIOUS
  <2> QED
    BY ONLY <1>1, <2>1, <2>2 DEF EndNext
<1>6. PICK j : ItemNext(c, T, A, R, x, j) \/ LastNext(c, T, A, R, x, j)
  BY ONLY <1>2, <1>3, <1>4, <1>5, NextComes
<1>7. CASE ItemNext(c, T, A, R, x, j)
  <2>1. PICK it, t, a : it = c.items[j] /\ t = T[j + 1] /\ a = A[j + 1]
    OBVIOUS
  <2>2. /\ j \in 1..Len(c.items) /\ OutIs(x) /\ x \in Seq(Glyphs) /\ x \o R[j] = R[1]
        /\ Item(it, t, a) /\ Promised(it) /\ Pending("%", PadOn(it, t)) /\ ap = AllArgs(it, a)
    BY ONLY <1>7, <2>1 DEF ItemNext
  <2>3. fmt' = PadOn(it, t) /\ since' = PadOn(it, t)
    BY ONLY <1>1, <2>2 DEF Pending
  <2>4. flags' = Fl(" ", -1, -1, FALSE)
    BY ONLY <1>1, Zenon DEF NoFlags, Fl
  <2>5. AtPad(it, t, a)'
    BY ONLY <1>1, <2>2, <2>3, <2>4, Zenon DEF AtPad
  <2>6. InDirective(it, t, a)'
    BY ONLY <2>5 DEF InDirective
  <2>7. OutIs(x)'
    BY ONLY <1>1, <2>2, OutKept
  <2>8. ItemGoes(c, T, A, R, x, j)'
    BY ONLY <2>1, <2>2, <2>3, <2>6, <2>7 DEF ItemGoes
  <2> QED
    BY ONLY <1>1, <2>8, FlagsFollow
<1>8. CASE LastNext(c, T, A, R, x, j)
  <2>1. /\ j \in 1..Len(c.items) /\ j = Len(c.items) /\ OutIs(x) /\ x \in Seq(Glyphs)
        /\ Pending("%", <<"NUL">>) /\ ap = A[j+1] /\ x \o (<<"%">> \o R[j+1]) = R[1]
    BY ONLY <1>8 DEF LastNext
  <2>2. fmt' = <<"NUL">> /\ since' = <<"NUL">>
    BY ONLY <1>1, <2>1 DEF Pending
  <2>3. OutIs(x)'
    BY ONLY <1>1, <2>1, OutKept
  <2>4. LastGoes(c, T, A, R, x, j)'
    BY ONLY <1>1, <2>1, <2>2, <2>3 DEF LastGoes
  <2> QED
    BY ONLY <1>1, <2>4, FlagsFollow
<1> QED
  BY <1>6, <1>7, <1>8

\* The cases of the switch that go on in a directive, and those that end it.
FlagCase == PadFlag \/ Alternate \/ Long \/ Point \/ Number \/ Star
ConvCase == Char \/ Percent \/ ErrorText \/ StringArg \/ Dec \/ Oct \/ Uns \/ Hex \/ Ptr

LEMMA FlagCaseIs ==
  ASSUME FlagCase
  PROVE  /\ fmt_at = "flags" /\ Head(fmt) # "NUL"
         /\ fmt_at' = "flags" /\ call' = call /\ since' = since /\ b' = b
<1>1. /\ fmt_at = "flags" /\ fmt_at' = "flags" /\ call' = call /\ since' = since /\ b' = b
  BY DEF FlagCase, PadFlag, Alternate, Long, Point, Number, Star, At, Reswitch, FmtStep
<1>2. Head(fmt) \in Nines \cup {"-", "0", "#", "l", ".", "*"}
  BY NinesAre DEF FlagCase, PadFlag, Alternate, Long, Point, Number, Star, At
<1>3. "NUL" \notin Nines \cup {"-", "0", "#", "l", ".", "*"}
  BY DEF Nines
<1> QED
  BY ONLY <1>1, <1>2, <1>3

LEMMA ConvCaseIs ==
  ASSUME ConvCase
  PROVE  /\ fmt_at = "flags" /\ Head(fmt) # "NUL" /\ Head(fmt) \notin Flagging
<1>1. fmt_at = "flags" /\ Head(fmt) \in {"c", "%", "e", "s", "d", "o", "u", "x", "p"}
  BY DEF ConvCase, Char, Percent, ErrorText, StringArg, Dec, Oct, Uns, Hex, Ptr, At
<1>2. \A h \in {"c", "%", "e", "s", "d", "o", "u", "x", "p"} : h # "NUL" /\ h \notin Flagging
  BY DEF Flagging, Nines
<1> QED
  BY ONLY <1>1, <1>2

LEMMA NotAtTheEnd ==
  ASSUME NEW c, NEW T, NEW A, NEW R, GoesOn(c, T, A, R), fmt_at = "flags", Head(fmt) # "NUL"
  PROVE  \E x, k : ItemGoes(c, T, A, R, x, k)
<1>1. PICK x, k : ItemGoes(c, T, A, R, x, k) \/ LastGoes(c, T, A, R, x, k)
  BY DEF GoesOn
<1>2. ASSUME fmt = <<"NUL">> PROVE Head(fmt) = "NUL"
  BY ONLY <1>2
<1>3. ~LastGoes(c, T, A, R, x, k)
  BY ONLY <1>2, Head(fmt) # "NUL" DEF LastGoes
<1> QED
  BY ONLY <1>1, <1>3

LEMMA FlagGoes ==
  ASSUME NEW c, NEW T, NEW A, NEW R, CallGoes(c, T, A, R), GoesOn(c, T, A, R), FlagCase
  PROVE  GoesOn(c, T, A, R)'
<1>1. /\ fmt_at = "flags" /\ Head(fmt) # "NUL"
      /\ fmt_at' = "flags" /\ call' = call /\ since' = since /\ b' = b
  BY FlagCaseIs
<1>2. PICK x, k : ItemGoes(c, T, A, R, x, k)
  BY <1>1, NotAtTheEnd
<1>3. PICK it, t, a : it = c.items[k] /\ t = T[k + 1] /\ a = A[k + 1]
  OBVIOUS
<1>4. /\ k \in 1..Len(c.items) /\ OutIs(x) /\ x \in Seq(Glyphs) /\ x \o R[k] = R[1]
      /\ Item(it, t, a) /\ Promised(it) /\ since = PadOn(it, t) /\ InDirective(it, t, a)
  BY ONLY <1>2, <1>3 DEF ItemGoes
<1>5. NextPart(it, t, a)
  BY ONLY <1>4, NextPartIs
<1>6. InDirective(it, t, a)'
  <2>1. CASE PadFlag \/ Alternate \/ Long \/ Point
    BY ONLY <1>4, <1>5, <2>1, FlagReads
  <2>2. CASE Number
    BY ONLY <1>4, <1>5, <2>2, NumberReads
  <2>3. CASE Star
    BY ONLY <1>4, <1>5, <2>3, StarReads
  <2> QED
    BY <2>1, <2>2, <2>3 DEF FlagCase
<1>7. OutIs(x)'
  BY ONLY <1>1, <1>4, OutKept
<1>8. ItemGoes(c, T, A, R, x, k)'
  BY ONLY <1>1, <1>3, <1>4, <1>6, <1>7 DEF ItemGoes
<1> QED
  BY ONLY <1>1, <1>8, FlagsFollow

LEMMA ConvGoes ==
  ASSUME NEW c, NEW T, NEW A, NEW R, CallGoes(c, T, A, R), GoesOn(c, T, A, R), ConvCase
  PROVE  GoesOn(c, T, A, R)'
<1>1. fmt_at = "flags" /\ Head(fmt) # "NUL" /\ Head(fmt) \notin Flagging
  BY ConvCaseIs
<1>2. Sizes /\ Parted(c, T, A, R)
  BY DEF CallGoes
<1>3. PICK x, k : ItemGoes(c, T, A, R, x, k)
  BY <1>1, NotAtTheEnd
<1>4. PICK it, t, a : it = c.items[k] /\ t = T[k + 1] /\ a = A[k + 1]
  OBVIOUS
<1>5. /\ k \in 1..Len(c.items) /\ OutIs(x) /\ x \in Seq(Glyphs) /\ x \o R[k] = R[1]
      /\ Item(it, t, a) /\ Promised(it) /\ InDirective(it, t, a)
  BY ONLY <1>3, <1>4 DEF ItemGoes
<1>6. AtConv(it, t, a)
  <2>1. NextPart(it, t, a)
    BY ONLY <1>5, NextPartIs
  <2> QED
    BY ONLY <1>1, <1>5, <2>1, Chosen
<1>7. Converts(it, t, a)
  BY ONLY <1>5, <1>6, KnownConverts, ConvCase DEF ConvCase
<1>8. PICK s : s = Rendered(it)
  OBVIOUS
<1>9. /\ fmt_at' = "text" /\ call' = call /\ fmt' = t /\ ap' = a
      /\ s \in Seq(Glyphs) /\ Put(s)
  BY ONLY <1>7, <1>8 DEF Converts
<1>10. PICK y : y = x \o s
  OBVIOUS
<1>11. y \in Seq(Glyphs) /\ OutIs(y)'
  <2>1. OutIs(x \o s)'
    BY ONLY <1>2, <1>5, <1>9, PutAdds
  <2>2. x \o s \in Seq(Glyphs)
    BY ONLY <1>5, <1>9, GlyphJoin
  <2> QED
    BY ONLY <1>10, <2>1, <2>2
<1>12. PICK N \in Nat : N = Len(c.items)
  BY ONLY <1>2 DEF Parted
<1>13. k + 1 \in 1..Len(c.items)+1
  <2>1. k + 1 \in 1..N+1
    BY ONLY <1>5, <1>12, N \in Nat
  <2> QED
    BY ONLY <1>12, <2>1
<1>14. PICK q : q = R[k + 1]
  OBVIOUS
<1>15. t \in Seq(Glyphs) /\ q \in Seq(Glyphs)
  BY ONLY <1>2, <1>4, <1>13, <1>14, PartsTyped
<1>16. R[k] = s \o q
  BY ONLY <1>2, <1>4, <1>5, <1>8, <1>14 DEF Parted, AskedFrom
<1>17. << >> \o t = t /\ << >> \o q = q /\ << >> \in Seq(Plain)
  <2>1. << >> \in Seq(Plain)
    OBVIOUS
  <2> QED
    BY ONLY <1>15, <2>1, NoneFirst
<1>18. y \o q = R[1]
  <2>1. Regroups(x, s, q)
    BY ONLY <1>5, <1>9, <1>15, GlyphAssoc
  <2> QED
    BY ONLY <1>5, <1>10, <1>16, <2>1 DEF Regroups
<1>19. PICK e : e = << >>
  OBVIOUS
<1>20. e \in Seq(Plain) /\ fmt' = e \o T[k + 1] /\ ap' = A[k + 1] /\ y \o (e \o R[k + 1]) = R[1]
  BY ONLY <1>4, <1>9, <1>14, <1>17, <1>18, <1>19
<1>21. AtText(c, T, A, R, y, e, k + 1)'
  BY ONLY <1>11, <1>13, <1>20 DEF AtText
<1> QED
  BY ONLY <1>9, <1>21, TextFollows

LEMMA DefaultGoes ==
  ASSUME NEW c, NEW T, NEW A, NEW R, CallGoes(c, T, A, R), GoesOn(c, T, A, R), Default
  PROVE  GoesOn(c, T, A, R)'
<1>1. /\ fmt_at = "flags" /\ Head(fmt) \notin Known /\ Put(<<"%">>)
      /\ fmt_at' = "text" /\ fmt' = since /\ ap' = ap /\ call' = call
  BY DEF Default, FmtStep
<1>2. Sizes /\ Parted(c, T, A, R)
  BY DEF CallGoes
<1>3. PICK x, k : ItemGoes(c, T, A, R, x, k) \/ LastGoes(c, T, A, R, x, k)
  BY <1>1 DEF GoesOn
<1>4. k \in 1..Len(c.items) /\ OutIs(x) /\ x \in Seq(Glyphs)
  BY <1>3 DEF ItemGoes, LastGoes
<1>5. PICK s : s = <<"%">>
  OBVIOUS
<1>6. s \in Seq(Glyphs)
  <2>1. "%" \in Glyphs
    BY DEF Glyphs
  <2>2. <<"%">> \in Seq(Glyphs)
    BY ONLY <2>1
  <2> QED
    BY ONLY <1>5, <2>2
<1>7. PICK y : y = x \o s
  OBVIOUS
<1>8. y \in Seq(Glyphs) /\ OutIs(y)'
  <2>1. OutIs(x \o s)'
    BY ONLY <1>1, <1>2, <1>4, <1>5, <1>6, PutAdds
  <2>2. x \o s \in Seq(Glyphs)
    BY ONLY <1>4, <1>6, GlyphJoin
  <2> QED
    BY ONLY <1>7, <2>1, <2>2
<1>9. PICK N \in Nat : N = Len(c.items)
  BY ONLY <1>2 DEF Parted
<1>10. k + 1 \in 1..Len(c.items)+1
  <2>1. k + 1 \in 1..N+1
    BY ONLY <1>4, <1>9, N \in Nat
  <2> QED
    BY ONLY <1>9, <2>1
<1>11. PICK t, a, q : t = T[k + 1] /\ a = A[k + 1] /\ q = R[k + 1]
  OBVIOUS
<1>12. t \in Seq(Glyphs) /\ a \in Seq(Slots) /\ q \in Seq(Glyphs)
  BY ONLY <1>2, <1>10, <1>11, PartsTyped
\* What follows the '%' is put as text, and the arguments stay.
<1>13. \E u \in Seq(Plain) : since = u \o t /\ ap = a /\ x \o (s \o (u \o q)) = R[1]
  <2>1. CASE LastGoes(c, T, A, R, x, k)
    <3>1. /\ k = Len(c.items) /\ x \o (s \o q) = R[1] /\ since = <<"NUL">> /\ ap = a
      BY ONLY <1>5, <1>11, <2>1 DEF LastGoes
    <3>2. t = <<"NUL">>
      BY ONLY <1>2, <1>11, <3>1 DEF Parted, TextsOf
    <3>3. PICK u \in Seq(Plain) : u = << >>
      <4>1. << >> \in Seq(Plain)
        OBVIOUS
      <4> QED
        BY ONLY <4>1
    <3>4. u \o t = t /\ u \o q = q
      BY ONLY <1>12, <3>3, NoneFirst
    <3> QED
      BY ONLY <3>1, <3>2, <3>4, u \in Seq(Plain)
  <2>2. CASE ItemGoes(c, T, A, R, x, k)
    <3>1. PICK it : it = c.items[k]
      OBVIOUS
    <3>2. /\ x \o R[k] = R[1] /\ Item(it, t, a) /\ since = PadOn(it, t) /\ InDirective(it, t, a)
      BY ONLY <1>11, <2>2, <3>1 DEF ItemGoes
    <3>3. Written(it)
      BY ONLY <3>2 DEF Item
    <3>4. AtConv(it, t, a)
      <4>1. NextPart(it, t, a)
        BY ONLY <3>2, NextPartIs
      <4>2. Head(fmt) \notin Flagging
        BY ONLY <1>1, NinesAre DEF Known, Goes, Flagging
      <4> QED
        BY ONLY <3>2, <4>1, <4>2, Chosen
    <3>5. it.conv \notin Known /\ (it.type = "none" => ap = a)
      BY ONLY <1>1, <3>2, <3>4, ConvReads
    <3>6. it.conv \notin {"d", "o", "u", "x", "p", "e", "c", "s", "%"}
      <4>1. {"d", "o", "u", "x", "p", "e", "c", "s", "%"} \subseteq Known
        BY DEF Known, KindOf
      <4> QED
        BY ONLY <3>5, <4>1
    <3>7. it.type = "none"
      BY ONLY <3>3, <3>6 DEF Written, Takable
    <3>8. Rendered(it) = it.text
      BY ONLY <3>6 DEF Rendered
    <3>9. PICK u : u = PadOn(it, << >>)
      OBVIOUS
    <3>10. Precedes(u, t, PadOn(it, t)) /\ it.text = s \o u
      BY ONLY <1>5, <1>12, <3>3, <3>6, <3>9, UnknownText
    <3>11. u \in Seq(Plain) /\ since = u \o t
      BY ONLY <3>2, <3>10 DEF Precedes
    <3>12. R[k] = (s \o u) \o q
      <4>1. R[k] = Rendered(it) \o q
        BY ONLY <1>2, <1>4, <1>11, <3>1 DEF Parted, AskedFrom
      <4> QED
        BY ONLY <3>8, <3>10, <4>1
    <3>13. Regroups(s, u, q)
      BY ONLY <1>6, <1>12, <3>11, PlainGlyphs, GlyphAssoc
    <3>14. x \o (s \o (u \o q)) = R[1]
      BY ONLY <3>2, <3>12, <3>13 DEF Regroups
    <3> QED
      BY ONLY <3>5, <3>7, <3>11, <3>14
  <2> QED
    BY ONLY <1>3, <2>1, <2>2
<1>14. PICK u \in Seq(Plain) : since = u \o t /\ ap = a /\ x \o (s \o (u \o q)) = R[1]
  BY ONLY <1>13
<1>15. y \o (u \o q) = R[1]
  <2>1. u \o q \in Seq(Glyphs)
    BY ONLY <1>12, PlainGlyphs, GlyphJoin, u \in Seq(Plain)
  <2>2. Regroups(x, s, u \o q)
    BY ONLY <1>4, <1>6, <2>1, GlyphAssoc
  <2> QED
    BY ONLY <1>7, <1>14, <2>2 DEF Regroups
<1>16. AtText(c, T, A, R, y, u, k + 1)'
  BY ONLY <1>1, <1>8, <1>10, <1>11, <1>14, <1>15, u \in Seq(Plain) DEF AtText
<1> QED
  BY ONLY <1>1, <1>16, TextFollows

\* The call asks for what is put and what is left together.
FmtAsked ==
  \E c : /\ call = c /\ Len(c.items) \in Nat
         /\ AllWritten(c) => \E T, A, R : Parted(c, T, A, R) /\ GoesOn(c, T, A, R)

LEMMA FmtAskedInit == ASSUME NEW c, FmtLegal(c), FmtInit(c) PROVE FmtAsked
<1>1. /\ call = c /\ fmt = FormatOf(c) /\ ap = SlotsOf(c) /\ fmt_at = "call"
      /\ b = [mem |-> [i \in 0..BufSize |-> "old"], buf |-> 0, cnt |-> 0]
  BY DEF FmtInit
<1>2. Len(c.items) \in Nat
  BY DEF FmtLegal
<1>3. FreshBuf
  <2>1. PICK m : m = [i \in 0..BufSize |-> "old"]
    OBVIOUS
  <2>2. b = [mem |-> m, buf |-> 0, cnt |-> 0] /\ DOMAIN m = 0..BufSize
    BY ONLY <1>1, <2>1
  <2> QED
    BY ONLY <2>2 DEF FreshBuf
<1>4. ASSUME AllWritten(c) PROVE \E T, A, R : Parted(c, T, A, R) /\ GoesOn(c, T, A, R)
  <2>1. PICK T, A, R : Parted(c, T, A, R) /\ T[1] = FormatOf(c) /\ A[1] = SlotsOf(c)
    BY ONLY <1>2, <1>4, PartedExist
  <2>2. GoesOn(c, T, A, R)
    BY ONLY <1>1, <1>3, <2>1 DEF GoesOn
  <2> QED
    BY ONLY <2>1, <2>2
<1> QED
  BY ONLY <1>1, <1>2, <1>4 DEF FmtAsked

LEMMA GoesStutters ==
  ASSUME NEW c, NEW T, NEW A, NEW R, GoesOn(c, T, A, R), UNCHANGED fmtVars
  PROVE  GoesOn(c, T, A, R)'
<1>1. /\ call' = call /\ fmt' = fmt /\ ap' = ap /\ since' = since
      /\ flags' = flags /\ fmt_at' = fmt_at /\ b' = b /\ rc' = rc
  BY DEF fmtVars
<1>2. CASE fmt_at = "call"
  <2>1. fmt' = T[1] /\ ap' = A[1] /\ FreshBuf'
    BY <1>1, <1>2 DEF GoesOn, FreshBuf
  <2> QED
    BY ONLY <1>1, <1>2, <2>1 DEF GoesOn
<1>3. CASE fmt_at = "text"
  <2>1. PICK x, u, k : AtText(c, T, A, R, x, u, k)
    BY <1>3 DEF GoesOn
  <2>2. OutIs(x)'
    BY ONLY <1>1, <2>1, OutKept DEF AtText
  <2>3. AtText(c, T, A, R, x, u, k)'
    BY ONLY <1>1, <2>1, <2>2 DEF AtText
  <2> QED
    BY ONLY <1>1, <1>3, <2>3, TextFollows
<1>4. CASE fmt_at = "flags"
  <2>1. PICK x, k : ItemGoes(c, T, A, R, x, k) \/ LastGoes(c, T, A, R, x, k)
    BY <1>4 DEF GoesOn
  <2>2. OutIs(x)'
    BY ONLY <1>1, <2>1, OutKept DEF ItemGoes, LastGoes
  <2>3. CASE ItemGoes(c, T, A, R, x, k)
    <3>1. InDirective(c.items[k], T[k+1], A[k+1])'
      <4>1. InDirective(c.items[k], T[k+1], A[k+1])
        BY ONLY <2>3 DEF ItemGoes
      <4> QED
        BY ONLY <1>1, <4>1, Zenon
        DEF InDirective, AtPad, AtAlt, AtWidth, AtPoint, AtPrec, AtLong, AtConv
    <3>2. ItemGoes(c, T, A, R, x, k)'
      BY ONLY <1>1, <2>2, <2>3, <3>1 DEF ItemGoes
    <3> QED
      BY ONLY <1>1, <1>4, <3>2, FlagsFollow
  <2>4. CASE LastGoes(c, T, A, R, x, k)
    <3>1. LastGoes(c, T, A, R, x, k)'
      BY ONLY <1>1, <2>2, <2>4 DEF LastGoes
    <3> QED
      BY ONLY <1>1, <1>4, <3>1, FlagsFollow
  <2> QED
    BY ONLY <2>1, <2>3, <2>4
<1>5. CASE fmt_at = "returned"
  <2>1. Stored' = Stored
    BY ONLY <1>1 DEF Stored
  <2> QED
    BY ONLY <1>1, <1>5, <2>1, GoesOn(c, T, A, R) DEF GoesOn
<1>6. CASE fmt_at \notin {"call", "text", "flags", "returned"}
  BY ONLY <1>1, <1>6 DEF GoesOn
<1> QED
  BY ONLY <1>2, <1>3, <1>4, <1>5, <1>6

LEMMA CallSame ==
  ASSUME FmtNext \/ UNCHANGED fmtVars
  PROVE  call' = call
BY DEF FmtNext, fmtVars, Einval, Start, End, Text, Directive, PadFlag, Alternate, Long, Point,
       Number, Star, Char, Percent, ErrorText, StringArg, Dec, Oct, Uns, Hex, Ptr, Default,
       SignedNum, Num, Prints, Reswitch, FmtStep

LEMMA FmtAskedStep ==
  ASSUME FmtInv, FmtAsked, [LibNext]_libVars
  PROVE  FmtAsked'
<1>1. FmtNext \/ UNCHANGED fmtVars
  BY DEF LibNext, libVars
<1>2. PICK c : /\ call = c /\ Len(c.items) \in Nat
               /\ AllWritten(c) => \E T, A, R : Parted(c, T, A, R) /\ GoesOn(c, T, A, R)
  BY DEF FmtAsked
<1>3. call' = c
  BY ONLY <1>1, <1>2, CallSame
<1>4. ASSUME AllWritten(c), NEW T, NEW A, NEW R, Parted(c, T, A, R), GoesOn(c, T, A, R)
      PROVE  GoesOn(c, T, A, R)'
  <2>1. CallGoes(c, T, A, R)
    BY ONLY <1>2, <1>4, FmtInv DEF FmtInv, CallGoes
  <2>2. CASE Einval
    <3>1. fmt_at' = "returned" /\ rc' = -3
      BY <2>2 DEF Einval
    <3> QED
      BY ONLY <3>1 DEF GoesOn
  <2>3. CASE Start
    BY ONLY <1>4, <2>1, <2>3, StartGoes
  <2>4. CASE End
    BY ONLY <1>4, <2>1, <2>4, EndGoes
  <2>5. CASE Text
    BY ONLY <1>4, <2>1, <2>5, TextGoes
  <2>6. CASE Directive
    BY ONLY <1>4, <2>1, <2>6, DirectiveGoes
  <2>7. CASE FlagCase
    BY ONLY <1>4, <2>1, <2>7, FlagGoes
  <2>8. CASE ConvCase
    BY ONLY <1>4, <2>1, <2>8, ConvGoes
  <2>9. CASE Default
    BY ONLY <1>4, <2>1, <2>9, DefaultGoes
  <2>10. CASE UNCHANGED fmtVars
    BY ONLY <1>4, <2>10, GoesStutters
  <2> QED
    BY ONLY <1>1, <2>2, <2>3, <2>4, <2>5, <2>6, <2>7, <2>8, <2>9, <2>10
    DEF FmtNext, FlagCase, ConvCase
<1> QED
  BY ONLY <1>2, <1>3, <1>4 DEF FmtAsked

\* For every call of which the directives are written as C says and ask for what
\* they promise, however many, in whatever order and in whatever room: what
\* vprintfmt (lib/printfmt.c) has put and what the rest of the format and of the
\* arguments asks for are together the text asked for, so snprintf returns its
\* length and leaves as much of it as fits.
THEOREM FormatsAsAskedCorrect == LibSpec => []FormatsAsAsked
<1>1. LibInit => FmtInv /\ FmtAsked
  BY FmtInvInit, FmtAskedInit, CallsAssumption, PlainAssumption DEF LibInit
<1>2. FmtInv /\ FmtAsked /\ [LibNext]_libVars => (FmtInv /\ FmtAsked)'
  BY FmtInvStep, FmtAskedStep
<1>3. FmtInv /\ FmtAsked => FormatsAsAsked
  <2> SUFFICES ASSUME FmtAsked, fmt_at = "returned", rc # -3,
                      \A k \in 1..Len(call.items) :
                        /\ WellWritten(call.items[k], k = Len(call.items))
                        /\ Promised(call.items[k])
               PROVE  /\ rc = Len(AskedText)
                      /\ Stored = SubSeq(AskedText, 1, IF rc < call.n - 1 THEN rc ELSE call.n - 1)
    BY DEF FormatsAsAsked
  <2>1. PICK c : /\ call = c
                 /\ AllWritten(c) => \E T, A, R : Parted(c, T, A, R) /\ GoesOn(c, T, A, R)
    BY DEF FmtAsked
  <2>2. AllWritten(c)
    BY <2>1 DEF AllWritten
  <2>3. PICK T, A, R : Parted(c, T, A, R) /\ GoesOn(c, T, A, R)
    BY ONLY <2>1, <2>2
  <2>4. AskedText = R[1]
    BY ONLY <2>1, <2>3 DEF Parted, AskedFrom, AskedText
  <2>5. /\ rc = Len(R[1])
        /\ Stored = SubSeq(R[1], 1, IF Len(R[1]) < call.n - 1 THEN Len(R[1]) ELSE call.n - 1)
    BY <2>3 DEF GoesOn
  <2> QED
    BY ONLY <2>4, <2>5
<1> QED
  BY <1>1, <1>2, <1>3, PTL DEF LibSpec
=============================================================================
