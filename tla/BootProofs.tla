----------------------------- MODULE BootProofs -----------------------------
(***************************************************************************)
(* Proofs about the boot chain: what the boot page tables map, for every   *)
(* processor; the memory map, for every BIOS; and what is in memory when   *)
(* the kernel runs, for every image that is linked as kernel.ld says.      *)
(***************************************************************************)
EXTENDS Boot, TLAPS

-----------------------------------------------------------------------------
(* The page tables. *)

\* Where the tables have their entries, and where paging is on.
Entered64 == {"longmode", "entry", "relocated", "i386_init"}

UpperWritten ==
  /\ pml4 = [x \in {0, 1} |-> IF x = 0 THEN "pdpt1" ELSE "pdpt2"]
  /\ pdpt1 = [x \in {0} |-> "pde1"]
  /\ pdpt2 = [x \in {0} |-> "pde2"]

PagesWritten ==
  /\ pde1 = [n \in 0..127 |-> n]
  /\ pde2 = [n \in 32..159 |-> n - 32]

\* The inductive invariant.
TablesInv ==
  /\ paging => hd_at \in Entered64
  /\ hd_at \in {"loop", "paging"} \cup Entered64 => UpperWritten
  /\ hd_at \in {"paging"} \cup Entered64 => PagesWritten
  /\ rip \in {"low", "high"}

LEMMA TablesStep == TablesInv /\ [MachineNext]_machineVars => TablesInv'
<1> SUFFICES ASSUME TablesInv, [MachineNext]_machineVars PROVE TablesInv'
  OBVIOUS
<1>1. CASE UNCHANGED headVars
  BY <1>1 DEF headVars, tables, TablesInv, UpperWritten, PagesWritten
<1>2. CASE HeadNext
  <2>1. CASE SaveInfo \/ VerifyCpuid
    BY <2>1 DEF SaveInfo, VerifyCpuid, tables, TablesInv, UpperWritten, PagesWritten, Entered64
  <2>2. CASE VerifyLongMode
    <3>1. hd_at' \in {"fault", "tables", "no_longmode"}
      BY <2>2, Zenon DEF VerifyLongMode
    <3> QED
      BY <2>2, <3>1 DEF VerifyLongMode, tables, TablesInv, UpperWritten, PagesWritten, Entered64
  <2>3. CASE UpperLevels
    BY <2>3 DEF UpperLevels, TablesInv, UpperWritten, PagesWritten, Entered64
  <2>4. CASE MapPages
    BY <2>4 DEF MapPages, TablesInv, UpperWritten, PagesWritten, Entered64
  <2>5. CASE EnablePaging \/ JumpToLongmode \/ Relocate \/ CallInit
    BY <2>5 DEF EnablePaging, JumpToLongmode, Relocate, CallInit, tables, TablesInv,
                UpperWritten, PagesWritten, Entered64
  <2> QED
    BY <1>2, <2>1, <2>2, <2>3, <2>4, <2>5 DEF HeadNext
<1> QED
  BY <1>1, <1>2 DEF MachineNext, Run, Start, Head64, Load, DriveStep, ControllerStep,
                    Stopped, machineVars

\* The three indexes of a page, and what it is translated to.
Indexes(v, x, y, z) ==
  /\ x \in Nat /\ y \in 0..511 /\ z \in 0..511
  /\ v \in Nat /\ v = 512 * 512 * x + 512 * y + z

Target(x, y, z) ==
  IF x = 0 /\ y = 0 /\ z \in 0..127 THEN z
  ELSE IF x = 1 /\ y = 0 /\ z \in 32..159 THEN z - 32
  ELSE Fault

LEMMA WalkIs ==
  ASSUME UpperWritten, PagesWritten, NEW v, NEW x, NEW y, NEW z, Indexes(v, x, y, z)
  PROVE  Walk(v) = Target(x, y, z)
<1> USE DEF Indexes
<1>1. v \div (512 * 512) = x
  OBVIOUS
<1>2. (v \div 512) % 512 = y
  <2>1. v \div 512 = 512 * x + y
    OBVIOUS
  <2> QED
    BY <2>1
<1>3. v % 512 = z
  OBVIOUS
<1>4. Walk(v) = IF x \notin DOMAIN pml4 THEN Fault
                ELSE IF y \notin DOMAIN Table(pml4[x]) THEN Fault
                ELSE LET pd == Table(Table(pml4[x])[y])
                     IN IF z \in DOMAIN pd THEN pd[z] ELSE Fault
  BY <1>1, <1>2, <1>3 DEF Walk
<1>5. /\ Table("pdpt1") = pdpt1 /\ Table("pdpt2") = pdpt2
      /\ Table("pde1") = pde1 /\ Table("pde2") = pde2
  BY DEF Table
<1>6. CASE x = 0
  BY <1>4, <1>5, <1>6 DEF UpperWritten, PagesWritten, Target
<1>7. CASE x = 1
  BY <1>4, <1>5, <1>7 DEF UpperWritten, PagesWritten, Target
<1>8. CASE x \notin {0, 1}
  BY <1>4, <1>8 DEF UpperWritten, Target
<1> QED
  BY <1>6, <1>7, <1>8

\* What the boot page tables map of memory they map where it is and at KERNBASE, and
\* nowhere else, on every processor that gets so far.
THEOREM MappedTwiceCorrect == MachineSpec => []MappedTwice
<1>1. MachineInit => TablesInv
  BY DEF MachineInit, HeadInit, TablesInv, Entered64
<1>2. TablesInv => MappedTwice
  <2> SUFFICES ASSUME TablesInv, paging
               PROVE  /\ \A v \in Pages : Walk(v) \in {v, v - KERNPAGE, Fault}
                      /\ \A m \in 0..511 : Walk(m) = m <=> Walk(KERNPAGE + m) = m
                      /\ \A m \in 0..2 : Walk((IF rip = "high" THEN KERNPAGE ELSE 0) + m) = m
    BY DEF MappedTwice
  <2>1. UpperWritten /\ PagesWritten
    BY DEF TablesInv
  <2>2. ASSUME NEW v \in Pages
        PROVE  Walk(v) = IF v \in 0..127 THEN v
                         ELSE IF v \in KERNPAGE..KERNPAGE+127 THEN v - KERNPAGE
                         ELSE Fault
    <3>1. PICK x \in 0..2, y \in 0..1, z \in 0..511 : v = 512 * 512 * x + 512 * y + z
      BY DEF Pages
    <3>2. v \in 0..127 <=> x = 0 /\ y = 0 /\ z \in 0..127
      BY <3>1
    <3>3. v \in KERNPAGE..KERNPAGE+127 <=> x = 1 /\ y = 0 /\ z \in 32..159
      BY <3>1 DEF KERNPAGE
    <3>4. Walk(v) = Target(x, y, z)
      <4>1. Indexes(v, x, y, z)
        BY <3>1 DEF Indexes
      <4> QED
        BY <2>1, <4>1, WalkIs
    <3> QED
      BY <3>1, <3>2, <3>3, <3>4 DEF KERNPAGE, Target
  <2>3. ASSUME NEW m \in 0..2
        PROVE  Walk((IF rip = "high" THEN KERNPAGE ELSE 0) + m) = m
    <3>1. Indexes(m, 0, 0, m) /\ Indexes(KERNPAGE + m, 1, 0, m + 32)
      BY DEF Indexes, KERNPAGE
    <3>2. Walk(m) = Target(0, 0, m) /\ Walk(KERNPAGE + m) = Target(1, 0, m + 32)
      BY <2>1, <3>1, WalkIs
    <3> QED
      BY <3>2 DEF Target, KERNPAGE
  <2>4. \A v \in Pages : Walk(v) \in {v, v - KERNPAGE, Fault}
    BY <2>2
  <2>5. ASSUME NEW m \in 0..511
        PROVE  Walk(m) = m <=> Walk(KERNPAGE + m) = m
    <3>1. m \in Pages
      <4>1. 0 \in 0..2 /\ 0 \in 0..1 /\ m = 512 * 512 * 0 + 512 * 0 + m
        OBVIOUS
      <4> QED
        BY <4>1 DEF Pages
    <3>2. KERNPAGE + m \in Pages
      <4>1. CASE m < 480
        <5>1. KERNPAGE + m = 512 * 512 * 1 + 512 * 0 + (m + 32) /\ m + 32 \in 0..511
          BY <4>1 DEF KERNPAGE
        <5> QED
          BY <5>1 DEF Pages
      <4>2. CASE m >= 480
        <5>1. KERNPAGE + m = 512 * 512 * 1 + 512 * 1 + (m - 480) /\ m - 480 \in 0..511
          BY <4>2 DEF KERNPAGE
        <5> QED
          BY <5>1 DEF Pages
      <4> QED
        BY <4>1, <4>2
    <3>3. Walk(m) = m <=> m \in 0..127
      BY <2>2, <3>1 DEF Fault, KERNPAGE
    <3>4. Walk(KERNPAGE + m) = m <=> m \in 0..127
      <4>1. KERNPAGE + m \notin 0..127 /\ (KERNPAGE + m \in KERNPAGE..KERNPAGE+127 <=> m \in 0..127)
        <5>1. m \in Int /\ m >= 0 /\ KERNPAGE \in Int /\ KERNPAGE > 127 /\ KERNPAGE + m \in Int
          BY DEF KERNPAGE
        <5> QED
          BY ONLY <5>1
      <4>2. (KERNPAGE + m) - KERNPAGE = m /\ m # Fault
        BY DEF KERNPAGE, Fault
      <4> QED
        BY <2>2, <3>2, <4>1, <4>2
    <3> QED
      BY <3>3, <3>4
  <2> QED
    BY <2>3, <2>4, <2>5
<1> QED
  BY <1>1, <1>2, TablesStep, PTL DEF MachineSpec
-----------------------------------------------------------------------------
(* The memory map. *)

Reported == Len(bios.entries)

\* The first n entries are in the map, and the sizes of the first m of them.
EntriesIn(n) ==
  \A k \in 1..n : \A j \in 1..5 : e820_map[6 * (k - 1) + j] = 100 * bios.entries[k] + j

SizesIn(m) == bios.size = 20 => \A k \in 1..m : e820_map[6 * (k - 1)] = 20

\* n entries are read.
Turn(n) == ebp = 24 * n /\ EntriesIn(n)

\* What is in the map at the labels of boot.S.
MapNext ==
  \E n \in 1..Reported :
    Turn(n) /\ SizesIn(n - 1) /\ ecx = bios.size /\ ebx = n /\ edi = 6 * (n - 1) + 1

MapCall ==
  \E n \in 1..Reported : Turn(n) /\ SizesIn(n) /\ ebx = n /\ edi = 6 * n + 1

MapGot ==
  \E n \in 1..Reported :
    /\ Turn(n) /\ SizesIn(n) /\ edi = 6 * n + 1
    /\ carry => n = Reported
    /\ ~carry => /\ n + 1 <= Reported /\ EntriesIn(n + 1) /\ ecx = bios.size
                 /\ ebx \in {0, n + 1} /\ (ebx = 0 => n + 1 = Reported)

MapRead ==
  /\ Reported >= 1 /\ Turn(Reported)
  /\ \/ SizesIn(Reported) /\ edi = 6 * Reported + 1
     \/ SizesIn(Reported - 1) /\ edi = 6 * (Reported - 1) + 1 /\ ecx = bios.size

\* The inductive invariant.
MapInv ==
  /\ Reports(bios) /\ DOMAIN e820_map = 0..MapWords-1
  /\ st_at \in {"seta20.1", "seta20.2", "do_e820", "first", "next_entry", "int15", "got",
                "done", "failed", "bootmain"}
  /\ st_at \notin {"failed", "bootmain"} => mb = NoMb
  /\ st_at = "first" =>
       /\ carry => Reported = 0 \/ bios.first = "carry"
       /\ ~carry => /\ Reported >= 1 /\ EntriesIn(1) /\ ecx = bios.size /\ edi = 1
                    /\ ebx \in {0, 1} /\ (ebx = 0 => Reported = 1)
  /\ st_at = "next_entry" => MapNext
  /\ st_at = "int15" => MapCall
  /\ st_at = "got" => MapGot
  /\ st_at = "done" => MapRead
  /\ st_at \in {"failed", "bootmain"} =>
       /\ mb # NoMb => mb.len = 24 * Reported /\ EntriesIn(Reported) /\ SizesIn(Reported)
       /\ bios.first = "ok" /\ Reported > 1 => mb # NoMb

LEMMA ReportsIs ==
  ASSUME MapInv
  PROVE  /\ Reported \in Nat /\ MapWords \in Nat /\ 6 * Reported < MapWords
         /\ bios.size \in 20..24 /\ bios.size \div 4 \in {5, 6}
         /\ \A k \in 1..Reported : bios.entries[k] \in Nat
<1>1. bios.size \in 20..24 /\ Reported \in Nat /\ 6 * Reported < MapWords
      /\ \A k \in 1..Reported : bios.entries[k] \in Nat
  BY DEF MapInv, Reports, Reported
<1> QED
  BY <1>1, MachinesAssumption

\* The BIOS answers: either there is no further entry, or it is put after those
\* that are there, and their sizes stay.
LEMMA EntryRead ==
  ASSUME MapInv, NEW n \in 0..Reported, EntriesIn(n), SizesIn(n),
         UNCHANGED bios, Int15(n, 6 * n + 1)
  PROVE  /\ DOMAIN e820_map' = 0..MapWords-1
         /\ EntriesIn(n)' /\ SizesIn(n)'
         /\ carry' => n = Reported \/ (n = 0 /\ bios.first = "carry")
         /\ ~carry' => /\ n + 1 <= Reported /\ EntriesIn(n + 1)' /\ ecx' = bios.size
                       /\ ebx' \in {0, n + 1} /\ (ebx' = 0 => n + 1 = Reported)
<1> USE ReportsIs
<1>1. CASE n = Reported \/ (n = 0 /\ bios.first = "carry")
  <2>1. carry' = TRUE /\ UNCHANGED e820_map
    BY <1>1 DEF Int15, Reported
  <2> QED
    BY <1>1, <2>1 DEF MapInv, EntriesIn, SizesIn
<1>2. CASE ~(n = Reported \/ (n = 0 /\ bios.first = "carry"))
  <2> DEFINE words == bios.size \div 4
             e == bios.entries[n + 1]
             to == 6 * n + 1
  <2>1. /\ carry' = FALSE /\ ecx' = bios.size
        /\ ebx' = IF n + 1 = Reported /\ bios.last = "zero" THEN 0 ELSE n + 1
        /\ e820_map' = [w \in DOMAIN e820_map |->
             IF w \in to..to+words-1 THEN 100 * e + (w - to + 1) ELSE e820_map[w]]
    BY <1>2 DEF Int15, Reported
  <2>2. words \in {5, 6} /\ n + 1 <= Reported /\ n \in Nat
    BY <1>2
  <2>3. \A w \in 0..6 * n : w \in 0..MapWords-1 /\ w \notin to..to+words-1
    BY <2>2
  <2>4. \A w \in 0..6 * n : e820_map'[w] = e820_map[w]
    BY <2>1, <2>3 DEF MapInv
  <2>5. \A k \in 1..n : \A j \in 0..5 : 6 * (k - 1) + j \in 0..6 * n
    BY <2>2
  <2>6. EntriesIn(n)' /\ SizesIn(n)'
    BY <2>4, <2>5 DEF EntriesIn, SizesIn
  <2>7. ASSUME NEW j \in 1..5 PROVE e820_map'[6 * n + j] = 100 * e + j
    <3> DEFINE p == 6 * n + j
    <3>1. p \in 0..MapWords-1 /\ p \in to..to+words-1 /\ p - to + 1 = j
      BY <2>2
    <3>2. DOMAIN e820_map = 0..MapWords-1
      BY DEF MapInv
    <3> HIDE DEF words, e, to, p
    <3>3. e820_map'[p] = 100 * e + (p - to + 1)
      BY <2>1, <3>1, <3>2
    <3> QED
      BY <3>1, <3>3 DEF p
  <2>8. EntriesIn(n + 1)'
    <3> SUFFICES ASSUME NEW k \in 1..n+1, NEW j \in 1..5
                 PROVE  e820_map'[6 * (k - 1) + j] = 100 * bios.entries[k] + j
      BY DEF EntriesIn
    <3>1. CASE k = n + 1
      <4>1. k - 1 = n
        BY <2>2, <3>1
      <4> QED
        BY <2>7, <3>1, <4>1
    <3>2. CASE k \in 1..n
      BY <2>6, <3>2 DEF EntriesIn
    <3> QED
      BY <2>2, <3>1, <3>2
  <2> QED
    BY <2>1, <2>2, <2>6, <2>8 DEF MapInv
<1> QED
  BY <1>1, <1>2

\* The size goes before an entry, and disturbs none of them.
LEMMA SizeNoted ==
  ASSUME MapInv, NEW n \in 0..Reported, NEW m \in 0..n, EntriesIn(n), SizesIn(m),
         edi = 6 * m + 1, UNCHANGED bios, NoteSize
  PROVE  /\ DOMAIN e820_map' = 0..MapWords-1
         /\ EntriesIn(n)' /\ SizesIn(m)'
         /\ ecx = bios.size => SizesIn(m + 1)'
<1> USE ReportsIs
<1>1. n \in Nat /\ m \in Nat /\ edi - 1 = 6 * m /\ 6 * m \in 0..MapWords-1
  OBVIOUS
<1>2. /\ DOMAIN e820_map' = 0..MapWords-1
      /\ \A w \in 0..MapWords-1 : w # 6 * m => e820_map'[w] = e820_map[w]
      /\ e820_map'[6 * m] = ecx
  BY <1>1 DEF NoteSize, MapInv
<1>3. \A k \in 1..n : \A j \in 1..5 :
        6 * (k - 1) + j \in 0..MapWords-1 /\ 6 * (k - 1) + j # 6 * m
  BY <1>1
<1>4. EntriesIn(n)'
  BY <1>2, <1>3 DEF EntriesIn
<1>5. \A k \in 1..m : 6 * (k - 1) \in 0..MapWords-1 /\ 6 * (k - 1) # 6 * m
  BY <1>1
<1>6. SizesIn(m)'
  BY <1>2, <1>5 DEF SizesIn
<1>7. ASSUME ecx = bios.size PROVE SizesIn(m + 1)'
  <2> SUFFICES ASSUME bios.size = 20, NEW k \in 1..m+1 PROVE e820_map'[6 * (k - 1)] = 20
    BY DEF SizesIn
  <2>1. CASE k = m + 1
    <3>1. k - 1 = m
      BY <1>1, <2>1
    <3> QED
      BY <1>2, <1>7, <3>1
  <2>2. CASE k \in 1..m
    BY <1>6, <2>2 DEF SizesIn
  <2> QED
    BY <1>1, <2>1, <2>2
<1> QED
  BY <1>2, <1>4, <1>6, <1>7

LEMMA MapStep == MapInv /\ [MachineNext]_machineVars => MapInv'
<1> SUFFICES ASSUME MapInv, [MachineNext]_machineVars PROVE MapInv'
  OBVIOUS
<1> USE ReportsIs
<1>1. CASE UNCHANGED <<st_at, bios, mapVars>>
  BY <1>1 DEF mapVars, MapInv, MapNext, MapCall, MapGot, MapRead, Reported, EntriesIn, SizesIn, Turn
<1>2. CASE SetA20Command \/ SetA20Value
  BY <1>2 DEF SetA20Command, SetA20Value, mapVars, MapInv
<1>3. CASE FirstEntry
  <2>1. Int15(0, 6 * 0 + 1) /\ 0 \in 0..Reported /\ 0 + 1 = 1
        /\ UNCHANGED <<bios, mb>> /\ edi' = 1
        /\ st_at = "do_e820" /\ st_at' = "first"
    BY <1>3 DEF FirstEntry
  <2>2. EntriesIn(0) /\ SizesIn(0)
    BY DEF EntriesIn, SizesIn
  <2>3. /\ DOMAIN e820_map' = 0..MapWords-1
        /\ carry' => 0 = Reported \/ bios.first = "carry"
        /\ ~carry' => /\ 1 <= Reported /\ EntriesIn(1)' /\ ecx' = bios.size
                      /\ ebx' \in {0, 1} /\ (ebx' = 0 => 1 = Reported)
    BY <2>1, <2>2, EntryRead
  <2> QED
    BY <2>1, <2>3 DEF MapInv, Reported
<1>4. CASE MapFailed
  <2>1. st_at = "first" /\ st_at' = "failed" /\ UNCHANGED <<bios, mapVars>>
        /\ (carry \/ bios.first = "unsigned" \/ ebx = 0)
    BY <1>4 DEF MapFailed
  <2>2. mb = NoMb /\ ~(bios.first = "ok" /\ Reported > 1)
    BY <2>1 DEF MapInv
  <2> QED
    BY <2>1, <2>2 DEF MapInv, mapVars, Reported
<1>5. CASE FirstDone
  <2>1. /\ st_at = "first" /\ ~carry /\ ebx # 0 /\ ebp' = 24 /\ st_at' = "next_entry"
        /\ UNCHANGED <<bios, ebx, ecx, edi, e820_map, mb>>
    BY <1>5 DEF FirstDone
  <2>2. Reported >= 1 /\ EntriesIn(1) /\ ecx = bios.size /\ edi = 1 /\ ebx = 1 /\ mb = NoMb
    BY <2>1 DEF MapInv
  <2>3. EntriesIn(1)' /\ SizesIn(0)' /\ 1 \in 1..Reported' /\ ebp' = 24 * 1
        /\ edi' = 6 * (1 - 1) + 1 /\ 1 - 1 = 0
    BY <2>1, <2>2 DEF EntriesIn, SizesIn, Reported
  <2>4. MapNext'
    BY <2>1, <2>2, <2>3 DEF MapNext, Turn
  <2> QED
    BY <2>1, <2>2, <2>4 DEF MapInv
<1>6. CASE NextEntry
  <2>1. /\ st_at = "next_entry" /\ NoteSize /\ edi' = edi + 6 /\ st_at' = "int15"
        /\ UNCHANGED <<bios, ebx, ebp, mb>>
    BY <1>6 DEF NextEntry
  <2>2. PICK n \in 1..Reported :
          Turn(n) /\ SizesIn(n - 1) /\ ecx = bios.size /\ ebx = n /\ edi = 6 * (n - 1) + 1
    BY <2>1 DEF MapInv, MapNext
  <2>3. n \in 0..Reported /\ n - 1 \in 0..n /\ n - 1 + 1 = n /\ edi + 6 = 6 * n + 1
    BY <2>2
  <2>4. DOMAIN e820_map' = 0..MapWords-1 /\ EntriesIn(n)' /\ SizesIn(n)'
    BY <2>1, <2>2, <2>3, SizeNoted DEF Turn
  <2>5. MapCall'
    BY <2>1, <2>2, <2>3, <2>4 DEF MapCall, Turn, Reported
  <2> QED
    BY <2>1, <2>4, <2>5 DEF MapInv
<1>7. CASE AskEntry
  <2>1. /\ st_at = "int15" /\ Int15(ebx, edi) /\ st_at' = "got"
        /\ UNCHANGED <<bios, edi, ebp, mb>>
    BY <1>7 DEF AskEntry
  <2>2. PICK n \in 1..Reported : Turn(n) /\ SizesIn(n) /\ ebx = n /\ edi = 6 * n + 1
    BY <2>1 DEF MapInv, MapCall
  <2>3. n \in 0..Reported /\ n # 0 /\ Int15(n, 6 * n + 1) /\ EntriesIn(n)
    BY <2>1, <2>2 DEF Turn
  <2>4. /\ DOMAIN e820_map' = 0..MapWords-1
        /\ EntriesIn(n)' /\ SizesIn(n)'
        /\ carry' => n = Reported
        /\ ~carry' => /\ n + 1 <= Reported /\ EntriesIn(n + 1)' /\ ecx' = bios.size
                      /\ ebx' \in {0, n + 1} /\ (ebx' = 0 => n + 1 = Reported)
    BY <2>1, <2>2, <2>3, EntryRead
  <2>5. Reported' = Reported /\ bios' = bios
    BY <2>1 DEF Reported
  <2>6. MapGot'
    BY <2>1, <2>2, <2>4, <2>5 DEF MapGot, Turn
  <2> QED
    BY <2>1, <2>4, <2>5, <2>6 DEF MapInv
<1>8. CASE GotEntry
  <2>1. /\ st_at = "got" /\ ebp' = (IF carry THEN ebp ELSE ebp + 24)
        /\ st_at' = (IF carry \/ ebx = 0 THEN "done" ELSE "next_entry")
        /\ UNCHANGED <<bios, ebx, ecx, edi, carry, e820_map, mb>>
    BY <1>8 DEF GotEntry
  <2>2. PICK n \in 1..Reported :
         /\ Turn(n) /\ SizesIn(n) /\ edi = 6 * n + 1
         /\ carry => n = Reported
         /\ ~carry => /\ n + 1 <= Reported /\ EntriesIn(n + 1) /\ ecx = bios.size
                      /\ ebx \in {0, n + 1} /\ (ebx = 0 => n + 1 = Reported)
    BY <2>1 DEF MapInv, MapGot
  <2>3. /\ Reported' = Reported /\ bios' = bios /\ mb' = mb /\ mb = NoMb
        /\ DOMAIN e820_map' = 0..MapWords-1
    BY <2>1 DEF Reported, MapInv
  <2>4. \A m : /\ EntriesIn(m) => EntriesIn(m)'
               /\ SizesIn(m) => SizesIn(m)'
    BY <2>1 DEF EntriesIn, SizesIn
  <2>5. CASE carry
    <3>1. MapRead'
      BY <2>1, <2>2, <2>3, <2>4, <2>5 DEF MapRead, Turn
    <3> QED
      BY <2>1, <2>3, <2>5, <3>1 DEF MapInv
  <2>6. CASE ~carry
    <3>1. n + 1 \in 1..Reported /\ Turn(n + 1)' /\ SizesIn(n + 1 - 1)' /\ ecx' = bios.size
          /\ edi' = 6 * (n + 1 - 1) + 1
      <4>1. n + 1 - 1 = n /\ n + 1 \in 1..Reported
        BY <2>2, <2>6
      <4>2. ebp' = 24 * (n + 1)
        BY <2>1, <2>2, <2>6 DEF Turn
      <4>3. EntriesIn(n + 1)' /\ SizesIn(n)'
        BY <2>2, <2>4, <2>6
      <4> QED
        BY <2>1, <2>2, <2>6, <4>1, <4>2, <4>3 DEF Turn
    <3>2. CASE ebx = 0
      <4>1. Reported' = n + 1
        BY <2>2, <2>3, <2>6, <3>2
      <4>2. MapRead'
        BY <2>2, <2>3, <3>1, <4>1 DEF MapRead
      <4> QED
        BY <2>1, <2>3, <3>2, <4>2 DEF MapInv
    <3>3. CASE ebx # 0
      <4>1. MapNext'
        BY <2>1, <2>2, <2>3, <2>6, <3>1, <3>3 DEF MapNext
      <4> QED
        BY <2>1, <2>3, <2>6, <3>3, <4>1 DEF MapInv
    <3> QED
      BY <3>2, <3>3
  <2> QED
    BY <2>5, <2>6
<1>9. CASE MapDone
  <2>1. /\ st_at = "done" /\ NoteSize /\ mb' = [flag |-> 64, addr |-> 0, len |-> ebp]
        /\ st_at' = "failed" /\ UNCHANGED bios
    BY <1>9 DEF MapDone
  <2>2. /\ Reported >= 1 /\ Turn(Reported)
        /\ \/ SizesIn(Reported) /\ edi = 6 * Reported + 1
           \/ SizesIn(Reported - 1) /\ edi = 6 * (Reported - 1) + 1 /\ ecx = bios.size
    BY <2>1 DEF MapInv, MapRead
  <2>3. PICK n \in Nat, m \in Nat :
          /\ n = Reported /\ EntriesIn(n) /\ SizesIn(m) /\ edi = 6 * m + 1
          /\ m = n \/ (m + 1 = n /\ ecx = bios.size)
    <3>1. Reported - 1 \in Nat /\ Reported - 1 + 1 = Reported
      BY <2>2
    <3> QED
      BY <2>2, <3>1 DEF Turn
  <2>4. n \in 0..Reported /\ m \in 0..n
    BY <2>3
  <2>5. DOMAIN e820_map' = 0..MapWords-1 /\ EntriesIn(n)' /\ SizesIn(n)'
    BY <2>1, <2>3, <2>4, SizeNoted
  <2>6. mb' # NoMb /\ mb'.len = 24 * n
    BY <2>1, <2>2, <2>3 DEF NoMb, Turn
  <2>7. Reported' = n /\ bios' = bios
    BY <2>1, <2>3 DEF Reported
  <2> QED
    BY <2>1, <2>5, <2>6, <2>7 DEF MapInv
<1>10. CASE Protcseg
  BY <1>10 DEF Protcseg, mapVars, MapInv, Reported, EntriesIn, SizesIn
<1> QED
  BY <1>1, <1>2, <1>3, <1>4, <1>5, <1>6, <1>7, <1>8, <1>9, <1>10
  DEF MachineNext, Run, Start, StartNext, Head64, Load, DriveStep, ControllerStep, Controller,
      Stopped, machineVars, startVars

\* The map that bootmain and the kernel are handed is what the BIOS reported, for
\* every BIOS: however many entries, of whichever size, and however it tells that
\* an entry was the last.
THEOREM MapAsReportedCorrect == MachineSpec => []MapAsReported
<1>1. MachineInit => MapInv
  <2> SUFFICES ASSUME NEW m \in Machines, StartInit(m.bios) PROVE MapInv
    BY DEF MachineInit
  <2>1. Reports(bios)
    BY MachinesAssumption DEF StartInit
  <2> QED
    BY <2>1 DEF StartInit, MapInv
<1>2. MapInv => MapAsReported
  BY DEF MapInv, MapAsReported, Reported, EntriesIn, SizesIn
<1> QED
  BY <1>1, <1>2, MapStep, PTL DEF MachineSpec
-----------------------------------------------------------------------------
(* Reading the kernel. *)

DiskInv ==
  /\ DOMAIN mem = Addr
  /\ reading \in {"idle", "select", "transfer"} /\ drive \in {"ready", "busy"}
  /\ reading = "transfer" => lba = sect /\ (drive = "ready" => buffer = lba)

\* What readseg has in memory: all below pa, but for the sector under way.
Got == IF reading = "idle" THEN pa ELSE dst

\* readseg(p, n, off) is under way.
Copying(p, n, off) ==
  /\ end_pa = p + n
  /\ pa \in Nat /\ pa >= RoundDown(p)
  /\ offset \in Nat /\ (offset - 1) * SECTSIZE = pa - p + off
  /\ reading # "idle" => /\ dst = pa - SECTSIZE /\ sect = offset - 1
                         /\ RoundDown(p) <= dst /\ dst < end_pa
  /\ \A a \in RoundDown(p)..Got-1 : a \in Addr => mem[a] = a - p + off

\* Segment k is in memory, its uninitialised data not yet cleared.
SegmentIn(k) ==
  LET s == image.segs[k]
  IN \A n \in 0..s.memsz-1 : mem[s.pa + n] = s.offset + n

HeadersIn == \A k \in 1..Len(image.segs) : mem[ELFHDR + PhOff + k] = PhOff + k

\* The inductive invariant, up to the kernel's own readseg.
LoadInv ==
  /\ WellLinked(image) /\ DiskInv
  /\ at \in {"start", "header", "segment", "bad", "entered", "running"}
  /\ at # "running" => step = "start"
  /\ at \in {"start", "bad", "entered"} => reading = "idle"
  /\ ph \in 1..Len(image.segs)+1
  /\ at \in {"start", "header"} => ph = 1
  /\ at = "header" => Copying(ELFHDR, SECTSIZE * HdrSectors, 0)
  /\ at = "segment" =>
       /\ ph > 1 /\ HeadersIn
       /\ Copying(image.segs[ph - 1].pa, image.segs[ph - 1].memsz, image.segs[ph - 1].offset)
       /\ \A k \in 1..ph-2 : SegmentIn(k)
  /\ at = "entered" => Len(image.segs) > 0 /\ \A k \in 1..Len(image.segs) : SegmentIn(k)
  /\ at = "running" => Len(image.segs) > 0

\* The kernel's readseg writes only after its end.
AboveInv ==
  /\ kvoffset \in Nat
  /\ at = "running" =>
       /\ LoadedAsLinked
       /\ reading # "idle" => dst >= kvbase /\ dst \in Nat
       /\ step \in {"headers", "names", "section"} => pa \in Nat /\ pa >= kvbase
       /\ step \in {"start", "done"} => reading = "idle"

LEMMA MulLess ==
  ASSUME NEW a \in Int, NEW b \in Int, a < b
  PROVE  a * SECTSIZE + SECTSIZE <= b * SECTSIZE
<1>1. b = a + 1 + (b - a - 1) /\ b - a - 1 \in Nat
  OBVIOUS
<1>2. \A c \in Nat : c * SECTSIZE \in Nat
  BY SectSizeAssumption
<1> QED
  BY SectSizeAssumption, <1>1, <1>2

LEMMA Distribute ==
  ASSUME NEW a \in Int, NEW b \in Int, NEW c \in Int
  PROVE  (a + b) * c = a * c + c * b
OBVIOUS

LEMMA DivMod ==
  ASSUME NEW a \in Int
  PROVE  /\ a = (a \div SECTSIZE) * SECTSIZE + (a % SECTSIZE)
         /\ a % SECTSIZE \in 0..SECTSIZE-1 /\ a \div SECTSIZE \in Int
BY SectSizeAssumption

LEMMA RoundDownIs ==
  ASSUME NEW a \in Nat
  PROVE  /\ RoundDown(a) = Sector(a) * SECTSIZE /\ RoundDown(a) \in Nat
         /\ RoundDown(a) <= a /\ a < RoundDown(a) + SECTSIZE
         /\ RoundDown(a) = a - (a % SECTSIZE) /\ Sector(a) \in Int
BY SectSizeAssumption, DivMod DEF RoundDown, Sector

\* A sector that is before another ends before it.
LEMMA SectorLess ==
  ASSUME NEW a \in Int, NEW b \in Nat, Sector(a) < Sector(b)
  PROVE  a < RoundDown(b)
BY SectSizeAssumption, DivMod, MulLess DEF RoundDown, Sector

\* What WellLinked says of a segment.
LEMMA SegIs ==
  ASSUME WellLinked(image), NEW k \in 1..Len(image.segs)
  PROVE  LET s == image.segs[k]
         IN /\ s.pa \in Nat /\ s.memsz \in Nat /\ s.filesz \in Nat /\ s.offset \in Nat
            /\ s.pa % SECTSIZE = s.offset % SECTSIZE
            /\ s.filesz <= s.memsz /\ s.pa + s.memsz + SECTSIZE <= MemTop
            /\ ELFHDR + SECTSIZE * HdrSectors <= RoundDown(s.pa)
<1> DEFINE s == image.segs[k]
<1>1. image.segs \in Seq(Segment) /\ Linked(s)
  BY DEF WellLinked
<1>2. s \in Segment
  BY <1>1
<1>3. s.pa \in Nat /\ s.memsz \in Nat /\ s.filesz \in Nat /\ s.offset \in Nat
  BY <1>2 DEF Segment
<1>4. /\ s.pa % SECTSIZE = s.offset % SECTSIZE
      /\ s.filesz <= s.memsz /\ s.pa + s.memsz + SECTSIZE <= MemTop
      /\ Sector(s.pa) >= Sector(ELFHDR) + HdrSectors
  BY <1>1 DEF Linked
<1> HIDE DEF s
<1>5. ELFHDR + SECTSIZE * HdrSectors <= RoundDown(s.pa)
  <2>1. ELFHDR = Sector(ELFHDR) * SECTSIZE /\ Sector(ELFHDR) \in Int
    <3>1. RoundDown(ELFHDR) = ELFHDR
      BY ElfHdrAssumption DEF RoundDown
    <3> QED
      BY <3>1, ElfHdrAssumption, RoundDownIs
  <2>2. RoundDown(s.pa) = Sector(s.pa) * SECTSIZE /\ Sector(s.pa) \in Int
    BY <1>3, RoundDownIs
  <2> DEFINE x == Sector(ELFHDR)
             y == Sector(s.pa)
  <2> HIDE DEF x, y
  <2>3. x \in Int /\ y \in Int /\ HdrSectors \in Nat /\ SECTSIZE \in Nat /\ y >= x + HdrSectors
    BY <1>4, <2>1, <2>2, SectSizeAssumption, HdrAssumption DEF x, y
  <2>4. x * SECTSIZE + SECTSIZE * HdrSectors = (x + HdrSectors) * SECTSIZE
    BY <2>3, Distribute
  <2>5. (x + HdrSectors) * SECTSIZE <= y * SECTSIZE
    BY <2>3, SectSizeAssumption, MulLess
  <2> QED
    BY <2>1, <2>2, <2>4, <2>5 DEF x, y
<1> QED
  BY <1>3, <1>4, <1>5 DEF s

\* And of two: the sectors of the later one do not reach the earlier one, or hold
\* the same there.
LEMMA SegApart ==
  ASSUME WellLinked(image), NEW k \in 1..Len(image.segs), NEW m \in 1..k-1
  PROVE  LET s == image.segs[m]
             t == image.segs[k]
         IN /\ s.filesz = s.memsz /\ s.pa + s.memsz <= t.pa
            /\ \/ s.pa - s.offset = t.pa - t.offset
               \/ s.pa + s.memsz <= RoundDown(t.pa)
<1> DEFINE s == image.segs[m]
           t == image.segs[k]
<1>1. s.filesz = s.memsz /\ Apart(s, t)
  BY DEF WellLinked
<1>2. Len(image.segs) \in Nat
  BY DEF WellLinked
<1>3. m \in 1..Len(image.segs)
  BY <1>2
<1>4. s.pa \in Nat /\ s.memsz \in Nat /\ t.pa \in Nat
  BY <1>3, SegIs
<1> HIDE DEF s, t
<1>5. Sector(s.pa + s.memsz - 1) < Sector(t.pa) => s.pa + s.memsz <= RoundDown(t.pa)
  <2> DEFINE a == s.pa + s.memsz - 1
             b == t.pa
  <2>1. a \in Int /\ b \in Nat /\ s.pa + s.memsz = a + 1
    BY <1>4
  <2> HIDE DEF a, b
  <2>2. RoundDown(b) \in Nat /\ (Sector(a) < Sector(b) => a < RoundDown(b))
    BY <2>1, RoundDownIs, SectorLess
  <2>3. Sector(a) < Sector(b) => a + 1 <= RoundDown(b)
    BY <2>1, <2>2
  <2> QED
    BY <2>1, <2>3 DEF a, b
<1> QED
  BY <1>1, <1>5 DEF s, t, Apart

LEMMA DiskStep ==
  ASSUME DiskInv,
         \/ Command \/ Transfer \/ DriveReady \/ UNCHANGED diskVars
         \/ \E d, n : readsect(d, n)
  PROVE  DiskInv'
BY DEF DiskInv, Command, Transfer, DriveReady, diskVars, readsect, Inserted

\* A call of readseg, for a place and an offset that agree modulo the sector size.
LEMMA CopyStarts ==
  ASSUME NEW p \in Nat, NEW n \in Nat, NEW off \in Nat,
         p % SECTSIZE = off % SECTSIZE, reading = "idle",
         readseg(p, n, off), UNCHANGED diskVars
  PROVE  Copying(p, n, off)'
<1>1. /\ reading' = "idle" /\ pa' = RoundDown(p) /\ end_pa' = p + n
      /\ offset' = (off \div SECTSIZE) + 1
  BY DEF readseg, diskVars
<1>2. RoundDown(p) \in Nat /\ RoundDown(p) = p - (p % SECTSIZE)
  BY RoundDownIs
<1>3. off \div SECTSIZE \in Nat /\ (off \div SECTSIZE) * SECTSIZE = off - (off % SECTSIZE)
  <2>1. off \div SECTSIZE \in Nat
    BY SectSizeAssumption
  <2>2. off = (off \div SECTSIZE) * SECTSIZE + (off % SECTSIZE) /\ off % SECTSIZE \in Nat
        /\ (off \div SECTSIZE) * SECTSIZE \in Int
    BY SectSizeAssumption, DivMod
  <2> QED
    BY <2>1, <2>2
<1>4. offset' \in Nat /\ offset' - 1 = off \div SECTSIZE
  BY <1>1, <1>3
<1>5. p % SECTSIZE \in Nat
  BY DivMod
<1>6. (offset' - 1) * SECTSIZE = pa' - p + off
  BY <1>1, <1>2, <1>3, <1>4, <1>5
<1>7. Got' = RoundDown(p)
  BY <1>1 DEF Got
<1> QED
  BY <1>1, <1>2, <1>4, <1>6, <1>7 DEF Copying

\* What the transfer of a sector writes.
LEMMA TransferIs ==
  ASSUME NEW p \in Nat, NEW n \in Nat, NEW off \in Nat,
         DiskInv, Copying(p, n, off), Transfer
  PROVE  \A a \in Addr :
           mem'[a] = IF a \in dst..dst+SECTSIZE-1 THEN a - p + off ELSE mem[a]
<1>1. /\ dst = pa - SECTSIZE /\ buffer = offset - 1
      /\ (offset - 1) * SECTSIZE = pa - p + off /\ offset \in Nat /\ pa \in Nat
      /\ mem' = Inserted(mem, dst, buffer)
  BY DEF DiskInv, Copying, Transfer
<1>2. (offset - 1 - 1) * SECTSIZE = (offset - 1) * SECTSIZE - SECTSIZE
  BY <1>1, SectSizeAssumption
<1>3. (buffer - 1) * SECTSIZE = dst - p + off
  BY <1>1, <1>2, SectSizeAssumption
<1>4. dst \in Int
  BY <1>1, SectSizeAssumption
<1>5. SUFFICES ASSUME NEW a \in Addr
               PROVE  mem'[a] = IF a \in dst..dst+SECTSIZE-1 THEN a - p + off ELSE mem[a]
  OBVIOUS
<1>6. mem'[a] = IF a \in dst..dst+SECTSIZE-1 THEN (buffer - 1) * SECTSIZE + (a - dst)
                ELSE mem[a]
  BY <1>1 DEF Inserted
<1>7. dst - p + off + (a - dst) = a - p + off
  BY <1>4 DEF Addr
<1> QED
  BY <1>3, <1>6, <1>7

\* A turn of readseg's loop, and the steps of readsect.
LEMMA CopyGoesOn ==
  ASSUME NEW p \in Nat, NEW n \in Nat, NEW off \in Nat,
         DiskInv, Copying(p, n, off), UNCHANGED end_pa,
         \/ /\ readsect(pa, offset) /\ pa < end_pa
            /\ pa' = pa + SECTSIZE /\ offset' = offset + 1
         \/ (Command \/ Transfer \/ DriveReady \/ UNCHANGED diskVars)
            /\ UNCHANGED <<pa, offset>>
  PROVE  Copying(p, n, off)'
<1>1. CASE /\ readsect(pa, offset) /\ pa < end_pa
           /\ pa' = pa + SECTSIZE /\ offset' = offset + 1
  <2>1. /\ reading = "idle" /\ reading' = "select" /\ dst' = pa /\ sect' = offset /\ mem' = mem
    BY <1>1 DEF readsect
  <2>2. Got' = Got
    BY <2>1 DEF Got
  <2>3. (offset + 1 - 1) * SECTSIZE = (offset - 1) * SECTSIZE + SECTSIZE
    BY SectSizeAssumption DEF Copying
  <2>4. /\ pa' \in Nat /\ pa' >= RoundDown(p) /\ offset' \in Nat
        /\ (offset' - 1) * SECTSIZE = pa' - p + off
        /\ dst' = pa' - SECTSIZE /\ sect' = offset' - 1
    BY <1>1, <2>1, <2>3, SectSizeAssumption, RoundDownIs DEF Copying
  <2> QED
    BY <1>1, <2>1, <2>2, <2>4 DEF Copying
<1>2. CASE (Command \/ DriveReady \/ UNCHANGED diskVars) /\ UNCHANGED <<pa, offset>>
  <2>1. /\ (reading' = "idle" <=> reading = "idle")
        /\ UNCHANGED <<pa, end_pa, offset, dst, sect, mem>>
    BY <1>2 DEF Command, DriveReady, diskVars
  <2>2. Got' = Got
    BY <2>1 DEF Got
  <2> QED
    BY <2>1, <2>2 DEF Copying
<1>3. CASE Transfer /\ UNCHANGED <<pa, offset>>
  <2>1. /\ reading = "transfer" /\ reading' = "idle"
        /\ UNCHANGED <<pa, end_pa, offset, dst, sect>>
    BY <1>3 DEF Transfer
  <2>2. Got = dst /\ Got' = pa
    BY <2>1 DEF Got
  <2>3. dst \in Int /\ dst + SECTSIZE = pa /\ RoundDown(p) \in Nat /\ pa \in Nat
    BY <2>1, SectSizeAssumption, RoundDownIs DEF Copying
  <2>4. ASSUME NEW a \in RoundDown(p)..pa-1, a \in Addr PROVE mem'[a] = a - p + off
    <3>1. mem'[a] = IF a \in dst..dst+SECTSIZE-1 THEN a - p + off ELSE mem[a]
      BY <1>3, <2>4, TransferIs
    <3>2. CASE a >= dst
      BY <2>3, <3>1, <3>2, SectSizeAssumption
    <3>3. CASE a < dst
      <4>1. a \in RoundDown(p)..Got-1
        BY <2>2, <2>3, <3>3
      <4> QED
        BY <2>3, <2>4, <3>1, <3>3, <4>1 DEF Copying
    <3> QED
      BY <2>3, <3>2, <3>3
  <2> QED
    BY <2>1, <2>2, <2>4 DEF Copying
<1> QED
  BY <1>1, <1>2, <1>3

\* Segment k is of n bytes, at p in memory and at off in the image.
IsSegment(k, p, n, off) ==
  /\ p \in Nat /\ n \in Nat /\ off \in Nat
  /\ image.segs[k].pa = p /\ image.segs[k].memsz = n /\ image.segs[k].offset = off

LEMMA SegmentIs ==
  ASSUME WellLinked(image), NEW k \in 1..Len(image.segs)
  PROVE  \E p, n, off : IsSegment(k, p, n, off)
BY SegIs DEF IsSegment

\* The same facts about these numbers.
LEMMA SegmentFacts ==
  ASSUME WellLinked(image), NEW k \in 1..Len(image.segs),
         NEW p, NEW n, NEW off, IsSegment(k, p, n, off)
  PROVE  /\ p % SECTSIZE = off % SECTSIZE /\ p + n + SECTSIZE <= MemTop
         /\ ELFHDR + SECTSIZE * HdrSectors <= RoundDown(p)
         /\ RoundDown(p) \in Nat /\ RoundDown(p) <= p
         /\ SegmentIn(k) <=> \A j \in 0..n-1 : mem[p + j] = off + j
<1>1. p \in Nat
  BY DEF IsSegment
<1>2. RoundDown(p) \in Nat /\ RoundDown(p) <= p
  BY <1>1, RoundDownIs
<1>3. /\ p % SECTSIZE = off % SECTSIZE /\ p + n + SECTSIZE <= MemTop
      /\ ELFHDR + SECTSIZE * HdrSectors <= RoundDown(p)
  BY SegIs DEF IsSegment
<1>4. SegmentIn(k) <=> \A j \in 0..n-1 : mem[p + j] = off + j
  BY DEF SegmentIn, IsSegment
<1> QED
  BY <1>2, <1>3, <1>4

\* The transfer of a sector of segment k disturbs neither the segments before it
\* nor the program headers.
LEMMA TransferSpares ==
  ASSUME WellLinked(image), DiskInv, NEW k \in 1..Len(image.segs), Transfer, UNCHANGED image,
         NEW p, NEW n, NEW off, IsSegment(k, p, n, off), Copying(p, n, off)
  PROVE  /\ HeadersIn => HeadersIn'
         /\ \A m \in 1..k-1 : SegmentIn(m) => SegmentIn(m)'
<1>1. /\ p \in Nat /\ n \in Nat /\ off \in Nat
      /\ ELFHDR + SECTSIZE * HdrSectors <= RoundDown(p)
      /\ RoundDown(p) \in Nat /\ p + n + SECTSIZE <= MemTop
  BY SegmentFacts DEF IsSegment
<1>2. \A a \in Addr :
        mem'[a] = IF a \in dst..dst+SECTSIZE-1 THEN a - p + off ELSE mem[a]
  BY <1>1, TransferIs
<1>3. RoundDown(p) <= dst /\ dst < p + n /\ dst \in Int
  BY SectSizeAssumption DEF Copying, Transfer
<1>4. PhOff + Len(image.segs) < SECTSIZE * HdrSectors /\ Len(image.segs) \in Nat
      /\ SECTSIZE * HdrSectors \in Nat
  BY SectSizeAssumption, HdrAssumption DEF WellLinked
<1>5. ASSUME HeadersIn, NEW j \in 1..Len(image.segs)
      PROVE  mem'[ELFHDR + PhOff + j] = PhOff + j
  <2> DEFINE a == ELFHDR + PhOff + j
  <2>1. a \in Int /\ 0 <= a /\ a < ELFHDR + SECTSIZE * HdrSectors
    BY <1>4, ElfHdrAssumption, HdrAssumption
  <2>2. mem[a] = PhOff + j
    BY <1>5 DEF HeadersIn
  <2> HIDE DEF a
  <2>3. a < dst /\ a < MemTop
    BY <1>1, <1>3, <1>4, <2>1, SectSizeAssumption, MemTopAssumption, ElfHdrAssumption
  <2>4. mem'[a] = mem[a]
    BY <1>2, <1>3, <2>1, <2>3, MemTopAssumption DEF Addr
  <2> QED
    BY <2>2, <2>4 DEF a
<1>6. ASSUME NEW m \in 1..k-1, SegmentIn(m) PROVE SegmentIn(m)'
  <2>1. m \in 1..Len(image.segs)
    BY <1>4
  <2>2. PICK sp, sn, so : IsSegment(m, sp, sn, so)
    BY <2>1, SegmentIs
  <2>3. /\ sp \in Nat /\ sn \in Nat /\ so \in Nat /\ sp + sn + SECTSIZE <= MemTop
        /\ \A j \in 0..sn-1 : mem[sp + j] = so + j
    <3>1. sp \in Nat /\ sn \in Nat /\ so \in Nat
      BY <2>2 DEF IsSegment
    <3>2. sp + sn + SECTSIZE <= MemTop
      BY <2>1, <2>2, SegmentFacts
    <3>3. \A j \in 0..sn-1 : mem[sp + j] = so + j
      BY <1>6, <2>2 DEF SegmentIn, IsSegment
    <3> QED
      BY <3>1, <3>2, <3>3
  <2>4. sp - so = p - off \/ sp + sn <= RoundDown(p)
    BY <2>2, SegApart DEF IsSegment
  <2>5. ASSUME NEW j \in 0..sn-1 PROVE mem'[sp + j] = so + j
    <3> DEFINE a == sp + j
    <3>1. a \in Nat /\ a < sp + sn /\ a < MemTop
      BY <2>3, SectSizeAssumption, MemTopAssumption
    <3>2. mem[a] = so + j
      BY <2>3
    <3>3. so + j = a - sp + so
      BY <2>3
    <3> SUFFICES mem'[a] = so + j
      OBVIOUS
    <3> HIDE DEF a
    <3>4. mem'[a] = IF a \in dst..dst+SECTSIZE-1 THEN a - p + off ELSE mem[a]
      BY <1>2, <3>1, MemTopAssumption DEF Addr
    <3>5. CASE sp - so = p - off
      BY <1>1, <2>3, <3>1, <3>2, <3>3, <3>4, <3>5
    <3>6. CASE sp + sn <= RoundDown(p)
      <4>1. a < dst
        BY <1>1, <1>3, <2>3, <3>1, <3>6
      <4> QED
        BY <1>3, <3>1, <3>2, <3>4, <4>1, SectSizeAssumption
    <3> QED
      BY <2>4, <3>5, <3>6
  <2> QED
    BY <2>2, <2>5 DEF SegmentIn, IsSegment
<1>7. HeadersIn => HeadersIn'
  BY <1>5 DEF HeadersIn
<1> QED
  BY <1>6, <1>7

\* When readseg has read all of a segment, it is in memory.
LEMMA SegmentCopied ==
  ASSUME WellLinked(image), NEW k \in 1..Len(image.segs), SegmentRead,
         NEW p, NEW n, NEW off, IsSegment(k, p, n, off), Copying(p, n, off)
  PROVE  SegmentIn(k)
<1>1. /\ p \in Nat /\ n \in Nat /\ off \in Nat
      /\ RoundDown(p) \in Nat /\ RoundDown(p) <= p /\ p + n + SECTSIZE <= MemTop
  BY SegmentFacts DEF IsSegment
<1>2. Got = pa /\ pa >= p + n /\ pa \in Nat
  BY DEF Copying, SegmentRead, Got
<1>3. \A a \in RoundDown(p)..pa-1 : a \in Addr => mem[a] = a - p + off
  BY <1>2 DEF Copying
<1>4. ASSUME NEW j \in 0..n-1 PROVE mem[p + j] = off + j
  <2>1. p + j \in RoundDown(p)..pa-1 /\ p + j \in Addr
    BY <1>1, <1>2, SectSizeAssumption, MemTopAssumption DEF Addr
  <2> DEFINE a == p + j
  <2> HIDE DEF a
  <2>2. mem[a] = a - p + off
    BY <1>3, <2>1 DEF a
  <2>3. a - p + off = off + j
    BY <1>1 DEF a
  <2> QED
    BY <2>2, <2>3 DEF a
<1> QED
  BY <1>4, SegmentFacts

\* When readseg has read the header, the program headers are in memory.
LEMMA HeadersCopied ==
  ASSUME WellLinked(image), SegmentRead, Copying(ELFHDR, SECTSIZE * HdrSectors, 0),
         Len(image.segs) > 0
  PROVE  HeadersIn
<1>1. PhOff + Len(image.segs) < SECTSIZE * HdrSectors /\ Len(image.segs) \in Nat
      /\ SECTSIZE * HdrSectors \in Nat
  BY SectSizeAssumption, HdrAssumption DEF WellLinked
<1>2. RoundDown(ELFHDR) = ELFHDR
  BY ElfHdrAssumption DEF RoundDown
<1>3. Got = pa /\ pa >= ELFHDR + SECTSIZE * HdrSectors /\ pa \in Nat
  BY DEF Copying, SegmentRead, Got
<1>4. 1 \in 1..Len(image.segs)
  BY <1>1
<1>5. ELFHDR + SECTSIZE * HdrSectors < MemTop
  <2> DEFINE s == image.segs[1]
  <2>1. /\ s.pa \in Nat /\ s.memsz \in Nat /\ s.pa + s.memsz + SECTSIZE <= MemTop
        /\ ELFHDR + SECTSIZE * HdrSectors <= RoundDown(s.pa)
        /\ RoundDown(s.pa) \in Nat /\ RoundDown(s.pa) <= s.pa
    BY <1>4, SegIs, RoundDownIs
  <2> HIDE DEF s
  <2> QED
    BY <1>1, <2>1, SectSizeAssumption, MemTopAssumption, ElfHdrAssumption
<1> SUFFICES ASSUME NEW j \in 1..Len(image.segs)
             PROVE  mem[ELFHDR + PhOff + j] = PhOff + j
  BY DEF HeadersIn
<1> DEFINE a == ELFHDR + PhOff + j
<1>6. a \in RoundDown(ELFHDR)..Got-1 /\ a \in Addr /\ a - ELFHDR + 0 = PhOff + j
  BY <1>1, <1>2, <1>3, <1>5, ElfHdrAssumption, HdrAssumption, MemTopAssumption DEF Addr
<1> HIDE DEF a
<1>7. mem[a] = a - ELFHDR + 0
  BY <1>6 DEF Copying
<1> QED
  BY <1>6, <1>7 DEF a

\* A step of the machine, as far as memory is concerned.
LEMMA LoadSteps ==
  ASSUME [MachineNext]_machineVars
  PROVE  \/ UNCHANGED loadVars
         \/ BootNext /\ UNCHANGED sectVars
         \/ ReadSections
         \/ (Command \/ Transfer \/ DriveReady) /\ UNCHANGED rest
BY DEF MachineNext, Run, Start, Head64, Load, Processor, DriveStep, Drive, ControllerStep,
       Stopped, machineVars

\* The kernel's own steps do not start before the kernel runs.
LEMMA SectionsStep ==
  ASSUME LoadInv, ReadSections
  PROVE  /\ at = "running" /\ UNCHANGED <<image, at, ph>>
         /\ UNCHANGED diskVars \/ \E d, n : readsect(d, n)
<1>1. CASE ReadHeaders
  BY <1>1 DEF ReadHeaders
<1>2. CASE ReadNames \/ LoadSection \/ NoteEhFrame \/ SkipSection \/ Return
  <2>1. step # "start" /\ UNCHANGED <<image, at, ph, diskVars>>
    BY <1>2 DEF ReadNames, LoadSection, NoteEhFrame, SkipSection, Return, AtLoop
  <2> QED
    BY <2>1 DEF LoadInv
<1>3. CASE SegLoop \/ SegExtra
  <2>1. step # "start" /\ UNCHANGED <<image, at, ph>> /\ readsect(pa, offset)
    BY <1>3 DEF SegLoop, SegExtra, InSeg, NextSector
  <2> QED
    BY <2>1 DEF LoadInv
<1> QED
  BY <1>1, <1>2, <1>3 DEF ReadSections

\* bootmain reads the program header that it means, with everything before it in
\* memory.
LEMMA HeaderIs ==
  ASSUME LoadInv, LoadSegment
  PROVE  /\ ph \in 1..Len(image.segs) /\ HeaderAt(ph) = image.segs[ph]
         /\ HeadersIn /\ \A m \in 1..ph-1 : SegmentIn(m)
<1>0. WellLinked(image) /\ Len(image.segs) \in Nat /\ ph \in 1..Len(image.segs)+1
  BY DEF LoadInv, WellLinked
<1>1. at \in {"header", "segment"} /\ SegmentRead /\ ph <= Len(image.segs)
  BY DEF LoadSegment
<1>2. ph \in 1..Len(image.segs) /\ Len(image.segs) > 0
  BY <1>0, <1>1
<1>3. HeadersIn /\ \A m \in 1..ph-1 : SegmentIn(m)
  <2>1. CASE at = "header"
    <3>1. ph = 1 /\ Copying(ELFHDR, SECTSIZE * HdrSectors, 0)
      BY <2>1 DEF LoadInv
    <3>2. HeadersIn
      BY <1>0, <1>1, <1>2, <3>1, HeadersCopied
    <3> QED
      BY <3>1, <3>2
  <2>2. CASE at = "segment"
    <3>1. /\ ph > 1 /\ HeadersIn /\ \A k \in 1..ph-2 : SegmentIn(k)
          /\ Copying(image.segs[ph - 1].pa, image.segs[ph - 1].memsz, image.segs[ph - 1].offset)
      BY <2>2 DEF LoadInv
    <3>2. PICK k \in 1..Len(image.segs) : k = ph - 1
      BY <1>0, <1>2, <3>1
    <3>3. PICK p, n, off : IsSegment(k, p, n, off)
      BY <1>0, SegmentIs
    <3>4. Copying(p, n, off)
      BY <3>1, <3>2, <3>3 DEF IsSegment
    <3>5. SegmentIn(k)
      BY <1>0, <1>1, <3>3, <3>4, SegmentCopied
    <3>6. \A m \in 1..ph-1 : m = k \/ m \in 1..ph-2
      BY <1>0, <3>2
    <3> QED
      BY <3>1, <3>5, <3>6
  <2> QED
    BY <1>1, <2>1, <2>2
<1>4. HeaderAt(ph) = image.segs[ph]
  <2>1. \A k \in 1..Len(image.segs) : mem[ELFHDR + PhOff + k] = PhOff + k
    BY <1>3 DEF HeadersIn
  <2>2. ph \in Nat /\ PhOff \in Nat
    BY <1>0, HdrAssumption
  <2>3. mem[ELFHDR + PhOff + ph] = PhOff + ph
    BY <1>2, <2>1
  <2> DEFINE x == mem[ELFHDR + PhOff + ph]
  <2> HIDE DEF x
  <2>4. x - PhOff = ph
    BY <2>2, <2>3 DEF x
  <2>5. HeaderAt(ph) = image.segs[x - PhOff]
    BY DEF HeaderAt, x
  <2> QED
    BY <2>4, <2>5
<1> QED
  BY <1>2, <1>3, <1>4

LEMMA LoadStep == LoadInv /\ [MachineNext]_machineVars => LoadInv'
<1> SUFFICES ASSUME LoadInv, [MachineNext]_machineVars PROVE LoadInv'
  OBVIOUS
<1>1. WellLinked(image) /\ DiskInv /\ Len(image.segs) \in Nat /\ ph \in 1..Len(image.segs)+1
  BY DEF LoadInv, WellLinked
<1>2. CASE UNCHANGED loadVars
  <2>1. UNCHANGED <<diskVars, image, at, ph, pa, end_pa, offset, step>>
    BY <1>2 DEF loadVars, bootVars, sectVars
  <2>2. DiskInv'
    BY <1>1, <2>1, DiskStep
  <2> QED
    BY <2>1, <2>2 DEF LoadInv, Copying, Got, HeadersIn, SegmentIn, diskVars
<1>3. CASE ReadHeader /\ UNCHANGED sectVars
  <2>1. /\ at = "start" /\ at' = "header" /\ readseg(ELFHDR, SECTSIZE * HdrSectors, 0)
        /\ UNCHANGED <<diskVars, image, ph, step>>
    BY <1>3 DEF ReadHeader, sectVars
  <2>2. /\ ELFHDR % SECTSIZE = 0 % SECTSIZE /\ SECTSIZE * HdrSectors \in Nat
        /\ ELFHDR \in Nat
    BY ElfHdrAssumption, HdrAssumption, SectSizeAssumption
  <2>3. Copying(ELFHDR, SECTSIZE * HdrSectors, 0)'
    BY <2>1, <2>2, CopyStarts DEF LoadInv
  <2>4. DiskInv'
    BY <1>1, <2>1, DiskStep
  <2> QED
    BY <2>1, <2>3, <2>4 DEF LoadInv
<1>4. CASE \/ ReadSector /\ UNCHANGED sectVars
           \/ (Command \/ Transfer \/ DriveReady) /\ UNCHANGED rest
  <2>1. /\ UNCHANGED <<image, at, ph, end_pa, step>>
        /\ \/ /\ readsect(pa, offset) /\ pa < end_pa
              /\ pa' = pa + SECTSIZE /\ offset' = offset + 1 /\ UNCHANGED mem
           \/ (Command \/ Transfer \/ DriveReady) /\ UNCHANGED <<pa, offset>>
    BY <1>4 DEF ReadSector, rest, segVars, sectVars, readsect
  <2>2. DiskInv'
    BY <1>1, <2>1, DiskStep
  <2>3. CASE at = "header"
    <3>1. Copying(ELFHDR, SECTSIZE * HdrSectors, 0)
      BY <2>3 DEF LoadInv
    <3>2. SECTSIZE * HdrSectors \in Nat /\ ELFHDR \in Nat
      BY ElfHdrAssumption, HdrAssumption, SectSizeAssumption
    <3>3. Copying(ELFHDR, SECTSIZE * HdrSectors, 0)'
      BY <1>1, <2>1, <3>1, <3>2, CopyGoesOn
    <3> QED
      BY <2>1, <2>2, <2>3, <3>3 DEF LoadInv
  <2>4. CASE at = "segment"
    <3>1. /\ ph > 1 /\ HeadersIn /\ \A k \in 1..ph-2 : SegmentIn(k)
          /\ Copying(image.segs[ph - 1].pa, image.segs[ph - 1].memsz, image.segs[ph - 1].offset)
      BY <2>4 DEF LoadInv
    <3>2. PICK k \in 1..Len(image.segs) : k = ph - 1 /\ ph - 2 = k - 1
      BY <1>1, <3>1
    <3>3. PICK p, n, off : IsSegment(k, p, n, off)
      BY <1>1, SegmentIs
    <3>4. Copying(p, n, off) /\ p \in Nat /\ n \in Nat /\ off \in Nat
      BY <3>1, <3>2, <3>3 DEF IsSegment
    <3>5. Copying(p, n, off)'
      BY <1>1, <2>1, <3>4, CopyGoesOn
    <3>6. HeadersIn' /\ \A m \in 1..k-1 : SegmentIn(m)'
      <4>1. CASE Transfer
        BY <1>1, <2>1, <3>1, <3>2, <3>3, <3>4, <4>1, TransferSpares
      <4>2. CASE UNCHANGED mem
        BY <2>1, <3>1, <3>2, <4>2 DEF HeadersIn, SegmentIn
      <4> QED
        BY <2>1, <4>1, <4>2 DEF Command, DriveReady
    <3>7. Copying(image.segs[ph - 1].pa, image.segs[ph - 1].memsz, image.segs[ph - 1].offset)'
      <4>1. /\ image'.segs[ph' - 1].pa = p /\ image'.segs[ph' - 1].memsz = n
            /\ image'.segs[ph' - 1].offset = off
        BY <2>1, <3>2, <3>3 DEF IsSegment
      <4> QED
        BY <3>5, <4>1 DEF Copying, Got
    <3>8. ph' > 1 /\ ph' - 2 = k - 1
      BY <2>1, <3>1, <3>2
    <3> QED
      BY <2>1, <2>2, <2>4, <3>6, <3>7, <3>8 DEF LoadInv
  <2>5. CASE at \notin {"header", "segment"}
    <3>1. CASE at = "running"
      BY <2>1, <2>2, <3>1 DEF LoadInv
    <3>2. CASE at # "running"
      <4>1. reading = "idle" /\ DriveReady
        BY <1>4, <2>1, <2>5, <3>2 DEF LoadInv, ReadSector, Command, Transfer
      <4>2. reading' = "idle" /\ mem' = mem
        BY <4>1 DEF DriveReady
      <4> QED
        BY <2>1, <2>2, <2>5, <4>2 DEF LoadInv, SegmentIn
    <3> QED
      BY <3>1, <3>2
  <2> QED
    BY <2>3, <2>4, <2>5
<1>5. CASE BadMagic /\ UNCHANGED sectVars
  <2>1. /\ at' = "bad" /\ reading = "idle" /\ UNCHANGED <<diskVars, image, ph, step>> /\ at = "header"
    BY <1>5 DEF BadMagic, SegmentRead, sectVars
  <2>2. DiskInv'
    BY <1>1, <2>1, DiskStep
  <2> QED
    BY <2>1, <2>2 DEF LoadInv, diskVars
<1>6. CASE LoadSegment /\ UNCHANGED sectVars
  <2>1. /\ at \in {"header", "segment"} /\ at' = "segment" /\ SegmentRead /\ reading = "idle"
        /\ ph <= Len(image.segs) /\ ph' = ph + 1
        /\ readseg(HeaderAt(ph).pa, HeaderAt(ph).memsz, HeaderAt(ph).offset)
        /\ UNCHANGED <<diskVars, image, step>>
    BY <1>6 DEF LoadSegment, SegmentRead, sectVars
  <2>2. /\ ph \in 1..Len(image.segs) /\ HeaderAt(ph) = image.segs[ph]
        /\ HeadersIn /\ \A m \in 1..ph-1 : SegmentIn(m)
    BY <1>6, HeaderIs
  <2>5. PICK p, n, off : IsSegment(ph, p, n, off)
    BY <1>1, <2>2, SegmentIs
  <2>6. readseg(p, n, off) /\ p \in Nat /\ n \in Nat /\ off \in Nat
    BY <2>1, <2>2, <2>5 DEF IsSegment
  <2>7. p % SECTSIZE = off % SECTSIZE
    BY <1>1, <2>2, <2>5, SegmentFacts
  <2>8. Copying(p, n, off)'
    BY <2>1, <2>6, <2>7, CopyStarts
  <2>9. ph' - 1 = ph /\ ph' - 2 = ph - 1 /\ ph' > 1 /\ ph' \in 1..Len(image.segs)+1
    BY <1>1, <2>1, <2>2
  <2>10. Copying(image.segs[ph - 1].pa, image.segs[ph - 1].memsz, image.segs[ph - 1].offset)'
    <3>1. /\ image'.segs[ph' - 1].pa = p /\ image'.segs[ph' - 1].memsz = n
          /\ image'.segs[ph' - 1].offset = off
      BY <2>1, <2>5, <2>9 DEF IsSegment
    <3> QED
      BY <2>8, <3>1 DEF Copying, Got
  <2>11. HeadersIn' /\ \A m \in 1..ph-1 : SegmentIn(m)'
    BY <2>1, <2>2 DEF HeadersIn, SegmentIn, diskVars
  <2>12. DiskInv'
    BY <1>1, <2>1, DiskStep
  <2> QED
    BY <2>1, <2>9, <2>10, <2>11, <2>12 DEF LoadInv
<1>7. CASE Enter /\ UNCHANGED sectVars
  <2>1. /\ at = "segment" /\ at' = "entered" /\ SegmentRead /\ reading = "idle"
        /\ ph > Len(image.segs) /\ UNCHANGED <<diskVars, image, ph, step>>
    BY <1>7 DEF Enter, SegmentRead, sectVars
  <2>2. /\ ph > 1 /\ \A k \in 1..ph-2 : SegmentIn(k)
        /\ Copying(image.segs[ph - 1].pa, image.segs[ph - 1].memsz, image.segs[ph - 1].offset)
    BY <2>1 DEF LoadInv
  <2>3. PICK k \in 1..Len(image.segs) : k = ph - 1 /\ k = Len(image.segs)
    BY <1>1, <2>1, <2>2
  <2>4. PICK p, n, off : IsSegment(k, p, n, off)
    BY <1>1, SegmentIs
  <2>5. Copying(p, n, off)
    BY <2>2, <2>3, <2>4 DEF IsSegment
  <2>6. SegmentIn(k)
    BY <1>1, <2>1, <2>4, <2>5, SegmentCopied
  <2>7. \A m \in 1..Len(image.segs) : m = k \/ m \in 1..ph-2
    BY <1>1, <2>3
  <2>8. Len(image.segs) > 0 /\ \A m \in 1..Len(image.segs) : SegmentIn(m)'
    BY <1>1, <2>1, <2>2, <2>3, <2>6, <2>7 DEF SegmentIn, diskVars
  <2>9. DiskInv'
    BY <1>1, <2>1, DiskStep
  <2> QED
    BY <2>1, <2>8, <2>9 DEF LoadInv, diskVars
<1>8. CASE ClearBss /\ UNCHANGED sectVars
  <2>1. /\ at = "entered" /\ at' = "running" /\ UNCHANGED <<image, ph>> /\ DiskInv'
    BY <1>1, <1>8 DEF ClearBss, DiskInv
  <2> QED
    BY <2>1 DEF LoadInv
<1>9. CASE ReadSections
  <2>1. /\ at = "running" /\ UNCHANGED <<image, at, ph>>
        /\ UNCHANGED diskVars \/ \E d, n : readsect(d, n)
    BY <1>9, SectionsStep
  <2>2. DiskInv'
    BY <1>1, <2>1, DiskStep
  <2> QED
    BY <2>1, <2>2 DEF LoadInv
<1> QED
  BY <1>2, <1>3, <1>4, <1>5, <1>6, <1>7, <1>8, <1>9, LoadSteps DEF BootNext

\* The kernel's image ends before kvbase.
LEMMA EndIs ==
  ASSUME WellLinked(image), Len(image.segs) > 0
  PROVE  /\ to_va \in Nat /\ kvbase \in Nat /\ to_va <= kvbase
         /\ \A k \in 1..Len(image.segs) :
              \A n \in 0..image.segs[k].memsz-1 :
                image.segs[k].pa + n \in Addr /\ image.segs[k].pa + n < to_va
<1>1. Len(image.segs) \in Nat /\ Len(image.segs) \in 1..Len(image.segs)
  BY DEF WellLinked
<1>2. PICK p, n, off : IsSegment(Len(image.segs), p, n, off)
  BY <1>1, SegmentIs
<1>3. to_va = p + n /\ p \in Nat /\ n \in Nat
  BY <1>2 DEF IsSegment, to_va, LastSeg
<1>4. kvbase \in Nat /\ to_va <= kvbase
  <2> DEFINE x == to_va + SECTSIZE - 1
  <2>1. x \in Nat /\ to_va \in Nat
    BY <1>3, SectSizeAssumption
  <2>2. kvbase = (x \div SECTSIZE) * SECTSIZE
    BY DEF kvbase
  <2>3. x = to_va + (SECTSIZE - 1)
    BY <2>1, SectSizeAssumption
  <2> HIDE DEF x
  <2>4. x = (x \div SECTSIZE) * SECTSIZE + (x % SECTSIZE) /\ x % SECTSIZE \in 0..SECTSIZE-1
        /\ (x \div SECTSIZE) * SECTSIZE \in Int
    <3>1. x \in Int
      BY <2>1
    <3>2. x = (x \div SECTSIZE) * SECTSIZE + (x % SECTSIZE) /\ x % SECTSIZE \in 0..SECTSIZE-1
          /\ x \div SECTSIZE \in Int
      BY <3>1, DivMod
    <3> QED
      BY <3>2, SectSizeAssumption
  <2> DEFINE y == (x \div SECTSIZE) * SECTSIZE
             z == x % SECTSIZE
  <2>5. x = y + z /\ z \in 0..SECTSIZE-1 /\ y \in Int /\ kvbase = y
    BY <2>2, <2>4
  <2> HIDE DEF y, z
  <2> QED
    BY <2>1, <2>3, <2>5, SectSizeAssumption
<1>5. ASSUME NEW k \in 1..Len(image.segs), NEW j \in 0..image.segs[k].memsz-1
      PROVE  image.segs[k].pa + j \in Addr /\ image.segs[k].pa + j < to_va
  <2>1. PICK sp, sn, so : IsSegment(k, sp, sn, so)
    BY <1>1, SegmentIs
  <2>2. sp \in Nat /\ sn \in Nat /\ sp + sn + SECTSIZE <= MemTop
    <3>1. sp \in Nat /\ sn \in Nat
      BY <2>1 DEF IsSegment
    <3> QED
      BY <2>1, <3>1, SegmentFacts
  <2>3. sp + sn <= p + n
    <3>1. CASE k = Len(image.segs)
      BY <1>2, <1>3, <2>1, <2>2, <3>1 DEF IsSegment
    <3>2. CASE k \in 1..Len(image.segs)-1
      <4>1. sp + sn <= p
        BY <1>1, <1>2, <2>1, <3>2, SegApart DEF IsSegment
      <4> QED
        BY <1>3, <2>2, <4>1
    <3> QED
      BY <1>1, <3>1, <3>2
  <2>4. j \in 0..sn-1 /\ image.segs[k].pa = sp
    BY <2>1 DEF IsSegment
  <2> QED
    BY <1>3, <2>2, <2>3, <2>4, SectSizeAssumption, MemTopAssumption DEF Addr
<1> QED
  BY <1>3, <1>4, <1>5

\* Clearing the uninitialised data leaves the image as it was linked.
LEMMA BssCleared ==
  ASSUME LoadInv, ClearBss PROVE LoadedAsLinked'
<1>1. /\ WellLinked(image) /\ Len(image.segs) \in Nat /\ Len(image.segs) > 0 /\ UNCHANGED image
      /\ \A k \in 1..Len(image.segs) : SegmentIn(k)
  BY DEF LoadInv, WellLinked, ClearBss
<1>2. Len(image.segs) \in 1..Len(image.segs)
  BY <1>1
<1> DEFINE t == LastSeg
<1>3. /\ t.pa \in Nat /\ t.filesz \in Nat /\ t.memsz \in Nat /\ t.filesz <= t.memsz
  BY <1>1, <1>2, SegIs DEF LastSeg
<1>4. \A a \in Addr : mem'[a] = IF a \in t.pa + t.filesz..t.pa + t.memsz - 1
                                  THEN Zeroed ELSE mem[a]
  BY DEF ClearBss
<1> SUFFICES ASSUME NEW k \in 1..Len(image.segs), NEW n \in 0..image.segs[k].memsz-1
             PROVE  mem'[image.segs[k].pa + n] =
                      IF n < image.segs[k].filesz THEN image.segs[k].offset + n ELSE Zeroed
  BY <1>1 DEF LoadedAsLinked
<1> DEFINE s == image.segs[k]
           a == s.pa + n
<1>5. /\ a \in Addr /\ mem[a] = s.offset + n
  BY <1>1, EndIs DEF SegmentIn
<1>6. s.pa \in Nat /\ s.memsz \in Nat /\ s.filesz \in Nat /\ s.filesz <= s.memsz
  BY <1>1, SegIs
<1>7. CASE k = Len(image.segs)
  <2>0. n \in 0..s.memsz-1
    OBVIOUS
  <2>1. s = t
    BY <1>7 DEF LastSeg
  <2>2. mem'[a] = IF a \in s.pa + s.filesz..s.pa + s.memsz - 1 THEN Zeroed ELSE mem[a]
    BY <1>4, <1>5, <2>1
  <2> HIDE DEF s
  <2>3. a \in s.pa + s.filesz..s.pa + s.memsz - 1 <=> ~(n < s.filesz)
    BY <1>6, <2>0
  <2> QED
    BY <1>5, <2>2, <2>3 DEF s
<1>8. CASE k \in 1..Len(image.segs)-1
  <2>1. s.filesz = s.memsz /\ s.pa + s.memsz <= t.pa
    BY <1>1, <1>2, <1>8, SegApart DEF LastSeg
  <2>2. n \in 0..s.memsz-1
    OBVIOUS
  <2>3. mem'[a] = IF a \in t.pa + t.filesz..t.pa + t.memsz - 1 THEN Zeroed ELSE mem[a]
    BY <1>4, <1>5
  <2> HIDE DEF s, t
  <2>4. a < t.pa + t.filesz /\ n < s.filesz
    BY <1>3, <1>6, <2>1, <2>2
  <2>5. a \notin t.pa + t.filesz..t.pa + t.memsz - 1
    BY <1>3, <1>6, <2>2, <2>4
  <2> QED
    BY <1>5, <2>3, <2>4, <2>5 DEF s
<1> QED
  BY <1>1, <1>7, <1>8

LEMMA AboveStep == LoadInv /\ AboveInv /\ [MachineNext]_machineVars => AboveInv'
<1> SUFFICES ASSUME LoadInv, AboveInv, [MachineNext]_machineVars PROVE AboveInv'
  OBVIOUS
<1>1. WellLinked(image) /\ DiskInv
  BY DEF LoadInv
<1>2. at = "running" => kvbase \in Nat /\ to_va <= kvbase /\ to_va \in Nat
  BY EndIs DEF LoadInv
<1>3. CASE UNCHANGED loadVars
  BY <1>3 DEF loadVars, bootVars, sectVars, diskVars, AboveInv, LoadedAsLinked, kvbase, to_va, LastSeg
<1>4. CASE (ReadHeader \/ ReadSector \/ BadMagic \/ LoadSegment \/ Enter) /\ UNCHANGED sectVars
  <2>1. at' # "running" /\ UNCHANGED kvoffset
    BY <1>4 DEF ReadHeader, ReadSector, BadMagic, LoadSegment, Enter, sectVars
  <2> QED
    BY <2>1 DEF AboveInv
<1>5. CASE ClearBss /\ UNCHANGED sectVars
  <2>1. LoadedAsLinked'
    BY <1>5, BssCleared
  <2>2. reading' = "idle" /\ step' = "start" /\ UNCHANGED kvoffset
    BY <1>5 DEF ClearBss, LoadInv, sectVars
  <2> QED
    BY <2>1, <2>2 DEF AboveInv
<1>6. CASE (Command \/ Transfer \/ DriveReady) /\ UNCHANGED rest
  <2>1. UNCHANGED <<image, at, pa, step, kvoffset, dst>> /\ (reading' # "idle" => reading # "idle")
    BY <1>6 DEF rest, segVars, Command, Transfer, DriveReady
  <2>2. kvbase' = kvbase
    BY <2>1 DEF kvbase, to_va, LastSeg
  <2>3. LoadedAsLinked => LoadedAsLinked'
    <3>1. CASE UNCHANGED mem
      BY <2>1, <3>1 DEF LoadedAsLinked
    <3>2. CASE Transfer
      <4> SUFFICES ASSUME at = "running", LoadedAsLinked,
                          NEW k \in 1..Len(image.segs), NEW n \in 0..image.segs[k].memsz-1
                   PROVE  mem'[image.segs[k].pa + n] = mem[image.segs[k].pa + n]
        BY <2>1 DEF LoadedAsLinked
      <4> DEFINE a == image.segs[k].pa + n
      <4>1. a \in Addr /\ a < to_va
        BY <1>1, EndIs DEF LoadInv
      <4>2. dst \in Nat /\ dst >= kvbase
        BY <3>2 DEF AboveInv, Transfer
      <4>3. mem' = Inserted(mem, dst, buffer)
        BY <3>2 DEF Transfer
      <4> HIDE DEF a
      <4>4. a \notin dst..dst+SECTSIZE-1
        BY <1>2, <4>1, <4>2 DEF Addr
      <4>5. mem'[a] = mem[a]
        BY <4>1, <4>3, <4>4 DEF Inserted
      <4> QED
        BY <4>5 DEF a
    <3> QED
      BY <1>6, <3>1, <3>2 DEF Command, DriveReady
  <2> QED
    BY <2>1, <2>2, <2>3 DEF AboveInv
<1>7. CASE ReadSections
  <2>1. at = "running" /\ UNCHANGED <<image, at>> /\ UNCHANGED mem
    BY <1>7, SectionsStep DEF diskVars, readsect
  <2>2. kvbase' = kvbase /\ LoadedAsLinked'
    BY <2>1 DEF kvbase, to_va, LastSeg, AboveInv, LoadedAsLinked
  <2>3. kvbase \in Nat /\ kvoffset \in Nat /\ SECTSIZE \in Nat
    BY <1>2, <2>1, SectSizeAssumption DEF AboveInv
  <2>4. CASE ReadHeaders \/ ReadNames \/ LoadSection
    <3>1. reading' = "idle"
      BY <2>4, <2>1 DEF ReadHeaders, ReadNames, LoadSection, AboveInv, AtLoop, SegDone, InSeg, diskVars
    <3>2. (pa' = kvbase \/ pa' = kvbase + kvoffset) /\ UNCHANGED kvoffset
      BY <2>4 DEF ReadHeaders, ReadNames, LoadSection, readseg_kv
    <3> QED
      BY <2>2, <2>3, <3>1, <3>2 DEF AboveInv
  <2>5. CASE NoteEhFrame \/ SkipSection \/ Return
    <3>1. /\ reading' = "idle" /\ UNCHANGED <<pa, kvoffset>>
          /\ step \in {"names", "section"}
      BY <2>5 DEF NoteEhFrame, SkipSection, Return, AtLoop, SegDone, InSeg, diskVars, segVars
    <3> QED
      BY <2>1, <2>2, <3>1 DEF AboveInv
  <2>6. CASE SegLoop \/ SegExtra
    <3>1. /\ step \in {"headers", "names", "section"} /\ step' = step
          /\ dst' = pa /\ (pa' = pa \/ pa' = pa + SECTSIZE) /\ kvoffset' = kvoffset + SECTSIZE
      BY <2>6 DEF SegLoop, SegExtra, InSeg, NextSector, readsect
    <3>2. pa \in Nat /\ pa >= kvbase
      BY <2>1, <3>1 DEF AboveInv
    <3> QED
      BY <2>1, <2>2, <2>3, <3>1, <3>2 DEF AboveInv
  <2> QED
    BY <1>7, <2>4, <2>5, <2>6 DEF ReadSections
<1> QED
  BY <1>3, <1>4, <1>5, <1>6, <1>7, LoadSteps DEF BootNext

\* When the kernel's C code starts, and as long as it reads its debug sections,
\* every segment is in memory as it was linked and the uninitialised data is
\* zero: for every image that is well linked and every size of a sector, whatever
\* the delays of the drive.
THEOREM LoadedAsLinkedCorrect == MachineSpec => []LoadedAsLinked
<1>1. MachineInit => LoadInv /\ AboveInv
  <2> SUFFICES ASSUME NEW m \in Machines, SectInit(m.image) PROVE LoadInv /\ AboveInv
    BY DEF MachineInit
  <2>1. WellLinked(image)
    BY MachinesAssumption DEF SectInit, BootInit
  <2>2. Len(image.segs) \in Nat
    BY <2>1 DEF WellLinked
  <2> QED
    BY <2>1, <2>2 DEF SectInit, BootInit, DiskInit, DiskInv, LoadInv, AboveInv
<1>2. LoadInv /\ AboveInv /\ [MachineNext]_machineVars => LoadInv' /\ AboveInv'
  BY LoadStep, AboveStep
<1>3. AboveInv => LoadedAsLinked
  BY DEF AboveInv, LoadedAsLinked
<1> QED
  BY <1>1, <1>2, <1>3, PTL DEF MachineSpec
-----------------------------------------------------------------------------
(* Reading the debug sections. *)

\* A multiple of the sector size.
Whole(a) == a \in Nat /\ a % SECTSIZE = 0

\* The end of what the kernel has read, and of what is in memory of it.
Top == kvbase + kvoffset
GotKv == IF reading = "idle" THEN Top ELSE dst

\* readseg(p, n, off) of elf_rw.c is under way.  Its last sector may have been
\* read or not.
KvCopying(p, n, off) ==
  /\ Whole(p) /\ p >= kvbase /\ n \in Nat /\ off \in Nat
  /\ end_pa = p + n /\ pa \in Nat /\ pa >= p /\ pa < end_pa + SECTSIZE
  /\ offset \in Nat /\ (offset - 1) * SECTSIZE = pa - p + RoundDown(off)
  /\ \/ orgoff = off /\ count = n /\ Top = pa
     \/ orgoff = 0 /\ count = 0 /\ Top = pa + SECTSIZE /\ pa >= end_pa
  /\ reading # "idle" => /\ dst = Top - SECTSIZE /\ dst >= p
                         /\ (sect - 1) * SECTSIZE = dst - p + RoundDown(off)
  /\ \A a \in p..GotKv-1 : a \in Addr => mem[a] = a - p + RoundDown(off)

\* n bytes of the file, from off on, are at a, below q.
Below(q, a, n, off) == a \in Nat /\ Claimed(a, off, n) /\ (n > 0 => a + n <= q)

TableIn(q) == Below(q, secthdr, NumSections, image.shoff)

NamesSect == image.sects[image.shstrndx + 1]
NamesIn(q) == Below(q, nametab, NamesSect.size, NamesSect.offset)

InfoIn(name, q) ==
  \E k \in 1..NumSections :
    /\ image.sects[k].name = name /\ section_info[name].size = image.sects[k].size
    /\ Below(q, section_info[name].data, image.sects[k].size, image.sects[k].offset)

DebugKnown == DOMAIN section_info \cap DebugNames

\* Nothing was written above what was read.
Untouched == \A a \in Addr : a >= Top => mem[a] = Other

NamesUnderWay(room) ==
  \E p \in 0..MemTop :
    /\ p <= kvbase + room /\ TableIn(p)
    /\ KvCopying(p, NamesSect.size, NamesSect.offset)
    /\ nametab = p + OffsetCorrect(NamesSect.offset)
    /\ DebugKnown = {}

SectionUnderWay(room) ==
  \E p \in 0..MemTop, k \in 1..i :
    LET s == image.sects[k]
    IN /\ p <= kvbase + (i + 1) * room /\ TableIn(p) /\ NamesIn(p)
       /\ KvCopying(p, s.size, s.offset)
       /\ s.name \in DebugKnown
       /\ section_info[s.name] = [data |-> p + OffsetCorrect(s.offset), size |-> s.size]
       /\ \A name \in DebugKnown \ {s.name} : InfoIn(name, p)

AllRead ==
  /\ TableIn(Top) /\ NamesIn(Top) /\ end_debug = Top
  /\ \A name \in DebugKnown : InfoIn(name, Top)

\* The inductive invariant of the whole of it.
SectInvAt(room) ==
  /\ WellSectioned(image) /\ Roomy(image, room)
  /\ Whole(pa) /\ Whole(kvoffset) /\ i \in 0..NumSections /\ Untouched
  /\ step \in {"start", "headers", "names", "section", "done"}
  /\ step \in {"start", "headers"} => i = 0 /\ DebugKnown = {}
  /\ step = "start" => kvoffset = 0
  /\ step = "headers" => KvCopying(kvbase, NumSections, image.shoff)
  /\ step = "names" => NamesUnderWay(room)
  /\ step = "section" => SectionUnderWay(room)
  /\ step = "done" => AllRead

SectInv == \E room \in 0..MemTop : SectInvAt(room)

LEMMA WholeIs == \A a \in Nat : Whole(a) <=> \E q \in Nat : a = q * SECTSIZE
<1> SUFFICES ASSUME NEW a \in Nat PROVE Whole(a) <=> \E q \in Nat : a = q * SECTSIZE
  OBVIOUS
<1>1. ASSUME Whole(a) PROVE \E q \in Nat : a = q * SECTSIZE
  <2> DEFINE q == a \div SECTSIZE
  <2>1. q \in Nat
    BY SectSizeAssumption
  <2>2. a = q * SECTSIZE + (a % SECTSIZE)
    BY DivMod
  <2>3. q * SECTSIZE \in Nat
    BY <2>1, SectSizeAssumption
  <2> HIDE DEF q
  <2>4. a = q * SECTSIZE
    BY <1>1, <2>2, <2>3 DEF Whole
  <2> QED
    BY <2>1, <2>4
<1>2. ASSUME NEW q \in Nat, a = q * SECTSIZE PROVE Whole(a)
  <2> DEFINE d == a \div SECTSIZE
             m == a % SECTSIZE
  <2>1. a = d * SECTSIZE + m /\ m \in 0..SECTSIZE-1 /\ d \in Int
    BY DivMod
  <2> HIDE DEF d, m
  <2>2. d * SECTSIZE \in Int /\ q * SECTSIZE \in Int /\ SECTSIZE \in Nat
    BY <2>1, SectSizeAssumption
  <2>3. CASE d < q
    <3>1. d * SECTSIZE + SECTSIZE <= q * SECTSIZE
      BY <2>1, <2>3, MulLess
    <3> QED
      BY <1>2, <2>1, <2>2, <3>1
  <2>4. CASE q < d
    <3>1. q * SECTSIZE + SECTSIZE <= d * SECTSIZE
      BY <2>1, <2>4, MulLess
    <3> QED
      BY <1>2, <2>1, <2>2, <3>1, SectSizeAssumption
  <2>5. CASE q = d
    <3>1. m = 0
      BY <1>2, <2>1, <2>2, <2>5
    <3> QED
      BY <3>1 DEF Whole, m
  <2> QED
    BY <2>1, <2>3, <2>4, <2>5
<1> QED
  BY <1>1, <1>2

LEMMA WholeAdd ==
  ASSUME NEW a, NEW b, Whole(a), Whole(b) PROVE Whole(a + b)
<1>1. a \in Nat /\ b \in Nat /\ a + b \in Nat
  BY DEF Whole
<1>2. PICK q \in Nat : a = q * SECTSIZE
  BY <1>1, WholeIs
<1>3. PICK r \in Nat : b = r * SECTSIZE
  BY <1>1, WholeIs
<1>4. a + b = (q + r) * SECTSIZE /\ q + r \in Nat
  BY <1>2, <1>3, SectSizeAssumption
<1> QED
  BY <1>1, <1>4, WholeIs

\* Two multiples that differ are a sector apart.
LEMMA WholeApart ==
  ASSUME NEW a, NEW b, Whole(a), Whole(b), a < b PROVE a + SECTSIZE <= b
<1>1. a \in Nat /\ b \in Nat
  BY DEF Whole
<1>2. PICK q \in Nat : a = q * SECTSIZE
  BY <1>1, WholeIs
<1>3. PICK r \in Nat : b = r * SECTSIZE
  BY <1>1, WholeIs
<1>4. q < r
  <2> SUFFICES ASSUME r <= q PROVE FALSE
    BY <1>2, <1>3
  <2>1. r = q \/ r * SECTSIZE + SECTSIZE <= q * SECTSIZE
    BY MulLess
  <2> QED
    BY <1>1, <1>2, <1>3, <2>1, SectSizeAssumption
<1> QED
  BY <1>2, <1>3, <1>4, MulLess

LEMMA WholeRound ==
  /\ Whole(SECTSIZE) /\ Whole(0)
  /\ \A a \in Nat : Whole(RoundDown(a))
<1>1. Whole(SECTSIZE) /\ Whole(0)
  <2>1. SECTSIZE = 1 * SECTSIZE /\ 0 = 0 * SECTSIZE /\ SECTSIZE \in Nat
    BY SectSizeAssumption
  <2> QED
    BY <2>1, WholeIs
<1>2. ASSUME NEW a \in Nat PROVE Whole(RoundDown(a))
  <2>1. RoundDown(a) = Sector(a) * SECTSIZE /\ RoundDown(a) \in Nat
    BY RoundDownIs
  <2>2. Sector(a) \in Nat
    BY SectSizeAssumption DEF Sector
  <2> QED
    BY <2>1, <2>2, WholeIs
<1> QED
  BY <1>1, <1>2

LEMMA KvbaseIs ==
  ASSUME WellLinked(image), Len(image.segs) > 0
  PROVE  Whole(kvbase) /\ kvbase < to_va + SECTSIZE
<1>1. to_va \in Nat /\ kvbase \in Nat
  BY EndIs
<1> DEFINE x == to_va + SECTSIZE - 1
<1>2. x \in Nat /\ kvbase = Sector(x) * SECTSIZE
  BY <1>1, SectSizeAssumption DEF kvbase, Sector
<1>3. x < to_va + SECTSIZE
  BY <1>1, SectSizeAssumption
<1> HIDE DEF x
<1>4. kvbase = RoundDown(x) /\ RoundDown(x) <= x
  BY <1>2, RoundDownIs
<1>5. Whole(kvbase)
  BY <1>2, <1>4, WholeRound
<1> QED
  BY <1>1, <1>2, <1>3, <1>4, <1>5, SectSizeAssumption

\* A call of the kernel's readseg, for the place after what was read so far.
LEMMA KvStarts ==
  ASSUME NEW p, NEW n \in Nat, NEW off \in Nat, Whole(p), p = Top, kvbase \in Nat, kvbase <= p,
         reading = "idle", readseg_kv(p, n, off), UNCHANGED <<diskVars, image, kvoffset>>
  PROVE  KvCopying(p, n, off)'
<1>1. /\ pa' = p /\ end_pa' = p + n /\ offset' = (off \div SECTSIZE) + 1
      /\ orgoff' = off /\ count' = n /\ reading' = "idle" /\ p \in Nat
  BY DEF readseg_kv, diskVars, Whole
<1>2. Top' = p /\ kvbase' = kvbase
  BY DEF Top, kvbase, to_va, LastSeg
<1>3. GotKv' = p
  BY <1>1, <1>2 DEF GotKv
<1>4. RoundDown(off) = Sector(off) * SECTSIZE /\ RoundDown(off) \in Nat
  BY RoundDownIs
<1>5. off \div SECTSIZE \in Nat
  BY SectSizeAssumption
<1>6. offset' \in Nat /\ (offset' - 1) * SECTSIZE = pa' - p + RoundDown(off)
  <2>1. offset' - 1 = off \div SECTSIZE /\ offset' \in Nat
    BY <1>1, <1>5
  <2>2. pa' - p + RoundDown(off) = RoundDown(off)
    BY <1>1, <1>4
  <2> QED
    BY <1>4, <2>1, <2>2 DEF Sector
<1> QED
  BY <1>1, <1>2, <1>3, <1>6, SectSizeAssumption DEF KvCopying

\* How much it reads.
LEMMA KvTop ==
  ASSUME NEW p, NEW n, NEW off, KvCopying(p, n, off), kvbase \in Nat, kvoffset \in Nat
  PROVE  /\ p \in Nat /\ n \in Nat /\ off \in Nat /\ RoundDown(off) \in Nat
         /\ Top \in Nat /\ p <= Top /\ Top < p + n + 2 * SECTSIZE
         /\ reading # "idle" => dst \in Nat /\ dst + SECTSIZE = Top /\ p <= dst
<1>1. p \in Nat /\ n \in Nat /\ off \in Nat /\ Top \in Nat /\ SECTSIZE \in Nat
  BY SectSizeAssumption DEF KvCopying, Whole, Top
<1>2. RoundDown(off) \in Nat
  BY <1>1, RoundDownIs
<1>3. /\ end_pa = p + n /\ pa >= p /\ pa < end_pa + SECTSIZE
      /\ Top = pa \/ Top = pa + SECTSIZE
      /\ reading # "idle" => dst = Top - SECTSIZE /\ dst >= p
  BY DEF KvCopying
<1>4. pa \in Nat
  BY DEF KvCopying
<1> QED
  BY <1>1, <1>2, <1>3, <1>4

LEMMA KvTransfer ==
  ASSUME NEW p, NEW n, NEW off, KvCopying(p, n, off), kvbase \in Nat, kvoffset \in Nat,
         DiskInv, Transfer
  PROVE  \A a \in Addr :
           mem'[a] = IF a \in dst..dst+SECTSIZE-1 THEN a - p + RoundDown(off) ELSE mem[a]
<1>1. /\ p \in Nat /\ RoundDown(off) \in Nat /\ dst \in Nat
  BY KvTop DEF Transfer
<1>2. /\ buffer = sect /\ mem' = Inserted(mem, dst, buffer)
      /\ (sect - 1) * SECTSIZE = dst - p + RoundDown(off)
  BY DEF DiskInv, KvCopying, Transfer
<1> SUFFICES ASSUME NEW a \in Addr
             PROVE  mem'[a] = IF a \in dst..dst+SECTSIZE-1 THEN a - p + RoundDown(off) ELSE mem[a]
  OBVIOUS
<1>3. mem'[a] = IF a \in dst..dst+SECTSIZE-1 THEN (buffer - 1) * SECTSIZE + (a - dst)
                ELSE mem[a]
  BY <1>2 DEF Inserted
<1>4. dst - p + RoundDown(off) + (a - dst) = a - p + RoundDown(off)
  BY <1>1 DEF Addr
<1> QED
  BY <1>2, <1>3, <1>4

\* A turn of its loop, its last sector, and the steps of readsect.
KvSector ==
  /\ readsect(pa, offset) /\ kvoffset' = kvoffset + SECTSIZE
  /\ \/ /\ pa < end_pa /\ pa' = pa + SECTSIZE /\ offset' = offset + 1
        /\ UNCHANGED <<orgoff, count>>
     \/ /\ pa >= end_pa /\ NeedsExtra /\ orgoff' = 0 /\ count' = 0
        /\ UNCHANGED <<pa, offset>>

KvDisk ==
  /\ Command \/ Transfer \/ DriveReady
  /\ UNCHANGED <<pa, offset, orgoff, count, kvoffset>>

LEMMA KvGoesOn ==
  ASSUME NEW p, NEW n, NEW off, KvCopying(p, n, off), kvbase \in Nat, kvoffset \in Nat,
         DiskInv, UNCHANGED <<end_pa, image>>, KvSector \/ KvDisk
  PROVE  KvCopying(p, n, off)'
<1>1. /\ p \in Nat /\ n \in Nat /\ off \in Nat /\ RoundDown(off) \in Nat
      /\ Top \in Nat /\ p <= Top
      /\ reading # "idle" => dst \in Nat /\ dst + SECTSIZE = Top /\ p <= dst
  BY KvTop
<1>2. kvbase' = kvbase /\ SECTSIZE \in Nat /\ SECTSIZE > 0
  BY SectSizeAssumption DEF kvbase, to_va, LastSeg
<1>3. /\ Whole(p) /\ p >= kvbase
      /\ end_pa = p + n /\ pa \in Nat /\ pa >= p /\ pa < end_pa + SECTSIZE
      /\ offset \in Nat /\ (offset - 1) * SECTSIZE = pa - p + RoundDown(off)
      /\ \/ orgoff = off /\ count = n /\ Top = pa
         \/ orgoff = 0 /\ count = 0 /\ Top = pa + SECTSIZE /\ pa >= end_pa
  BY DEF KvCopying
<1>4. \A a \in p..GotKv-1 : a \in Addr => mem[a] = a - p + RoundDown(off)
  BY DEF KvCopying
<1>5. CASE KvSector
  <2>1. /\ reading = "idle" /\ reading' = "select" /\ dst' = pa /\ sect' = offset /\ mem' = mem
    BY <1>5 DEF readsect, KvSector
  <2>2. orgoff = off /\ count = n /\ Top = pa
    <3>1. OffsetCorrect(0) + 0 <= SECTSIZE
      BY SectSizeAssumption DEF OffsetCorrect
    <3>2. orgoff = 0 /\ count = 0 => ~NeedsExtra
      BY <1>2, <3>1, SectSizeAssumption DEF NeedsExtra, OffsetCorrect
    <3> QED
      BY <1>3, <1>5, <3>2 DEF KvSector
  <2>3. Top' = Top + SECTSIZE
    BY <1>2, <1>5 DEF Top, KvSector
  <2>4. GotKv = pa /\ GotKv' = pa
    BY <2>1, <2>2 DEF GotKv
  <2>5. \A a \in p..GotKv'-1 : a \in Addr => mem'[a] = a - p + RoundDown(off)
    BY <1>4, <2>1, <2>4
  <2>6. /\ dst' = Top' - SECTSIZE /\ dst' >= p
        /\ (sect' - 1) * SECTSIZE = dst' - p + RoundDown(off)
    BY <1>1, <1>2, <1>3, <2>1, <2>2, <2>3
  <2>7. CASE pa < end_pa
    <3>1. pa' = pa + SECTSIZE /\ offset' = offset + 1 /\ orgoff' = off /\ count' = n
      BY <1>1, <1>3, <1>5, <2>2, <2>7 DEF KvSector
    <3>2. (offset + 1 - 1) * SECTSIZE = (offset - 1) * SECTSIZE + SECTSIZE
      BY <1>2, <1>3
    <3>3. (offset' - 1) * SECTSIZE = pa' - p + RoundDown(off)
      BY <1>1, <1>2, <1>3, <3>1, <3>2
    <3>4. pa' \in Nat /\ pa' >= p /\ pa' < end_pa' + SECTSIZE /\ offset' \in Nat /\ Top' = pa'
      BY <1>1, <1>2, <1>3, <2>2, <2>3, <2>7, <3>1
    <3> QED
      BY <1>1, <1>2, <1>3, <2>5, <2>6, <3>1, <3>3, <3>4 DEF KvCopying
  <2>8. CASE pa >= end_pa
    <3>1. pa' = pa /\ offset' = offset /\ orgoff' = 0 /\ count' = 0
      BY <1>1, <1>3, <1>5, <2>8 DEF KvSector
    <3> QED
      BY <1>1, <1>2, <1>3, <2>2, <2>3, <2>5, <2>6, <2>8, <3>1 DEF KvCopying
  <2> QED
    BY <1>1, <1>3, <2>7, <2>8
<1>6. CASE KvDisk
  <2>1. UNCHANGED <<dst, sect>> /\ (reading' # "idle" => reading # "idle")
    BY <1>6 DEF Command, Transfer, DriveReady, KvDisk
  <2>2. Top' = Top
    BY <1>2, <1>6 DEF Top, KvDisk
  <2>3. \A a \in p..GotKv'-1 : a \in Addr => mem'[a] = a - p + RoundDown(off)
    <3>1. CASE Transfer
      <4>1. GotKv = dst /\ GotKv' = Top /\ reading # "idle"
        BY <2>2, <3>1 DEF GotKv, Transfer
      <4> SUFFICES ASSUME NEW a \in p..Top-1, a \in Addr
                   PROVE  mem'[a] = a - p + RoundDown(off)
        BY <4>1
      <4>2. mem'[a] = IF a \in dst..dst+SECTSIZE-1 THEN a - p + RoundDown(off) ELSE mem[a]
        BY <3>1, KvTransfer
      <4>3. CASE a < dst
        BY <1>1, <1>4, <4>1, <4>2, <4>3
      <4>4. CASE a >= dst
        BY <1>1, <1>2, <4>1, <4>2, <4>4
      <4> QED
        BY <1>1, <4>1, <4>3, <4>4
    <3>2. CASE Command \/ DriveReady
      <4>1. mem' = mem /\ GotKv' = GotKv
        BY <2>1, <2>2, <3>2 DEF Command, DriveReady, GotKv
      <4> QED
        BY <1>4, <4>1
    <3> QED
      BY <1>6, <3>1, <3>2 DEF KvDisk
  <2> QED
    BY <1>1, <1>2, <1>3, <1>6, <2>1, <2>2, <2>3 DEF KvCopying, KvDisk
<1> QED
  BY <1>5, <1>6

\* When it is done, all bytes asked for are in memory.
LEMMA KvDone ==
  ASSUME NEW p, NEW n, NEW off, KvCopying(p, n, off), kvbase \in Nat, kvoffset \in Nat,
         Whole(pa), SegDone, Top <= MemTop
  PROVE  Below(Top, p + OffsetCorrect(off), n, off)
<1> DEFINE o == OffsetCorrect(off)
<1>1. /\ p \in Nat /\ n \in Nat /\ off \in Nat /\ Top \in Nat
  BY KvTop
<1>2. o \in 0..SECTSIZE-1 /\ SECTSIZE \in Nat /\ RoundDown(off) = off - o
  BY <1>1, DivMod, SectSizeAssumption DEF OffsetCorrect, RoundDown
<1> HIDE DEF o
<1>3. /\ reading = "idle" /\ pa >= p + n /\ pa \in Nat /\ ~NeedsExtra
      /\ \/ orgoff = off /\ count = n /\ Top = pa
         \/ Top = pa + SECTSIZE
  BY DEF KvCopying, SegDone, InSeg
<1>4. \A a \in p..Top-1 : a \in Addr => mem[a] = a - p + RoundDown(off)
  BY <1>3 DEF KvCopying, GotKv
<1>5. ASSUME n > 0 PROVE p + o + n <= Top
  <2>1. CASE Top = pa + SECTSIZE
    BY <1>1, <1>2, <1>3, <2>1
  <2>2. CASE orgoff = off /\ count = n /\ Top = pa
    <3>1. o + n <= SECTSIZE
      BY <1>1, <1>2, <1>3, <2>2 DEF NeedsExtra, o
    <3>2. Whole(p) /\ p < pa
      BY <1>1, <1>3, <1>5 DEF KvCopying
    <3>3. p + SECTSIZE <= pa
      BY <3>2, WholeApart
    <3> QED
      BY <1>1, <1>2, <1>3, <2>2, <3>1, <3>3
  <2> QED
    BY <1>3, <2>1, <2>2
<1>6. ASSUME NEW j \in 0..n-1 PROVE mem[p + o + j] = off + j
  <2> DEFINE a == p + o + j
  <2>1. n > 0
    BY <1>1
  <2>2. a \in p..Top-1 /\ a \in Addr /\ a - p + (off - o) = off + j
    BY <1>1, <1>2, <1>5, <2>1, MemTopAssumption DEF Addr
  <2> HIDE DEF a
  <2>3. mem[a] = a - p + (off - o)
    BY <1>2, <1>4, <2>2
  <2> QED
    BY <2>2, <2>3 DEF a
<1> QED
  BY <1>1, <1>2, <1>5, <1>6 DEF Below, Claimed, o

\* What lies below the sector that is transferred stays.
LEMMA BelowStays ==
  ASSUME NEW q \in Nat, NEW a, NEW n \in Nat, NEW off, Below(q, a, n, off),
         \/ UNCHANGED mem
         \/ Transfer /\ dst \in Nat /\ q <= dst /\ dst <= MemTop
  PROVE  Below(q, a, n, off)'
<1>1. CASE UNCHANGED mem
  BY <1>1 DEF Below, Claimed
<1>2. CASE Transfer /\ dst \in Nat /\ q <= dst /\ dst <= MemTop
  <2>1. /\ a \in Nat /\ (n > 0 => a + n <= q) /\ mem' = Inserted(mem, dst, buffer)
        /\ \A j \in 0..n-1 : mem[a + j] = off + j
    BY <1>2 DEF Below, Claimed, Transfer
  <2>2. ASSUME NEW j \in 0..n-1 PROVE mem'[a + j] = off + j
    <3> DEFINE b == a + j
    <3>1. n > 0 /\ b \in Nat /\ b < q
      BY <2>1
    <3>2. mem[b] = off + j
      BY <2>1
    <3> HIDE DEF b
    <3>3. b \in Addr /\ b \notin dst..dst+SECTSIZE-1
      BY <1>2, <3>1, MemTopAssumption DEF Addr
    <3>4. mem'[b] = mem[b]
      BY <2>1, <3>3 DEF Inserted
    <3> QED
      BY <3>2, <3>4 DEF b
  <2> QED
    BY <2>1, <2>2 DEF Below, Claimed
<1> QED
  BY <1>1, <1>2

\* Memory has room for c sections of the largest size after the kernel.
LEMMA Fits ==
  ASSUME WellLinked(image), Len(image.segs) > 0, NEW room \in Nat, Roomy(image, room),
         NumSections \in Nat, NEW c \in Nat, c <= NumSections + 2
  PROVE  kvbase + c * room <= MemTop
<1>1. to_va \in Nat /\ kvbase \in Nat /\ kvbase < to_va + SECTSIZE
  BY EndIs, KvbaseIs
<1>2. PICK N \in Nat : N = NumSections
  OBVIOUS
<1>3. to_va + SECTSIZE + (N + 2) * room <= MemTop
  BY <1>2 DEF Roomy, to_va, LastSeg, NumSections
<1>4. PICK d \in Nat : N + 2 = c + d
  <2>1. N + 2 - c \in Nat /\ N + 2 = c + (N + 2 - c)
    BY <1>2
  <2> QED
    BY <2>1
<1>5. (N + 2) * room = c * room + room * d
  BY <1>4, Distribute
<1>6. c * room \in Nat /\ room * d \in Nat
  BY <1>4
<1> QED
  BY <1>1, <1>3, <1>5, <1>6, SectSizeAssumption, MemTopAssumption

\* Every segment ends before the end of the kernel.
LEMMA SegEnds ==
  ASSUME WellLinked(image), Len(image.segs) > 0, NEW k \in 1..Len(image.segs),
         NEW p, NEW n, NEW off, IsSegment(k, p, n, off)
  PROVE  p + n <= to_va
<1>1. Len(image.segs) \in Nat /\ Len(image.segs) \in 1..Len(image.segs)
  BY DEF WellLinked
<1>2. PICK lp, ln, lo : IsSegment(Len(image.segs), lp, ln, lo)
  BY <1>1, SegmentIs
<1>3. to_va = lp + ln /\ lp \in Nat /\ ln \in Nat /\ p \in Nat /\ n \in Nat
  BY <1>2 DEF IsSegment, to_va, LastSeg
<1>4. CASE k = Len(image.segs)
  BY <1>2, <1>3, <1>4 DEF IsSegment
<1>5. CASE k \in 1..Len(image.segs)-1
  <2>1. p + n <= lp
    BY <1>1, <1>2, <1>5, SegApart DEF IsSegment
  <2> QED
    BY <1>3, <2>1
<1> QED
  BY <1>1, <1>4, <1>5

\* With the section headers in memory, the code reads the header it means.
LEMMA SectHeaderIs ==
  ASSUME WellSectioned(image), NEW q, TableIn(q), NEW k \in 0..NumSections-1
  PROVE  /\ SectHeaderAt(k) = image.sects[k + 1] /\ k + 1 \in 1..NumSections
         /\ image.sects[k + 1].size \in Nat /\ image.sects[k + 1].offset \in Nat
<1>1. image.sects \in Seq(SectHeader) /\ image.shoff \in Nat /\ NumSections \in Nat
  BY DEF WellSectioned, NumSections
<1>2. PICK off \in Nat : off = image.shoff
  BY <1>1
<1>3. mem[secthdr + k] = off + k
  BY <1>2 DEF TableIn, Below, Claimed
<1>4. mem[secthdr + k] - image.shoff + 1 = k + 1 /\ k + 1 \in 1..NumSections
  BY <1>1, <1>2, <1>3
<1>5. image.sects[k + 1] \in SectHeader
  BY <1>1, <1>4 DEF NumSections
<1> QED
  BY <1>4, <1>5 DEF SectHeaderAt, SectHeader

\* What the kernel's readseg reads of a section is not more than there is room for.
LEMMA KvRoom ==
  ASSUME NEW p, NEW n, NEW off, KvCopying(p, n, off), kvbase \in Nat, kvoffset \in Nat,
         NEW room \in Nat, n + 2 * SECTSIZE <= room, NEW c \in Nat, p <= kvbase + c * room
  PROVE  Top \in Nat /\ Top <= kvbase + (c + 1) * room
<1>1. p \in Nat /\ n \in Nat /\ Top \in Nat /\ Top < p + n + 2 * SECTSIZE
  BY KvTop
<1>2. (c + 1) * room = c * room + room * 1
  BY Distribute
<1>3. c * room \in Nat
  OBVIOUS
<1> QED
  BY <1>1, <1>2, <1>3, SectSizeAssumption

\* What happens in a step to the memory below q.
Spares(q) == UNCHANGED mem \/ (Transfer /\ dst \in Nat /\ q <= dst /\ dst <= MemTop)

LEMMA SectIs ==
  ASSUME WellSectioned(image)
  PROVE  /\ NumSections \in Nat /\ image.shoff \in Nat
         /\ image.shstrndx \in 0..NumSections-1
         /\ \A k \in 1..NumSections : image.sects[k].size \in Nat /\ image.sects[k].offset \in Nat
         /\ NamesSect.size \in Nat /\ NamesSect.offset \in Nat
<1>1. image.sects \in Seq(SectHeader) /\ image.shoff \in Nat /\ NumSections \in Nat
  BY DEF WellSectioned, NumSections
<1>2. image.shstrndx \in 0..NumSections-1
  BY DEF WellSectioned, NumSections
<1>3. ASSUME NEW k \in 1..NumSections
      PROVE  image.sects[k].size \in Nat /\ image.sects[k].offset \in Nat
  <2>1. image.sects[k] \in SectHeader
    BY <1>1 DEF NumSections
  <2> QED
    BY <2>1 DEF SectHeader
<1>4. image.shstrndx + 1 \in 1..NumSections
  BY <1>1, <1>2
<1> QED
  BY <1>1, <1>2, <1>3, <1>4 DEF NamesSect

LEMMA TableStays ==
  ASSUME NEW q \in Nat, WellSectioned(image), TableIn(q), UNCHANGED image, Spares(q)
  PROVE  TableIn(q)'
<1>1. PICK a, n, off : n \in Nat /\ a = secthdr /\ n = NumSections /\ off = image.shoff
  BY SectIs
<1>2. Below(q, a, n, off)
  BY <1>1 DEF TableIn
<1>3. Below(q, a, n, off)'
  BY <1>1, <1>2, BelowStays DEF Spares
<1>4. secthdr' = secthdr /\ NumSections' = NumSections
  BY DEF secthdr, NumSections, kvbase, to_va, LastSeg
<1> QED
  BY <1>1, <1>3, <1>4 DEF TableIn, Below, Claimed

LEMMA NamesStay ==
  ASSUME NEW q \in Nat, WellSectioned(image), NamesIn(q), UNCHANGED <<image, nametab>>, Spares(q)
  PROVE  NamesIn(q)'
<1>1. PICK a, n, off : n \in Nat /\ a = nametab /\ n = NamesSect.size /\ off = NamesSect.offset
  BY SectIs
<1>2. Below(q, a, n, off)
  BY <1>1 DEF NamesIn
<1>3. Below(q, a, n, off)'
  BY <1>1, <1>2, BelowStays DEF Spares
<1>4. NamesSect' = NamesSect
  BY DEF NamesSect
<1> QED
  BY <1>1, <1>3, <1>4 DEF NamesIn, Below, Claimed

LEMMA InfoStays ==
  ASSUME NEW q \in Nat, WellSectioned(image), NEW name, InfoIn(name, q), UNCHANGED image,
         section_info'[name] = section_info[name], Spares(q)
  PROVE  InfoIn(name, q)'
<1>1. PICK k \in 1..NumSections :
        /\ image.sects[k].name = name /\ section_info[name].size = image.sects[k].size
        /\ Below(q, section_info[name].data, image.sects[k].size, image.sects[k].offset)
  BY DEF InfoIn
<1>2. PICK a, n, off : /\ a = section_info[name].data /\ n = image.sects[k].size /\ n \in Nat
                        /\ off = image.sects[k].offset
  BY SectIs
<1>3. Below(q, a, n, off)
  BY <1>1, <1>2
<1>4. Below(q, a, n, off)'
  BY <1>2, <1>3, BelowStays DEF Spares
<1>5. /\ k \in 1..NumSections' /\ image'.sects[k] = image.sects[k]
      /\ image.sects[k].name = name /\ section_info'[name].size = image.sects[k].size
  BY <1>1 DEF NumSections
<1> QED
  BY <1>2, <1>4, <1>5 DEF InfoIn, Below, Claimed

\* What is below q is below what is above q.
LEMMA BelowMore ==
  ASSUME NEW q \in Nat, NEW r \in Nat, q <= r, NEW a, NEW n \in Nat, NEW off, Below(q, a, n, off)
  PROVE  Below(r, a, n, off)
BY DEF Below

LEMMA AllMore ==
  ASSUME NEW q \in Nat, NEW r \in Nat, q <= r, WellSectioned(image)
  PROVE  /\ TableIn(q) => TableIn(r)
         /\ NamesIn(q) => NamesIn(r)
         /\ \A name : InfoIn(name, q) => InfoIn(name, r)
<1>1. TableIn(q) => TableIn(r)
  BY SectIs, BelowMore DEF TableIn
<1>2. NamesIn(q) => NamesIn(r)
  BY SectIs, BelowMore DEF NamesIn
<1>3. ASSUME NEW name, InfoIn(name, q) PROVE InfoIn(name, r)
  BY <1>3, SectIs, BelowMore DEF InfoIn
<1> QED
  BY <1>1, <1>2, <1>3
LEMMA KvSame ==
  ASSUME NEW p, NEW n, NEW off, KvCopying(p, n, off),
         UNCHANGED <<mem, reading, dst, sect, image, kvoffset, segVars>>
  PROVE  KvCopying(p, n, off)'
<1>1. kvbase' = kvbase /\ Top' = Top /\ GotKv' = GotKv
  BY DEF kvbase, to_va, LastSeg, Top, GotKv
<1> QED
  BY <1>1 DEF KvCopying, segVars

\* A step of the kernel's readseg, for a section of which there is room for.
LEMMA KvStep ==
  ASSUME LoadInv, AboveInv, at = "running", NEW room \in Nat, WellSectioned(image),
         Roomy(image, room), Untouched, Whole(pa), Whole(kvoffset),
         NEW p, NEW n, NEW off, KvCopying(p, n, off), n + 2 * SECTSIZE <= room,
         NEW c \in Nat, c <= NumSections + 1, p <= kvbase + c * room,
         UNCHANGED <<end_pa, image>>, KvSector \/ KvDisk
  PROVE  /\ KvCopying(p, n, off)' /\ Spares(p) /\ Untouched' /\ Whole(pa') /\ Whole(kvoffset')
         /\ p \in Nat
<1>1. /\ WellLinked(image) /\ DiskInv /\ Len(image.segs) > 0 /\ kvoffset \in Nat
      /\ NumSections \in Nat
  BY SectIs DEF LoadInv, AboveInv
<1>2. kvbase \in Nat /\ kvbase' = kvbase
  BY <1>1, EndIs DEF kvbase, to_va, LastSeg
<1>3. KvCopying(p, n, off)'
  BY <1>1, <1>2, KvGoesOn
<1>4. /\ p \in Nat /\ Top \in Nat
      /\ reading # "idle" => dst \in Nat /\ dst + SECTSIZE = Top /\ p <= dst
  BY <1>1, <1>2, KvTop
<1>5. Top <= MemTop
  <2>1. Top <= kvbase + (c + 1) * room
    BY <1>1, <1>2, KvRoom
  <2>2. c + 1 \in Nat /\ c + 1 <= NumSections + 2
    BY <1>1
  <2>3. kvbase + (c + 1) * room <= MemTop
    BY <1>1, <2>2, Fits
  <2>4. (c + 1) * room \in Nat
    BY <2>2
  <2> QED
    BY <1>2, <1>4, <2>1, <2>3, <2>4, MemTopAssumption
<1>6. Spares(p)
  <2>1. CASE Transfer
    <3>1. reading # "idle"
      BY <2>1 DEF Transfer
    <3> QED
      BY <2>1, <3>1, <1>4, <1>5, SectSizeAssumption, MemTopAssumption DEF Spares
  <2>2. CASE ~Transfer
    BY <2>2 DEF KvSector, KvDisk, readsect, Command, DriveReady, Spares
  <2> QED
    BY <2>1, <2>2
<1>7. Whole(pa') /\ Whole(kvoffset')
  BY WholeAdd, WholeRound DEF KvSector, KvDisk
<1>8. Top' \in Nat /\ Top' >= Top
  BY <1>1, <1>2, SectSizeAssumption DEF Top, KvSector, KvDisk
<1>9. ASSUME NEW a \in Addr, a >= Top' PROVE mem'[a] = Other
  <2>1. a >= Top /\ mem[a] = Other
    BY <1>4, <1>8, <1>9 DEF Untouched, Addr
  <2>2. CASE UNCHANGED mem
    BY <2>1, <2>2
  <2>3. CASE Transfer
    <3>1. dst \in Nat /\ dst + SECTSIZE = Top /\ mem' = Inserted(mem, dst, buffer)
      BY <2>3, <1>4 DEF Transfer
    <3>2. a \notin dst..dst+SECTSIZE-1
      BY <2>1, <3>1, SectSizeAssumption DEF Addr
    <3> QED
      BY <2>1, <3>1, <3>2 DEF Inserted
  <2> QED
    BY <1>6, <2>2, <2>3 DEF Spares
<1> QED
  BY <1>3, <1>4, <1>6, <1>7, <1>9 DEF Untouched
\* The three calls of it: the steps within one.
LEMMA SectGoesOn ==
  ASSUME LoadInv, AboveInv, NEW room \in 0..MemTop, SectInvAt(room),
         step \in {"headers", "names", "section"},
         \/ (Command \/ Transfer \/ DriveReady) /\ UNCHANGED rest
         \/ SegLoop \/ SegExtra
  PROVE  SectInvAt(room)'
<1>1. /\ UNCHANGED <<image, at, step, i, nametab, section_info, end_pa>>
      /\ KvSector \/ KvDisk
  BY DEF rest, segVars, SegLoop, SegExtra, NextSector, KvSector, KvDisk
<1>2. at = "running"
  BY DEF LoadInv
<1>3. /\ room \in Nat /\ WellSectioned(image) /\ Roomy(image, room) /\ NumSections \in Nat
      /\ Untouched /\ Whole(pa) /\ Whole(kvoffset) /\ i \in 0..NumSections
  BY MemTopAssumption, SectIs DEF SectInvAt
<1>4. WellSectioned(image') /\ Roomy(image', room) /\ NumSections' = NumSections
      /\ DebugKnown' = DebugKnown /\ NamesSect' = NamesSect
  BY <1>1, <1>3 DEF NumSections, DebugKnown, NamesSect
<1>5. kvbase' = kvbase /\ kvbase \in Nat
  BY <1>1, <1>2, EndIs DEF LoadInv, kvbase, to_va, LastSeg
<1>6. CASE step = "headers"
  <2>1. PICK p, n, off : p = kvbase /\ n = NumSections /\ off = image.shoff
    OBVIOUS
  <2>2. KvCopying(p, n, off) /\ n + 2 * SECTSIZE <= room
    BY <1>6, <1>3, <2>1 DEF SectInvAt, Roomy, NumSections
  <2>3. p <= kvbase + 0 * room /\ 0 <= NumSections + 1
    BY <1>3, <1>5, <2>1
  <2>4. KvCopying(p, n, off)' /\ Untouched' /\ Whole(pa') /\ Whole(kvoffset')
    BY <1>1, <1>2, <1>3, <2>2, <2>3, KvStep
  <2>5. KvCopying(kvbase, NumSections, image.shoff)'
    BY <1>1, <1>4, <1>5, <2>1, <2>4 DEF KvCopying
  <2> QED
    BY <1>1, <1>3, <1>4, <1>6, <2>4, <2>5 DEF SectInvAt
<1>7. CASE step = "names"
  <2>1. PICK p \in 0..MemTop :
          /\ p <= kvbase + room /\ TableIn(p)
          /\ KvCopying(p, NamesSect.size, NamesSect.offset)
          /\ nametab = p + OffsetCorrect(NamesSect.offset)
          /\ DebugKnown = {}
    BY <1>7 DEF SectInvAt, NamesUnderWay
  <2>2. PICK n, off : n = NamesSect.size /\ off = NamesSect.offset
    OBVIOUS
  <2>3. n + 2 * SECTSIZE <= room
    <3>1. image.shstrndx + 1 \in 1..NumSections
      BY <1>3, SectIs
    <3> QED
      BY <1>3, <2>2, <3>1 DEF Roomy, NamesSect, NumSections
  <2>4. p <= kvbase + 1 * room /\ 1 <= NumSections + 1
    BY <1>3, <2>1
  <2>5. /\ KvCopying(p, n, off)' /\ Untouched' /\ Whole(pa') /\ Whole(kvoffset')
        /\ Spares(p) /\ p \in Nat
    BY <1>1, <1>2, <1>3, <2>1, <2>2, <2>3, <2>4, KvStep
  <2>6. TableIn(p)'
    BY <1>1, <1>3, <2>1, <2>5, TableStays
  <2>7. KvCopying(p, NamesSect.size, NamesSect.offset)'
    BY <1>4, <2>2, <2>5 DEF KvCopying
  <2>8. NamesUnderWay(room)'
    BY <1>1, <1>4, <1>5, <2>1, <2>6, <2>7 DEF NamesUnderWay
  <2> QED
    BY <1>1, <1>3, <1>4, <1>7, <2>5, <2>8 DEF SectInvAt
<1>8. CASE step = "section"
  <2>1. PICK p \in 0..MemTop, k \in 1..i :
          LET s == image.sects[k]
          IN /\ p <= kvbase + (i + 1) * room /\ TableIn(p) /\ NamesIn(p)
             /\ KvCopying(p, s.size, s.offset)
             /\ s.name \in DebugKnown
             /\ section_info[s.name] = [data |-> p + OffsetCorrect(s.offset), size |-> s.size]
             /\ \A name \in DebugKnown \ {s.name} : InfoIn(name, p)
    BY <1>8 DEF SectInvAt, SectionUnderWay
  <2>0. PICK n, off, c : n = image.sects[k].size /\ off = image.sects[k].offset /\ c = i + 1
    OBVIOUS
  <2>2. c \in Nat /\ c <= NumSections + 1 /\ k \in 1..NumSections
    BY <1>3, <2>0
  <2>3. n + 2 * SECTSIZE <= room
    BY <1>3, <2>0, <2>2 DEF Roomy, NumSections
  <2>4. p <= kvbase + c * room /\ KvCopying(p, n, off)
    BY <2>0, <2>1, <2>2
  <2>5. /\ KvCopying(p, n, off)' /\ Untouched' /\ Whole(pa') /\ Whole(kvoffset')
        /\ Spares(p) /\ p \in Nat
    BY <1>1, <1>2, <1>3, <2>2, <2>3, <2>4, KvStep
  <2>6. TableIn(p)' /\ NamesIn(p)'
    BY <1>1, <1>3, <2>1, <2>5, TableStays, NamesStay
  <2>7. \A name \in DebugKnown \ {image.sects[k].name} : InfoIn(name, p)'
    BY <1>1, <1>3, <2>1, <2>5, InfoStays
  <2>8. SectionUnderWay(room)'
    <3>1. p <= kvbase' + (i' + 1) * room
      BY <1>1, <1>5, <2>1
    <3>2. image'.sects[k] = image.sects[k] /\ k \in 1..i'
      BY <1>1
    <3>3. KvCopying(p, image.sects[k].size, image.sects[k].offset)'
      BY <1>1, <2>0, <2>5 DEF KvCopying
    <3> QED
      BY <1>1, <1>4, <2>1, <2>6, <2>7, <3>1, <3>2, <3>3 DEF SectionUnderWay
  <2> QED
    BY <1>1, <1>3, <1>4, <1>8, <2>5, <2>8 DEF SectInvAt
<1> QED
  BY <1>6, <1>7, <1>8
\* The boot loader leaves the memory after the kernel alone.
LEMMA BootBelow ==
  ASSUME LoadInv, WellSectioned(image), Whole(pa), at # "running", Transfer
  PROVE  dst \in Nat /\ dst + SECTSIZE <= kvbase
<1>1. /\ WellLinked(image) /\ ph \in 1..Len(image.segs)+1 /\ Len(image.segs) \in Nat
      /\ Len(image.segs) > 0
  BY DEF LoadInv, WellLinked, WellSectioned
<1>2. to_va \in Nat /\ kvbase \in Nat /\ to_va <= kvbase /\ Whole(kvbase)
  BY <1>1, EndIs, KvbaseIs
<1>3. PICK p, n, off : /\ Copying(p, n, off) /\ p \in Nat /\ n \in Nat
                       /\ p + n <= to_va
  <2>1. CASE at = "header"
    <3>1. 1 \in 1..Len(image.segs)
      BY <1>1
    <3>2. PICK p, n, off : IsSegment(1, p, n, off)
      BY <1>1, <3>1, SegmentIs
    <3>3. /\ ELFHDR + SECTSIZE * HdrSectors <= RoundDown(p) /\ RoundDown(p) <= p
          /\ RoundDown(p) \in Nat /\ p + n <= to_va /\ p \in Nat /\ n \in Nat
      BY <1>1, <3>1, <3>2, SegmentFacts, SegEnds DEF IsSegment
    <3>4. ELFHDR \in Nat /\ SECTSIZE * HdrSectors \in Nat
      BY ElfHdrAssumption, HdrAssumption, SectSizeAssumption
    <3>5. ELFHDR + SECTSIZE * HdrSectors <= to_va
      BY <1>2, <3>3, <3>4
    <3> QED
      BY <2>1, <3>4, <3>5 DEF LoadInv
  <2>2. CASE at = "segment"
    <3>1. /\ ph > 1
          /\ Copying(image.segs[ph - 1].pa, image.segs[ph - 1].memsz, image.segs[ph - 1].offset)
      BY <2>2 DEF LoadInv
    <3>2. PICK k \in 1..Len(image.segs) : k = ph - 1
      BY <1>1, <3>1
    <3>3. PICK p, n, off : IsSegment(k, p, n, off)
      BY <1>1, SegmentIs
    <3>4. Copying(p, n, off) /\ p \in Nat /\ n \in Nat
      BY <3>1, <3>2, <3>3 DEF IsSegment
    <3>5. p + n <= to_va
      BY <1>1, <3>3, SegEnds
    <3> QED
      BY <3>4, <3>5
  <2> QED
    BY <2>1, <2>2 DEF LoadInv, Transfer
<1>4. /\ dst = pa - SECTSIZE /\ RoundDown(p) <= dst /\ dst < p + n /\ pa \in Nat
      /\ RoundDown(p) \in Nat /\ SECTSIZE \in Nat
  BY <1>3, RoundDownIs, SectSizeAssumption DEF Copying, Transfer
<1>5. pa < kvbase + SECTSIZE /\ dst \in Nat
  BY <1>2, <1>3, <1>4
<1>6. pa <= kvbase
  <2> SUFFICES ASSUME kvbase < pa PROVE FALSE
    BY <1>2, <1>4
  <2>1. kvbase + SECTSIZE <= pa
    BY <1>2, WholeApart
  <2> QED
    BY <1>2, <1>4, <1>5, <2>1
<1> QED
  BY <1>2, <1>4, <1>5, <1>6

LEMMA AllStay ==
  ASSUME AllRead, WellSectioned(image), UNCHANGED <<mem, image, kvoffset, nametab, end_debug>>,
         Top \in Nat, DebugKnown' = DebugKnown,
         \A name \in DebugKnown : section_info'[name] = section_info[name]
  PROVE  AllRead'
<1>1. PICK q \in Nat : q = Top
  OBVIOUS
<1>2. Spares(q) /\ Top' = q
  BY <1>1 DEF Spares, Top, kvbase, to_va, LastSeg
<1>3. TableIn(q)' /\ NamesIn(q)' /\ end_debug' = q
  BY <1>1, <1>2, TableStays, NamesStay DEF AllRead
<1>4. \A name \in DebugKnown : InfoIn(name, q)'
  BY <1>1, <1>2, InfoStays DEF AllRead
<1> QED
  BY <1>2, <1>3, <1>4 DEF AllRead, TableIn, NamesIn, InfoIn, Below

\* The steps before the kernel's readseg, and those after it.
LEMMA SectWaits ==
  ASSUME LoadInv, AboveInv, NEW room \in 0..MemTop, SectInvAt(room),
         \/ BootNext /\ UNCHANGED sectVars
         \/ /\ step \in {"start", "done"}
            /\ (Command \/ Transfer \/ DriveReady) /\ UNCHANGED rest
  PROVE  SectInvAt(room)'
<1>1. /\ UNCHANGED <<image, step, kvoffset, i, nametab, section_info, end_debug>>
      /\ step \in {"start", "done"}
  <2>1. ASSUME BootNext /\ UNCHANGED sectVars PROVE at # "running" /\ UNCHANGED image
    BY <2>1 DEF BootNext, ReadHeader, ReadSector, BadMagic, LoadSegment, Enter, ClearBss
  <2> QED
    BY <2>1 DEF LoadInv, sectVars, rest
<1>2. /\ WellSectioned(image) /\ Roomy(image, room) /\ Whole(pa) /\ Whole(kvoffset)
      /\ i \in 0..NumSections /\ Untouched
  BY DEF SectInvAt
<1>3. /\ NumSections' = NumSections /\ DebugKnown' = DebugKnown /\ NamesSect' = NamesSect
      /\ kvbase' = kvbase /\ Top' = Top /\ secthdr' = secthdr
  BY <1>1 DEF NumSections, DebugKnown, NamesSect, kvbase, to_va, LastSeg, Top, secthdr
<1>4. Whole(pa')
  <2>1. CASE ReadHeader
    BY <2>1, ElfHdrAssumption, WholeRound DEF ReadHeader, readseg
  <2>2. CASE ReadSector
    BY <1>2, <2>2, WholeAdd, WholeRound DEF ReadSector
  <2>3. CASE LoadSegment
    <3>1. PICK p, n, off : IsSegment(ph, p, n, off)
      BY <2>3, HeaderIs, SegmentIs DEF LoadInv
    <3>2. pa' = RoundDown(p) /\ p \in Nat
      BY <2>3, <3>1, HeaderIs DEF LoadSegment, readseg, IsSegment
    <3> QED
      BY <3>2, WholeRound
  <2>4. CASE UNCHANGED pa
    BY <1>2, <2>4
  <2> QED
    BY <2>1, <2>2, <2>3, <2>4 DEF BootNext, BadMagic, Enter, ClearBss, rest, segVars
<1>5. CASE step = "start"
  <2>1. /\ WellLinked(image) /\ Len(image.segs) \in Nat /\ Len(image.segs) > 0
    BY <1>2 DEF LoadInv, WellLinked, WellSectioned
  <2>2. to_va \in Nat /\ kvbase \in Nat /\ to_va <= kvbase /\ Top = kvbase
    BY <1>5, <2>1, EndIs DEF SectInvAt, Top
  <2>3. ASSUME NEW a \in Addr, a >= Top PROVE mem'[a] = Other
    <3>1. mem[a] = Other
      BY <1>2, <2>3 DEF Untouched
    <3>2. CASE UNCHANGED mem
      BY <3>1, <3>2
    <3>3. CASE ClearBss
      <4>1. Len(image.segs) \in 1..Len(image.segs)
        BY <2>1
      <4>2. LastSeg.pa \in Nat /\ LastSeg.filesz \in Nat /\ LastSeg.memsz \in Nat
        BY <2>1, <4>1, SegIs DEF LastSeg
      <4>3. a \in Nat /\ LastSeg.pa + LastSeg.memsz <= a
        BY <2>2, <2>3 DEF to_va, Addr
      <4>4. a \notin LastSeg.pa + LastSeg.filesz..LastSeg.pa + LastSeg.memsz - 1
        BY <4>2, <4>3
      <4> QED
        BY <3>1, <3>3, <4>4 DEF ClearBss
    <3>4. CASE Transfer
      <4>1. at # "running"
        BY <1>5, <3>4 DEF AboveInv, Transfer
      <4>2. dst \in Nat /\ dst + SECTSIZE <= kvbase
        BY <1>2, <3>4, <4>1, BootBelow
      <4>3. a \notin dst..dst+SECTSIZE-1
        BY <2>2, <2>3, <4>2, SectSizeAssumption DEF Addr
      <4> QED
        BY <3>1, <3>4, <4>3 DEF Transfer, Inserted
    <3> QED
      BY <3>2, <3>3, <3>4 DEF BootNext, ReadHeader, ReadSector, BadMagic, LoadSegment, Enter,
           readsect, diskVars, Command, DriveReady
  <2>4. Untouched'
    BY <1>3, <2>3 DEF Untouched
  <2> QED
    BY <1>1, <1>2, <1>3, <1>4, <1>5, <2>4 DEF SectInvAt
<1>6. CASE step = "done"
  <2>1. at = "running" /\ reading = "idle"
    BY <1>6 DEF LoadInv, AboveInv
  <2>2. UNCHANGED mem
    BY <2>1 DEF BootNext, ReadHeader, ReadSector, BadMagic, LoadSegment, Enter, ClearBss,
         Command, Transfer, DriveReady
  <2>3. Untouched'
    BY <1>2, <1>3, <2>2 DEF Untouched
  <2>4. AllRead'
    <3>1. Top \in Nat
      BY <2>1, EndIs DEF LoadInv, AboveInv, Top
    <3> QED
      BY <1>1, <1>2, <1>3, <1>6, <2>2, <3>1, AllStay DEF SectInvAt
  <2> QED
    BY <1>1, <1>2, <1>3, <1>4, <1>6, <2>3, <2>4 DEF SectInvAt
<1> QED
  BY <1>1, <1>5, <1>6
\* When the section headers are read.
LEMMA HeadersRead ==
  ASSUME LoadInv, AboveInv, NEW room \in 0..MemTop, SectInvAt(room), step = "headers", SegDone
  PROVE  TableIn(Top) /\ Whole(Top) /\ Top >= kvbase /\ Top <= kvbase + room /\ Top <= MemTop
<1>1. /\ WellLinked(image) /\ Len(image.segs) > 0 /\ kvoffset \in Nat
      /\ WellSectioned(image) /\ NumSections \in Nat /\ room \in Nat /\ Roomy(image, room)
      /\ Whole(pa) /\ Whole(kvoffset)
  BY SectIs, MemTopAssumption DEF LoadInv, AboveInv, SectInvAt
<1>2. kvbase \in Nat /\ Whole(kvbase)
  BY <1>1, EndIs, KvbaseIs
<1>3. Whole(Top) /\ Top \in Nat /\ Top >= kvbase
  <2>1. Whole(kvbase + kvoffset)
    BY <1>1, <1>2, WholeAdd
  <2> QED
    BY <1>1, <1>2, <2>1 DEF Top
<1>4. KvCopying(kvbase, NumSections, image.shoff) /\ NumSections + 2 * SECTSIZE <= room
  BY <1>1 DEF SectInvAt, Roomy, NumSections
<1>5. kvbase <= kvbase + 0 * room /\ (0 + 1) * room = room /\ 1 * room = room
  BY <1>1, <1>2
<1>6. Top <= kvbase + (0 + 1) * room
  <2>1. PICK p, n, off, c : p = kvbase /\ n = NumSections /\ off = image.shoff /\ c = 0
    OBVIOUS
  <2>2. Top <= kvbase + (c + 1) * room
    BY <1>1, <1>2, <1>4, <1>5, <2>1, KvRoom
  <2> QED
    BY <2>1, <2>2
<1>7. kvbase + 1 * room <= MemTop
  <2>1. PICK c \in Nat : c = 1 /\ c <= NumSections + 2
    BY <1>1
  <2>2. kvbase + c * room <= MemTop
    BY <1>1, <2>1, Fits
  <2> QED
    BY <2>1, <2>2
<1>8. Top <= MemTop
  BY <1>1, <1>2, <1>3, <1>5, <1>6, <1>7, MemTopAssumption
<1>9. Below(Top, kvbase + OffsetCorrect(image.shoff), NumSections, image.shoff)
  BY <1>1, <1>2, <1>4, <1>8, KvDone
<1> QED
  BY <1>3, <1>5, <1>6, <1>8, <1>9 DEF TableIn, secthdr

\* When the names, or a section, are read.
LEMMA LoopRead ==
  ASSUME LoadInv, AboveInv, NEW room \in 0..MemTop, SectInvAt(room),
         step \in {"names", "section"}, SegDone
  PROVE  /\ TableIn(Top) /\ NamesIn(Top) /\ \A name \in DebugKnown : InfoIn(name, Top)
         /\ Whole(Top) /\ Top >= kvbase /\ Top <= kvbase + (i + 2) * room /\ Top <= MemTop
<1>1. /\ WellLinked(image) /\ Len(image.segs) > 0 /\ kvoffset \in Nat
      /\ WellSectioned(image) /\ NumSections \in Nat /\ room \in Nat /\ Roomy(image, room)
      /\ Whole(pa) /\ Whole(kvoffset) /\ i \in 0..NumSections
  BY SectIs, MemTopAssumption DEF LoadInv, AboveInv, SectInvAt
<1>2. kvbase \in Nat /\ Whole(kvbase)
  BY <1>1, EndIs, KvbaseIs
<1>3. Whole(Top) /\ Top \in Nat /\ Top >= kvbase
  <2>1. Whole(kvbase + kvoffset)
    BY <1>1, <1>2, WholeAdd
  <2> QED
    BY <1>1, <1>2, <2>1 DEF Top
<1>4. ASSUME Top <= kvbase + (i + 2) * room PROVE Top <= MemTop
  <2>1. PICK c \in Nat : c = i + 2 /\ c <= NumSections + 2
    BY <1>1
  <2>2. kvbase + c * room <= MemTop
    BY <1>1, <2>1, Fits
  <2>3. c * room \in Nat
    BY <1>1
  <2> QED
    BY <1>2, <1>3, <1>4, <2>1, <2>2, <2>3, MemTopAssumption
<1>5. CASE step = "names"
  <2>1. PICK p \in 0..MemTop :
          /\ p <= kvbase + room /\ TableIn(p)
          /\ KvCopying(p, NamesSect.size, NamesSect.offset)
          /\ nametab = p + OffsetCorrect(NamesSect.offset)
          /\ DebugKnown = {}
    BY <1>5 DEF SectInvAt, NamesUnderWay
  <2>2. NamesSect.size + 2 * SECTSIZE <= room
    <3>1. image.shstrndx + 1 \in 1..NumSections
      BY <1>1, SectIs
    <3> QED
      BY <1>1, <3>1 DEF Roomy, NamesSect, NumSections
  <2>3. p <= kvbase + 1 * room
    BY <1>1, <2>1
  <2>4. Top <= kvbase + (1 + 1) * room
    <3>1. PICK c \in Nat : c = 1 /\ p <= kvbase + c * room
      BY <2>3
    <3>2. Top <= kvbase + (c + 1) * room
      BY <1>1, <1>2, <2>1, <2>2, <3>1, KvRoom
    <3> QED
      BY <3>1, <3>2
  <2>5. Top <= kvbase + (i + 2) * room
    <3>1. (i + (1 + 1)) * room = i * room + room * (1 + 1) /\ i * room \in Nat
      BY <1>1, Distribute
    <3> QED
      BY <1>1, <1>2, <1>3, <2>4, <3>1
  <2>6. Top <= MemTop
    BY <1>4, <2>5
  <2>7. NamesIn(Top)
    BY <1>1, <1>2, <2>1, <2>6, KvDone DEF NamesIn
  <2>8. p \in Nat /\ p <= Top
    BY <1>1, <1>2, <2>1, KvTop
  <2>9. TableIn(Top)
    BY <1>1, <1>3, <2>1, <2>8, AllMore
  <2> QED
    BY <1>3, <2>1, <2>5, <2>6, <2>7, <2>9
<1>6. CASE step = "section"
  <2>1. PICK p \in 0..MemTop, k \in 1..i :
          LET s == image.sects[k]
          IN /\ p <= kvbase + (i + 1) * room /\ TableIn(p) /\ NamesIn(p)
             /\ KvCopying(p, s.size, s.offset)
             /\ s.name \in DebugKnown
             /\ section_info[s.name] = [data |-> p + OffsetCorrect(s.offset), size |-> s.size]
             /\ \A name \in DebugKnown \ {s.name} : InfoIn(name, p)
    BY <1>6 DEF SectInvAt, SectionUnderWay
  <2> DEFINE s == image.sects[k]
  <2>2. PICK c \in Nat : c = i + 1 /\ c + 1 = i + 2
    BY <1>1
  <2>3. k \in 1..NumSections /\ s.size + 2 * SECTSIZE <= room
    BY <1>1 DEF Roomy, NumSections
  <2>4. Top <= kvbase + (c + 1) * room
    BY <1>1, <1>2, <2>1, <2>2, <2>3, KvRoom
  <2>5. Top <= kvbase + (i + 2) * room /\ Top <= MemTop
    BY <1>4, <2>2, <2>4
  <2>6. Below(Top, p + OffsetCorrect(s.offset), s.size, s.offset)
    BY <1>1, <1>2, <2>1, <2>5, KvDone
  <2>7. InfoIn(s.name, Top)
    BY <2>1, <2>3, <2>6 DEF InfoIn
  <2>8. p \in Nat /\ p <= Top
    BY <1>1, <1>2, <2>1, KvTop
  <2>9. /\ TableIn(Top) /\ NamesIn(Top)
        /\ \A name \in DebugKnown \ {s.name} : InfoIn(name, Top)
    BY <1>1, <1>3, <2>1, <2>8, AllMore
  <2> QED
    BY <1>3, <2>5, <2>7, <2>9
<1> QED
  BY <1>5, <1>6
\* A step that leaves alone what is read, and goes on to the next section or not.
LEMMA SectNext ==
  ASSUME NEW room \in 0..MemTop, SectInvAt(room), step' = step,
         UNCHANGED <<mem, reading, dst, sect, image, segVars, kvoffset, nametab, end_debug>>,
         i' = i \/ (i' = i + 1 /\ i < NumSections /\ step \in {"names", "section"}),
         DebugKnown' = DebugKnown,
         \A name \in DebugKnown : section_info'[name] = section_info[name],
         kvbase \in Nat, kvoffset \in Nat
  PROVE  SectInvAt(room)'
<1>1. /\ WellSectioned(image) /\ Roomy(image, room) /\ NumSections \in Nat /\ room \in Nat
      /\ Whole(pa) /\ Whole(kvoffset) /\ i \in 0..NumSections /\ Untouched
      /\ step \in {"start", "headers", "names", "section", "done"}
  BY SectIs, MemTopAssumption DEF SectInvAt
<1>2. /\ NumSections' = NumSections /\ NamesSect' = NamesSect /\ kvbase' = kvbase /\ Top' = Top
      /\ pa' = pa /\ Top \in Nat /\ \A q : Spares(q)
  BY DEF NumSections, NamesSect, kvbase, to_va, LastSeg, Top, segVars, Spares
<1>3. /\ WellSectioned(image') /\ Roomy(image', room) /\ Whole(pa') /\ Whole(kvoffset')
      /\ i' \in 0..NumSections' /\ Untouched'
  BY <1>1, <1>2 DEF Untouched
<1>4. CASE step = "start"
  BY <1>1, <1>2, <1>3, <1>4 DEF SectInvAt
<1>5. CASE step = "headers"
  <2>1. PICK p, n, off : p = kvbase /\ n = NumSections /\ off = image.shoff
    OBVIOUS
  <2>2. KvCopying(p, n, off)'
    BY <1>5, <2>1, KvSame DEF SectInvAt
  <2>3. KvCopying(kvbase, NumSections, image.shoff)'
    BY <1>2, <2>1, <2>2 DEF KvCopying
  <2> QED
    BY <1>1, <1>2, <1>3, <1>5, <2>3 DEF SectInvAt
<1>6. CASE step = "names"
  <2>1. PICK p \in 0..MemTop :
          /\ p <= kvbase + room /\ TableIn(p)
          /\ KvCopying(p, NamesSect.size, NamesSect.offset)
          /\ nametab = p + OffsetCorrect(NamesSect.offset)
          /\ DebugKnown = {}
    BY <1>6 DEF SectInvAt, NamesUnderWay
  <2>2. PICK n, off : n = NamesSect.size /\ off = NamesSect.offset
    OBVIOUS
  <2>3. KvCopying(p, n, off)'
    BY <2>1, <2>2, KvSame
  <2>4. KvCopying(p, NamesSect.size, NamesSect.offset)'
    BY <1>2, <2>2, <2>3 DEF KvCopying
  <2>5. p \in Nat
    BY <2>1, MemTopAssumption
  <2>6. TableIn(p)'
    BY <1>1, <1>2, <2>1, <2>5, TableStays
  <2>7. NamesUnderWay(room)'
    BY <1>2, <2>1, <2>4, <2>6 DEF NamesUnderWay
  <2> QED
    BY <1>1, <1>3, <1>6, <2>7 DEF SectInvAt
<1>7. CASE step = "section"
  <2>1. PICK p \in 0..MemTop, k \in 1..i :
          LET s == image.sects[k]
          IN /\ p <= kvbase + (i + 1) * room /\ TableIn(p) /\ NamesIn(p)
             /\ KvCopying(p, s.size, s.offset)
             /\ s.name \in DebugKnown
             /\ section_info[s.name] = [data |-> p + OffsetCorrect(s.offset), size |-> s.size]
             /\ \A name \in DebugKnown \ {s.name} : InfoIn(name, p)
    BY <1>7 DEF SectInvAt, SectionUnderWay
  <2>2. PICK n, off : n = image.sects[k].size /\ off = image.sects[k].offset
    OBVIOUS
  <2>3. KvCopying(p, n, off)'
    BY <2>1, <2>2, KvSame
  <2>4. KvCopying(p, image.sects[k].size, image.sects[k].offset)'
    BY <2>2, <2>3 DEF KvCopying
  <2>5. p \in Nat
    BY <2>1, MemTopAssumption
  <2>6. TableIn(p)' /\ NamesIn(p)'
    BY <1>1, <1>2, <2>1, <2>5, TableStays, NamesStay
  <2>7. \A name \in DebugKnown \ {image.sects[k].name} : InfoIn(name, p)'
    BY <1>1, <1>2, <2>1, <2>5, InfoStays
  <2>8. p <= kvbase' + (i' + 1) * room
    <3>1. CASE i' = i
      BY <1>2, <2>1, <3>1
    <3>2. CASE i' = i + 1
      <4>1. PICK c \in Nat : c = i + 1
        BY <1>1
      <4>2. (c + 1) * room = c * room + room * 1 /\ c * room \in Nat
        BY <1>1, Distribute
      <4>3. p <= kvbase + c * room
        BY <2>1, <4>1
      <4>4. p <= kvbase + (c + 1) * room
        BY <1>1, <2>5, <4>2, <4>3
      <4> QED
        BY <1>2, <3>2, <4>1, <4>4
    <3> QED
      BY <3>1, <3>2
  <2>9. SectionUnderWay(room)'
    <3>1. k \in 1..i' /\ image'.sects[k] = image.sects[k]
      BY <1>1
    <3>2. section_info'[image.sects[k].name] = section_info[image.sects[k].name]
      BY <2>1
    <3> QED
      BY <2>1, <2>4, <2>6, <2>7, <2>8, <3>1, <3>2 DEF SectionUnderWay
  <2> QED
    BY <1>1, <1>3, <1>7, <2>9 DEF SectInvAt
<1>8. CASE step = "done"
  <2>1. AllRead'
    BY <1>1, <1>2, <1>8, AllStay DEF SectInvAt
  <2> QED
    BY <1>1, <1>3, <1>8, <2>1 DEF SectInvAt
<1> QED
  BY <1>1, <1>4, <1>5, <1>6, <1>7, <1>8
\* The calls of readseg, and the end of the loop.
LEMMA SectCalls ==
  ASSUME LoadInv, AboveInv, NEW room \in 0..MemTop, SectInvAt(room),
         ReadHeaders \/ ReadNames \/ LoadSection \/ Return
  PROVE  SectInvAt(room)'
<1>1. /\ WellLinked(image) /\ Len(image.segs) > 0 /\ kvoffset \in Nat
      /\ WellSectioned(image) /\ NumSections \in Nat /\ room \in Nat /\ Roomy(image, room)
      /\ Whole(pa) /\ Whole(kvoffset) /\ i \in 0..NumSections /\ Untouched /\ image.shoff \in Nat
  <2>1. at = "running"
    BY DEF LoadInv, ReadHeaders, ReadNames, LoadSection, Return, AtLoop
  <2> QED
    BY <2>1, SectIs, MemTopAssumption DEF LoadInv, AboveInv, SectInvAt
<1>2. kvbase \in Nat /\ Whole(kvbase)
  BY <1>1, EndIs, KvbaseIs
<1>3. /\ UNCHANGED <<image, at, mem, reading, diskVars, kvoffset>>
      /\ NumSections' = NumSections /\ NamesSect' = NamesSect /\ kvbase' = kvbase /\ Top' = Top
      /\ \A q : Spares(q)
  BY DEF ReadHeaders, ReadNames, LoadSection, Return, diskVars, NumSections, NamesSect, kvbase,
         to_va, LastSeg, Top, Spares
<1>4. WellSectioned(image') /\ Roomy(image', room) /\ Whole(kvoffset') /\ Untouched'
  BY <1>1, <1>3 DEF Untouched
<1>5. CASE ReadHeaders
  <2>1. /\ step = "start" /\ kvoffset = 0 /\ reading = "idle" /\ i = 0 /\ DebugKnown = {}
        /\ step' = "headers" /\ i' = i /\ section_info' = section_info
        /\ readseg_kv(kvbase, NumSections, image.shoff)
    BY <1>5 DEF ReadHeaders, SectInvAt, AboveInv
  <2>2. PICK p, n, off : /\ p = kvbase /\ n = NumSections /\ off = image.shoff
                         /\ n \in Nat /\ off \in Nat /\ p = Top /\ kvbase <= p
    BY <1>1, <1>2, <2>1 DEF Top
  <2>3. KvCopying(p, n, off)'
    BY <1>2, <1>3, <2>1, <2>2, KvStarts
  <2>4. KvCopying(kvbase, NumSections, image.shoff)'
    BY <1>3, <2>2, <2>3 DEF KvCopying
  <2>5. DebugKnown' = {} /\ i' = 0 /\ Whole(pa')
    BY <1>2, <2>1 DEF DebugKnown, readseg_kv
  <2> QED
    BY <1>1, <1>3, <1>4, <2>1, <2>4, <2>5 DEF SectInvAt
<1>6. CASE ReadNames
  <2>1. /\ step = "headers" /\ SegDone /\ reading = "idle" /\ i = 0 /\ DebugKnown = {}
        /\ step' = "names" /\ i' = i /\ section_info' = section_info
    BY <1>6 DEF ReadNames, SectInvAt, SegDone, InSeg
  <2>2. TableIn(Top) /\ Whole(Top) /\ Top >= kvbase /\ Top <= kvbase + room /\ Top <= MemTop
    BY <2>1, HeadersRead
  <2>3. SectHeaderAt(image.shstrndx) = NamesSect /\ NamesSect.size \in Nat /\ NamesSect.offset \in Nat
    BY <1>1, <2>2, SectHeaderIs, SectIs DEF NamesSect
  <2>4. PICK p, n, off : /\ p = Top /\ n = NamesSect.size /\ off = NamesSect.offset
                         /\ n \in Nat /\ off \in Nat /\ p \in 0..MemTop /\ p \in Nat
    BY <2>2, <2>3, MemTopAssumption DEF Whole
  <2>5. readseg_kv(p, n, off) /\ nametab' = p + OffsetCorrect(off)
    BY <1>6, <2>3, <2>4 DEF ReadNames, Top
  <2>6. KvCopying(p, n, off)'
    BY <1>2, <1>3, <2>1, <2>2, <2>4, <2>5, KvStarts
  <2>7. KvCopying(p, NamesSect.size, NamesSect.offset)'
    BY <1>3, <2>4, <2>6 DEF KvCopying
  <2>8. TableIn(p)'
    BY <1>1, <1>3, <2>2, <2>4, TableStays
  <2>9. DebugKnown' = {} /\ i' \in 0..NumSections' /\ Whole(pa')
    BY <1>1, <1>3, <2>1, <2>2, <2>4, <2>5 DEF DebugKnown, readseg_kv
  <2>10. NamesUnderWay(room)'
    <3>1. nametab' = p + OffsetCorrect(NamesSect'.offset) /\ p <= kvbase' + room
      BY <1>3, <2>2, <2>4, <2>5
    <3> QED
      BY <2>4, <2>7, <2>8, <2>9, <3>1 DEF NamesUnderWay
  <2> QED
    BY <1>4, <2>1, <2>9, <2>10 DEF SectInvAt
<1>7. CASE LoadSection
  <2>1. /\ step \in {"names", "section"} /\ SegDone /\ reading = "idle" /\ i < NumSections
        /\ step' = "section" /\ i' = i + 1 /\ nametab' = nametab
    BY <1>7 DEF LoadSection, AtLoop, SegDone, InSeg
  <2>2. /\ TableIn(Top) /\ NamesIn(Top) /\ \A name \in DebugKnown : InfoIn(name, Top)
        /\ Whole(Top) /\ Top >= kvbase /\ Top <= kvbase + (i + 2) * room /\ Top <= MemTop
    BY <2>1, LoopRead
  <2>3. PICK k \in 1..NumSections : k = i + 1 /\ i' = k
    BY <1>1, <2>1
  <2> DEFINE s == image.sects[k]
  <2>4. SectHeaderAt(i) = s /\ s.size \in Nat /\ s.offset \in Nat
    <3>1. i \in 0..NumSections-1
      BY <1>1, <2>1
    <3> QED
      BY <1>1, <2>2, <2>3, <3>1, SectHeaderIs
  <2>5. PICK p, n, off : /\ p = Top /\ n = s.size /\ off = s.offset
                         /\ n \in Nat /\ off \in Nat /\ p \in 0..MemTop /\ p \in Nat
    BY <2>2, <2>4, MemTopAssumption DEF Whole
  <2>6. /\ readseg_kv(p, n, off) /\ s.name \in DebugNames
        /\ section_info' = Known(s.name, p + OffsetCorrect(off), n)
    BY <1>7, <2>4, <2>5 DEF LoadSection, Top
  <2>7. KvCopying(p, n, off)'
    BY <1>2, <1>3, <2>1, <2>2, <2>5, <2>6, KvStarts
  <2>8. KvCopying(p, s.size, s.offset)'
    BY <1>3, <2>3, <2>5, <2>7 DEF KvCopying
  <2>9. TableIn(p)' /\ NamesIn(p)'
    BY <1>1, <1>3, <2>1, <2>2, <2>5, TableStays, NamesStay
  <2>10. /\ s.name \in DebugKnown'
         /\ section_info'[s.name] = [data |-> p + OffsetCorrect(s.offset), size |-> s.size]
         /\ \A name \in DebugKnown' \ {s.name} :
              name \in DebugKnown /\ section_info'[name] = section_info[name]
    BY <2>5, <2>6 DEF DebugKnown, Known
  <2>11. \A name \in DebugKnown' \ {s.name} : InfoIn(name, p)'
    BY <1>1, <1>3, <2>2, <2>5, <2>10, InfoStays
  <2>12. p <= kvbase' + (i' + 1) * room /\ k \in 1..i' /\ i' \in 0..NumSections'
    <3>1. i' + 1 = i + 2
      BY <1>1, <2>1
    <3> QED
      BY <1>1, <1>3, <2>2, <2>3, <2>5, <3>1
  <2>13. SectionUnderWay(room)'
    <3>1. image'.sects[k] = s
      BY <1>3
    <3> QED
      BY <2>5, <2>8, <2>9, <2>10, <2>11, <2>12, <3>1 DEF SectionUnderWay
  <2>14. Whole(pa')
    BY <2>2, <2>5, <2>6 DEF readseg_kv
  <2> QED
    BY <1>4, <2>1, <2>12, <2>13, <2>14 DEF SectInvAt
<1>8. CASE Return
  <2>1. /\ step \in {"names", "section"} /\ SegDone /\ step' = "done" /\ end_debug' = Top
        /\ UNCHANGED <<pa, i, nametab, section_info>>
    BY <1>8 DEF Return, segVars, Top
  <2>2. /\ TableIn(Top) /\ NamesIn(Top) /\ \A name \in DebugKnown : InfoIn(name, Top)
        /\ Whole(Top)
    BY <2>1, LoopRead
  <2>3. PICK q \in Nat : q = Top
    BY <2>2 DEF Whole
  <2>4. TableIn(q)' /\ NamesIn(q)'
    BY <1>1, <1>3, <2>1, <2>2, <2>3, TableStays, NamesStay
  <2>5. DebugKnown' = DebugKnown /\ \A name \in DebugKnown : InfoIn(name, q)'
    BY <1>1, <1>3, <2>1, <2>2, <2>3, InfoStays DEF DebugKnown
  <2>6. AllRead'
    BY <1>3, <2>1, <2>3, <2>4, <2>5 DEF AllRead, TableIn, NamesIn, InfoIn, Below
  <2> QED
    BY <1>1, <1>3, <1>4, <2>1, <2>6 DEF SectInvAt
<1> QED
  BY <1>5, <1>6, <1>7, <1>8
LEMMA SectStep == LoadInv /\ AboveInv /\ SectInv /\ [MachineNext]_machineVars => SectInv'
<1> SUFFICES ASSUME LoadInv, AboveInv, SectInv, [MachineNext]_machineVars PROVE SectInv'
  OBVIOUS
<1>1. PICK room \in 0..MemTop : SectInvAt(room)
  BY DEF SectInv
<1>2. kvbase \in Nat /\ kvoffset \in Nat
  <2>1. WellLinked(image) /\ Len(image.segs) > 0
    BY <1>1 DEF LoadInv, SectInvAt, WellSectioned, WellLinked
  <2> QED
    BY <2>1, EndIs DEF AboveInv
<1>3. CASE UNCHANGED loadVars
  <2>1. /\ UNCHANGED <<mem, reading, dst, sect, image, segVars, kvoffset, nametab, end_debug>>
        /\ UNCHANGED <<step, i, section_info>>
    BY <1>3 DEF loadVars, bootVars, sectVars, diskVars, segVars
  <2>2. DebugKnown' = DebugKnown
    BY <2>1 DEF DebugKnown
  <2>3. SectInvAt(room)'
    BY <1>1, <1>2, <2>1, <2>2, SectNext
  <2> QED
    BY <2>3 DEF SectInv
<1>4. CASE BootNext /\ UNCHANGED sectVars
  BY <1>1, <1>4, SectWaits DEF SectInv
<1>5. CASE (Command \/ Transfer \/ DriveReady) /\ UNCHANGED rest
  <2>1. step \in {"start", "headers", "names", "section", "done"}
    BY <1>1 DEF SectInvAt
  <2>2. SectInvAt(room)'
    BY <1>1, <1>5, <2>1, SectWaits, SectGoesOn
  <2> QED
    BY <2>2 DEF SectInv
<1>6. CASE NoteEhFrame \/ SkipSection
  <2>1. /\ UNCHANGED <<mem, reading, dst, sect, image, segVars, kvoffset, nametab, end_debug, step>>
        /\ i' = i + 1 /\ i < NumSections /\ step \in {"names", "section"}
    BY <1>6 DEF NoteEhFrame, SkipSection, AtLoop, diskVars
  <2>2. /\ DebugKnown' = DebugKnown
        /\ \A name \in DebugKnown : section_info'[name] = section_info[name]
    <3>1. CASE SkipSection
      BY <3>1 DEF SkipSection, DebugKnown
    <3>2. CASE NoteEhFrame
      <4>1. PICK data, size : section_info' = Known(".eh_frame", data, size)
        BY <3>2 DEF NoteEhFrame
      <4>2. ".eh_frame" \notin DebugNames
        BY DEF DebugNames
      <4> QED
        BY <4>1, <4>2 DEF Known, DebugKnown
    <3> QED
      BY <1>6, <3>1, <3>2
  <2>3. SectInvAt(room)'
    BY <1>1, <1>2, <2>1, <2>2, SectNext
  <2> QED
    BY <2>3 DEF SectInv
<1>7. CASE ReadHeaders \/ ReadNames \/ LoadSection \/ Return
  BY <1>1, <1>7, SectCalls DEF SectInv
<1>8. CASE SegLoop \/ SegExtra
  <2>1. step \in {"headers", "names", "section"}
    BY <1>8 DEF SegLoop, SegExtra, InSeg
  <2> QED
    BY <1>1, <1>8, <2>1, SectGoesOn DEF SectInv
<1> QED
  BY <1>3, <1>4, <1>5, <1>6, <1>7, <1>8, LoadSteps DEF ReadSections

\* The section that InfoIn speaks of is the one of that name.
LEMMA SectionIs ==
  ASSUME WellSectioned(image), NEW name \in DebugNames, NEW k \in 1..NumSections,
         image.sects[k].name = name
  PROVE  Section(name) = image.sects[k]
<1> DEFINE j == CHOOSE x \in 1..NumSections : image.sects[x].name = name
<1>1. j \in 1..NumSections /\ image.sects[j].name = name
  OBVIOUS
<1>2. Section(name) = image.sects[j]
  BY DEF Section
<1> HIDE DEF j
<1>3. j = k
  BY <1>1 DEF WellSectioned, NumSections
<1> QED
  BY <1>2, <1>3

LEMMA SectIntact == LoadInv /\ AboveInv /\ SectInv => SectionsIntact
<1> SUFFICES ASSUME LoadInv, AboveInv, SectInv PROVE SectionsIntact
  OBVIOUS
<1>1. PICK room \in 0..MemTop : SectInvAt(room)
  BY DEF SectInv
<1>2. WellSectioned(image) /\ Untouched /\ Whole(pa)
  BY <1>1 DEF SectInvAt
<1>3. step = "names" => \E q : TableIn(q)
  BY <1>1 DEF SectInvAt, NamesUnderWay
<1>4. step = "section" => \E q : TableIn(q) /\ NamesIn(q)
  BY <1>1 DEF SectInvAt, SectionUnderWay
<1>5. step = "done" => AllRead
  BY <1>1 DEF SectInvAt
<1>6. TablesIntact
  <2>1. step \in {"names", "section", "done"} => Claimed(secthdr, image.shoff, NumSections)
    BY <1>3, <1>4, <1>5 DEF AllRead, TableIn, Below
  <2>2. step \in {"section", "done"} => Claimed(nametab, NamesSect.offset, NamesSect.size)
    BY <1>4, <1>5 DEF AllRead, NamesIn, Below
  <2> QED
    BY <2>1, <2>2 DEF TablesIntact, NamesSect
<1>7. pa % SECTSIZE = 0
  BY <1>2 DEF Whole
<1>8. ASSUME step = "done", NEW a \in Addr, a >= end_debug PROVE mem[a] = Other
  BY <1>2, <1>5, <1>8 DEF AllRead, Untouched
<1>9. ASSUME SegIdle \/ step = "done", NEW name \in DOMAIN section_info \cap DebugNames
      PROVE  Claimed(section_info[name].data, Section(name).offset, section_info[name].size)
  <2>1. InfoIn(name, Top)
    <3>1. CASE step = "done"
      BY <1>5, <1>9, <3>1 DEF AllRead, DebugKnown
    <3>2. CASE step # "done"
      BY <1>1, <1>9, <3>2, LoopRead DEF SegIdle, DebugKnown
    <3> QED
      BY <3>1, <3>2
  <2>2. PICK k \in 1..NumSections :
          /\ image.sects[k].name = name /\ section_info[name].size = image.sects[k].size
          /\ Below(Top, section_info[name].data, image.sects[k].size, image.sects[k].offset)
    BY <2>1 DEF InfoIn
  <2>3. Section(name) = image.sects[k]
    BY <1>2, <1>9, <2>2, SectionIs
  <2> QED
    BY <2>2, <2>3 DEF Below
<1> QED
  BY <1>6, <1>7, <1>8, <1>9 DEF SectionsIntact

\* Whatever the delays of the drive, a debug section that was read is where
\* section_info says, whole, and the headers and the names with it, while the
\* kernel's readseg writes whole sectors around the sections that follow; and
\* end_debug is past all of it: for every size of a sector and every well linked
\* image for whose sections memory has room.
THEOREM SectionsIntactCorrect == MachineSpec => []SectionsIntact
<1>1. MachineInit => LoadInv /\ AboveInv /\ SectInv
  <2> SUFFICES ASSUME NEW m \in Machines, SectInit(m.image) PROVE LoadInv /\ AboveInv /\ SectInv
    BY DEF MachineInit
  <2>1. WellLinked(image) /\ WellSectioned(image)
    BY MachinesAssumption DEF SectInit, BootInit
  <2>2. Len(image.segs) \in Nat
    BY <2>1 DEF WellLinked
  <2>3. LoadInv /\ AboveInv
    BY <2>1, <2>2 DEF SectInit, BootInit, DiskInit, DiskInv, LoadInv, AboveInv
  <2>4. PICK room \in 0..MemTop : Roomy(image, room)
    BY <2>1 DEF WellSectioned
  <2>5. Whole(pa) /\ Whole(kvoffset) /\ step = "start" /\ kvoffset = 0 /\ i = 0
    BY WholeRound DEF SectInit, BootInit
  <2>6. DebugKnown = {} /\ Untouched
    BY DEF SectInit, BootInit, DiskInit, DebugKnown, Untouched
  <2>7. i \in 0..NumSections
    BY <2>1, <2>5, SectIs
  <2>8. SectInvAt(room)
    BY <2>1, <2>4, <2>5, <2>6, <2>7 DEF SectInvAt
  <2> QED
    BY <2>3, <2>8 DEF SectInv
<1>2. LoadInv /\ AboveInv /\ SectInv /\ [MachineNext]_machineVars => LoadInv' /\ AboveInv' /\ SectInv'
  BY LoadStep, AboveStep, SectStep
<1> QED
  BY <1>1, <1>2, SectIntact, PTL DEF MachineSpec
=============================================================================
