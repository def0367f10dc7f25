-------------------------- MODULE CallFramesProofs --------------------------
(***************************************************************************)
(* Theorems about the call frame interface, for every section, every       *)
(* program, every table size and every order of lookups and queries.       *)
(***************************************************************************)
EXTENDS CallFrames, NatInduct, FiniteSetTheorems, SequenceTheorems

(* The lookup. *)

CieBuffers ==
  [aug : 0..Len(section), factors : 0..Len(section), insts : 0..Len(section), encode : Encodings]

ScanTypeOK ==
  /\ section \in Sections
  /\ eh_offset \in 1..Len(section)+1 /\ start \in Nat \ {0}
  /\ cie \in CieBuffers
  /\ fde \in [at : Nat, initloc : Nat, adrange : Nat, inst : Seq(Instructions)]
  /\ addr \in Nat /\ calls \in Nat
  /\ ret \in {"calling", "OK", "NO_ENTRY"}

AtUnreadable == eh_offset \in 1..Len(section) /\ section[eh_offset].kind = "unreadable"

\* The CIE buffer has what the last CIE before the offset gives: its augmentation,
\* factors, instructions and encoding, unless an entry has been given up on since.
CieRead ==
  AtUnreadable \/
  \A j \in Cies : LastCie(j, eh_offset) =>
    /\ cie.aug = j
    /\ section[j].aug # "other" => cie.insts = j /\ cie.factors = j
    /\ section[j].aug = "z" => cie.encode = section[j].enc

\* An encoding is some CIE's.
EncodeRead == NoneEncodes => cie.encode = "absptr"

NoneBefore(k) == \A j \in start..k-1 : ~TrulyCovers(j)

\* The buffers have the FDE at k, and the instructions and factors of its own CIE.
HasFde(k) ==
  /\ k \in 1..Len(section) /\ section[k].kind = "fde"
  /\ section[k].own \in Cies
  /\ fde = [at |-> k, initloc |-> section[k].lo, adrange |-> section[k].len,
            inst |-> section[k].prog]
  /\ cie.insts = section[k].own /\ cie.factors = section[k].own

\* The inductive invariant of the lookup.
ScanInv ==
  /\ ScanTypeOK
  /\ CieRead
  /\ EncodeRead
  /\ ret = "calling" => calls > 0 /\ start <= eh_offset /\ ~Covers(fde)
  /\ Orderly /\ ret # "OK" => NoneBefore(eh_offset)
  /\ Orderly /\ ret = "OK" /\ calls > 0 =>
       HasFde(fde.at) /\ TrulyCovers(fde.at) /\ NoneBefore(fde.at)

\* What a section consists of.
LEMMA SectionIs ==
  ASSUME section \in Sections
  PROVE  /\ section \in Seq(Entries) /\ Len(section) \in Nat
         /\ \A k \in 1..Len(section) : section[k] \in Entries
         /\ Cies \subseteq 1..Len(section)
BY SectionsAssumption DEF Cies

\* The encoding and the sums that the constants allow.
LEMMA ScanConstants == "absptr" \in Encodings /\ Addrs \subseteq Nat /\ EhFrame \in BOOLEAN
BY ScanAssumption

LEMMA MisplacedType == Misplaced \subseteq Seq(Instructions)
<1> DEFINE bad == [op |-> "bad", reg |-> 0, val |-> 0]
<1>1. bad \in Instructions
  BY DEF Instructions, Opcodes
<1>2. << >> \in Seq(Instructions) /\ <<bad>> \in Seq(Instructions)
  <2> HIDE DEF bad
  <2> QED
    BY <1>1
<1> QED
  BY <1>2 DEF Misplaced

\* What stays as long as the section does.
LEMMA SectionStays ==
  ASSUME section' = section
  PROVE  /\ Cies' = Cies /\ Orderly' = Orderly /\ NoneEncodes' = NoneEncodes
         /\ \A j, k : LastCie(j, k)' = LastCie(j, k)
<1>1. Cies' = Cies
  BY DEF Cies
<1>2. \A j, k : LastCie(j, k)' = LastCie(j, k)
  BY <1>1 DEF LastCie
<1>3. NoneEncodes' = NoneEncodes
  BY DEF NoneEncodes
<1> QED
  BY <1>1, <1>2, <1>3 DEF Orderly

LEMMA ScanInitInv == ScanInit => ScanInv
<1> SUFFICES ASSUME ScanInit PROVE ScanInv
  OBVIOUS
<1>0. section \in Sections /\ eh_offset = 1 /\ start = 1 /\ ret = "OK" /\ calls = 0
        /\ addr = 0 /\ fde = NoFde
        /\ cie = [aug |-> 0, factors |-> 0, insts |-> 0, encode |-> "absptr"]
  BY DEF ScanInit
<1>1. ScanTypeOK
  <2>1. NoFde \in [at : Nat, initloc : Nat, adrange : Nat, inst : Seq(Instructions)]
    BY DEF NoFde
  <2> QED
    BY <1>0, <2>1, SectionIs, ScanConstants DEF ScanTypeOK, CieBuffers
<1>2. \A j \in Cies : ~LastCie(j, eh_offset)
  BY <1>0, SectionIs DEF LastCie
<1> QED
  BY <1>0, <1>1, <1>2 DEF ScanInv, CieRead, EncodeRead

\* The offset goes back to the start, the buffers stay.
LEMMA RewindInv ==
  ASSUME ScanInv, InitEh \/ DwarfInit
  PROVE  ScanInv'
<1>0. /\ ret # "calling" /\ eh_offset' = 1
      /\ UNCHANGED <<section, cie, fde, addr, start, ret, calls>>
  BY DEF InitEh, DwarfInit
<1>1. ScanTypeOK'
  BY <1>0, SectionIs DEF ScanInv, ScanTypeOK, CieBuffers
<1>2. \A j \in Cies : ~LastCie(j, 1)
  BY SectionIs DEF LastCie, ScanInv, ScanTypeOK
<1>3. CieRead' /\ EncodeRead'
  BY <1>0, <1>2, SectionStays DEF CieRead, EncodeRead, ScanInv
<1>4. NoneBefore(eh_offset)'
  BY <1>0 DEF NoneBefore, ScanInv, ScanTypeOK
<1>5. (Orderly /\ ret = "OK" /\ calls > 0 =>
         HasFde(fde.at) /\ TrulyCovers(fde.at) /\ NoneBefore(fde.at))'
  BY <1>0, SectionStays DEF ScanInv, HasFde, TrulyCovers, NoneBefore
<1> QED
  BY <1>0, <1>1, <1>3, <1>4, <1>5 DEF ScanInv

\* A cleared buffer covers nothing.
LEMMA CallInv ==
  ASSUME ScanInv, NEW p \in Addrs, Call(p)
  PROVE  ScanInv'
<1>0. /\ ret # "calling" /\ addr' = p /\ start' = eh_offset /\ fde' = NoFde
      /\ ret' = "calling" /\ calls' = calls + 1 /\ p \in Nat
      /\ UNCHANGED <<section, eh_offset, loaded, cie>>
  BY ScanConstants DEF Call
<1>1. ScanTypeOK'
  <2>1. NoFde \in [at : Nat, initloc : Nat, adrange : Nat, inst : Seq(Instructions)]
    BY DEF NoFde
  <2> QED
    BY <1>0, <2>1, SectionIs DEF ScanInv, ScanTypeOK, CieBuffers
<1>2. CieRead' /\ EncodeRead'
  BY <1>0, SectionStays DEF CieRead, EncodeRead, ScanInv, AtUnreadable
<1>3. NoneBefore(eh_offset)'
  BY <1>0, SectionIs DEF NoneBefore, ScanInv, ScanTypeOK
<1>4. ~Covers(fde)'
  BY <1>0 DEF Covers, NoFde
<1>5. calls' > 0 /\ start' <= eh_offset'
  BY <1>0, SectionIs DEF ScanInv, ScanTypeOK
<1> QED
  BY <1>0, <1>1, <1>2, <1>3, <1>4, <1>5 DEF ScanInv

\* A lookup that goes on or ends with the offset and the FDE buffer as they are.
LEMMA NoAdvanceInv ==
  ASSUME ScanInv, ScanEnd \/ LengthBad \/ Terminator
  PROVE  ScanInv'
<1>0. /\ ret = "calling" /\ ret' \in {"calling", "NO_ENTRY"}
      /\ UNCHANGED <<section, eh_offset, cie, fde, addr, start, calls>>
  <2>1. CASE ScanEnd
    BY <2>1 DEF ScanEnd, Return
  <2>2. CASE LengthBad
    BY <2>2 DEF LengthBad, Calling, Compare, More, ScanInv
  <2>3. CASE Terminator
    BY <2>3 DEF Terminator, Calling, Return
  <2> QED
    BY <2>1, <2>2, <2>3
<1>1. ScanTypeOK'
  BY <1>0 DEF ScanInv, ScanTypeOK, CieBuffers
<1>2. CieRead' /\ EncodeRead'
  BY <1>0, SectionStays DEF CieRead, EncodeRead, ScanInv, AtUnreadable
<1>3. Covers(fde)' = Covers(fde)
  BY <1>0 DEF Covers
<1>4. Orderly' => NoneBefore(eh_offset)'
  BY <1>0, SectionStays DEF NoneBefore, TrulyCovers, ScanInv
<1> QED
  BY <1>0, <1>1, <1>2, <1>3, <1>4 DEF ScanInv

\* What the header of a CIE leaves in the buffer.
LEMMA HeaderIs ==
  ASSUME ScanTypeOK, NEW k \in 1..Len(section), k = eh_offset, NEW e \in Entries
  PROVE  /\ set_cie_header(e) \in CieBuffers
         /\ set_cie_header(e).aug = k /\ set_cie_header(e).factors = k
         /\ set_cie_header(e).encode = IF e.aug = "z" THEN e.enc ELSE cie.encode
         /\ set_cie_header(e).insts = cie.insts
<1>1. cie \in CieBuffers /\ Len(section) \in Nat /\ e.enc \in Encodings
  BY SectionIs DEF ScanTypeOK, Entries
<1>2. PICK c : c = IF e.aug = "z" THEN e.enc ELSE cie.encode
  OBVIOUS
<1>3. c \in Encodings
  BY <1>1, <1>2 DEF CieBuffers
<1>4. PICK h : h = set_cie_header(e)
  OBVIOUS
<1>5. h = [cie EXCEPT !.aug = k, !.factors = k, !.encode = c]
  BY <1>2, <1>4 DEF set_cie_header
<1>6. k \in 0..Len(section)
  BY <1>1
<1>7. h \in CieBuffers /\ h.aug = k /\ h.factors = k /\ h.encode = c /\ h.insts = cie.insts
  BY ONLY <1>1, <1>3, <1>5, <1>6 DEF CieBuffers
<1> QED
  BY ONLY <1>2, <1>4, <1>7

\* The offset stays at an entry that is given up on: the buffers are read again
\* from the start of the section, or no more.
LEMMA GiveUpInv == ASSUME ScanInv, GiveUp PROVE ScanInv'
<1> PICK k, e : k = eh_offset /\ e = section[k]
  OBVIOUS
<1>0. /\ ret = "calling" /\ ret' = "NO_ENTRY" /\ k \in 1..Len(section) /\ e \in Entries
      /\ UNCHANGED <<section, eh_offset, addr, start, calls>>
      /\ eh_offset \in Nat /\ Entry = e
  BY SectionIs DEF GiveUp, Calling, Return, Entry, ScanInv, ScanTypeOK
<1>1. \/ e.kind = "unreadable" /\ e.aug = "z" /\ cie' = set_cie_header(e) /\ fde' = fde
      \/ e.kind = "unreadable" /\ cie' = cie /\ fde' = fde
      \/ cie' = cie /\ fde' = [fde EXCEPT !.at = eh_offset]
  BY <1>0 DEF GiveUp
<1>2. cie' \in CieBuffers /\ (cie' = cie \/ (e.kind = "unreadable" /\ e.aug = "z"))
  <2>1. cie \in CieBuffers
    BY DEF ScanInv, ScanTypeOK
  <2>2. set_cie_header(e) \in CieBuffers
    BY <1>0, HeaderIs DEF ScanInv
  <2> QED
    BY <1>1, <2>1, <2>2
<1>3. ScanTypeOK'
  <2>1. CieBuffers' = CieBuffers
    BY <1>0 DEF CieBuffers
  <2>2. fde' \in [at : Nat, initloc : Nat, adrange : Nat, inst : Seq(Instructions)]
    BY <1>0, <1>1 DEF ScanInv, ScanTypeOK
  <2> QED
    BY <1>0, <1>2, <2>1, <2>2 DEF ScanInv, ScanTypeOK
<1>4. CieRead' /\ EncodeRead'
  <2>1. CASE cie' = cie
    BY <1>0, <2>1, SectionStays DEF CieRead, EncodeRead, ScanInv, AtUnreadable
  <2>2. CASE e.kind = "unreadable" /\ e.aug = "z"
    <3>1. AtUnreadable'
      BY <1>0, <2>2 DEF AtUnreadable
    <3>2. ~NoneEncodes
      BY <1>0, <2>2 DEF NoneEncodes
    <3> QED
      BY <1>0, <3>1, <3>2, SectionStays DEF CieRead, EncodeRead
  <2> QED
    BY <1>2, <2>1, <2>2
<1>5. Orderly' => NoneBefore(eh_offset)'
  BY <1>0, SectionStays DEF NoneBefore, TrulyCovers, ScanInv
<1> QED
  BY <1>0, <1>3, <1>4, <1>5 DEF ScanInv

\* A CIE becomes the last one before the offset.
LEMMA NextCieInv == ASSUME ScanInv, NextCie PROVE ScanInv'
<1> DEFINE k == eh_offset
           e == section[k]
<1>0. /\ ret = "calling" /\ k \in 1..Len(section) /\ e.kind = "cie" /\ e \in Entries
      /\ cie' = set_cie(e) /\ eh_offset' = k + 1 /\ ret' = "calling" /\ k \in Cies
      /\ UNCHANGED <<section, fde, addr, start, calls>>
  BY SectionIs DEF NextCie, Calling, Entry, Compare, More, ScanInv, ScanTypeOK, Cies
<1>1. /\ cie' \in CieBuffers
      /\ cie'.aug = k
      /\ e.aug # "other" => cie'.insts = k /\ cie'.factors = k
      /\ e.aug = "z" => cie'.encode = e.enc
      /\ e.aug # "z" => cie'.encode = cie.encode
  <2>1. cie \in CieBuffers /\ k \in Nat /\ Len(section) \in Nat /\ ScanTypeOK
    BY <1>0, SectionIs DEF ScanInv, ScanTypeOK
  <2> HIDE DEF e
  <2>2. CASE e.aug = "other"
    BY <1>0, <2>1, <2>2 DEF set_cie, CieBuffers
  <2>3. CASE e.aug # "other"
    <3>1. PICK h : h = set_cie_header(e)
      OBVIOUS
    <3>2. /\ h \in CieBuffers /\ h.aug = k /\ h.factors = k
          /\ h.encode = IF e.aug = "z" THEN e.enc ELSE cie.encode
      BY <1>0, <2>1, <3>1, HeaderIs
    <3>3. cie' = [h EXCEPT !.insts = k]
      BY <1>0, <2>3, <3>1 DEF set_cie
    <3> QED
      BY <1>0, <2>1, <3>2, <3>3 DEF CieBuffers
  <2> QED
    BY <2>2, <2>3
<1>2. ScanTypeOK'
  <2>1. CieBuffers' = CieBuffers
    BY <1>0 DEF CieBuffers
  <2> QED
    BY <1>0, <1>1, <2>1, SectionIs DEF ScanInv, ScanTypeOK
<1>3. \A j \in Cies : LastCie(j, k + 1) => j = k
  BY <1>0, SectionIs DEF LastCie, ScanInv, ScanTypeOK
<1>4. CieRead'
  <2> HIDE DEF e
  <2>1. SUFFICES ASSUME NEW j \in Cies, LastCie(j, k + 1)
                 PROVE  /\ cie'.aug = j
                        /\ section[j].aug # "other" => cie'.insts = j /\ cie'.factors = j
                        /\ section[j].aug = "z" => cie'.encode = section[j].enc
    BY <1>0, SectionStays DEF CieRead
  <2>2. j = k /\ e = section[j]
    BY <1>3, <2>1 DEF e
  <2> QED
    BY <1>1, <2>2
<1>5. EncodeRead'
  <2>1. NoneEncodes => e.aug # "z"
    BY <1>0 DEF NoneEncodes
  <2> HIDE DEF e
  <2> QED
    BY <1>0, <1>1, <2>1, SectionStays DEF EncodeRead, ScanInv
<1>6. Covers(fde)' = Covers(fde)
  BY <1>0 DEF Covers
<1>7. start <= k + 1
  BY <1>0 DEF ScanInv, ScanTypeOK
<1>8. ASSUME Orderly PROVE NoneBefore(eh_offset)'
  <2> SUFFICES ASSUME NEW j \in start..k PROVE ~TrulyCovers(j)
    <3>1. k + 1 - 1 = k
      BY <1>0
    <3> QED
      BY <1>0, <3>1 DEF NoneBefore, TrulyCovers
  <2>1. CASE j = k
    BY <1>0, <2>1 DEF TrulyCovers
  <2>2. CASE j # k
    <3>1. j \in start..k-1
      BY <1>0, <2>2 DEF ScanInv, ScanTypeOK
    <3> QED
      BY <1>0, <1>8, <3>1 DEF ScanInv, NoneBefore
  <2> QED
    BY <2>1, <2>2
<1> QED
  BY <1>0, <1>2, <1>4, <1>5, <1>6, <1>7, <1>8, SectionStays DEF ScanInv

\* In an orderly section, the FDE that comes next is read as it was written.
LEMMA ReadAsWritten ==
  ASSUME ScanInv, Orderly, eh_offset \in 1..Len(section), Entry.kind = "fde",
         NEW f \in set_fde(Entry)
  PROVE  /\ f = [at |-> eh_offset, initloc |-> Entry.lo, adrange |-> Entry.len,
                 inst |-> Entry.prog]
         /\ Entry.own \in Cies /\ cie.insts = Entry.own /\ cie.factors = Entry.own
<1> DEFINE k == eh_offset
           o == section[k].own
<1>1. LastCie(o, k) /\ section[o].aug # "other" /\ o \in Cies
        /\ (section[o].aug = "none" => NoneEncodes)
  BY DEF Orderly, Entry, LastCie
<1>2. cie.aug = o /\ cie.insts = o /\ cie.factors = o
        /\ (section[o].aug = "z" => cie.encode = section[o].enc)
  BY <1>1 DEF ScanInv, CieRead, AtUnreadable, Entry
<1>3. section[o].aug \in {"none", "z"}
  <2>1. section[o] \in Entries
    BY <1>1, SectionIs DEF ScanInv, ScanTypeOK
  <2> QED
    BY <1>1, <2>1 DEF Entries
<1>4. Written(Entry) = cie.encode
  BY <1>1, <1>2, <1>3 DEF Written, Entry, ScanInv, EncodeRead
<1>5. HasAugData(Entry.own) = HasAugData(cie.aug)
  BY <1>2 DEF HasAugData, Entry
<1> QED
  BY <1>1, <1>2, <1>4, <1>5 DEF set_fde, Entry

\* The type of an FDE buffer, whatever the section.
LEMMA FdeType ==
  ASSUME ScanTypeOK, eh_offset \in 1..Len(section), NEW f \in set_fde(Entry)
  PROVE  f \in [at : Nat, initloc : Nat, adrange : Nat, inst : Seq(Instructions)]
<1> DEFINE e == section[eh_offset]
<1>1. e \in Entries /\ eh_offset \in Nat
  BY SectionIs DEF ScanTypeOK
<1>2. e.lo \in Nat /\ e.len \in Nat /\ e.prog \in Seq(Instructions)
  <2> HIDE DEF e
  <2> QED
    BY <1>1 DEF Entries
<1>3. \E lo \in Nat, n \in Nat, s \in Seq(Instructions) :
        f = [at |-> eh_offset, initloc |-> lo, adrange |-> n, inst |-> s]
  <2> HIDE DEF e
  <2>0. Entry = e
    BY DEF Entry, e
  <2>1. CASE EhFrame /\ Written(e) # cie.encode
    <3>1. PICK lo \in Addrs, n \in 0..1, s \in Misplaced :
            f = [at |-> eh_offset, initloc |-> lo, adrange |-> n, inst |-> s]
      <4>1. f \in {[at |-> eh_offset, initloc |-> lo, adrange |-> n, inst |-> i] :
                     lo \in Addrs, n \in 0..1, i \in Misplaced}
        BY <2>0, <2>1 DEF set_fde
      <4> QED
        BY <4>1
    <3>2. lo \in Nat /\ n \in Nat /\ s \in Seq(Instructions)
      BY MisplacedType, ScanConstants
    <3> QED
      BY <3>1, <3>2
  <2>2. CASE ~(EhFrame /\ Written(e) # cie.encode)
               /\ (EhFrame /\ HasAugData(e.own) # HasAugData(cie.aug))
    <3>1. PICK s \in Misplaced :
            f = [at |-> eh_offset, initloc |-> e.lo, adrange |-> e.len, inst |-> s]
      BY <2>0, <2>2 DEF set_fde
    <3>2. s \in Seq(Instructions)
      BY MisplacedType
    <3> QED
      BY <1>2, <3>1, <3>2
  <2>3. CASE ~(EhFrame /\ Written(e) # cie.encode)
               /\ ~(EhFrame /\ HasAugData(e.own) # HasAugData(cie.aug))
    <3>1. f = [at |-> eh_offset, initloc |-> e.lo, adrange |-> e.len, inst |-> e.prog]
      BY <2>0, <2>3 DEF set_fde
    <3> QED
      BY <1>2, <3>1
  <2> QED
    BY <2>1, <2>2, <2>3
<1> QED
  BY <1>1, <1>3

LEMMA NextFdeInv == ASSUME ScanInv, NextFde PROVE ScanInv'
<1> PICK k : k = eh_offset
  OBVIOUS
<1>a. k \in 1..Len(section) /\ section[k].kind = "fde"
  BY SectionIs DEF NextFde, Calling, Entry, ScanInv, ScanTypeOK
<1>b. PICK f \in set_fde(Entry) : fde' = f /\ Compare(f)
  BY Zenon DEF NextFde
<1>0. /\ ret = "calling" /\ k \in 1..Len(section) /\ section[k].kind = "fde"
      /\ fde' = f /\ eh_offset' = k + 1 /\ Compare(f) /\ k = eh_offset
      /\ UNCHANGED <<section, cie, addr, start, calls>>
  <2>1. UNCHANGED <<section, addr, start, calls>>
    BY <1>b DEF Compare, More, Return
  <2> QED
    BY <1>a, <1>b, <2>1 DEF NextFde, Calling
<1>1. /\ Covers(fde)' = Covers(f)
      /\ Covers(f) => ret' = "OK"
      /\ ~Covers(f) => ret' = "calling"
  BY <1>0 DEF Compare, Return, More, Covers
<1>2. ScanTypeOK'
  BY <1>0, <1>1, FdeType, SectionIs DEF ScanInv, ScanTypeOK, CieBuffers
<1>3. k \notin Cies /\ k \in Nat
  BY <1>0, SectionIs DEF Cies, ScanInv, ScanTypeOK
<1>4. \A j \in Cies : LastCie(j, k + 1) => LastCie(j, k)
  BY <1>3, SectionIs DEF LastCie, ScanInv, ScanTypeOK
<1>5. CieRead' /\ EncodeRead'
  <2>1. ~AtUnreadable
    BY <1>0 DEF AtUnreadable
  <2> QED
    BY <1>0, <1>4, <2>1, SectionStays DEF CieRead, EncodeRead, ScanInv
<1>6. start <= k + 1 /\ calls > 0 /\ start <= k
  BY <1>0, <1>3 DEF ScanInv, ScanTypeOK
<1>7. ASSUME Orderly
      PROVE  /\ Covers(f) => (HasFde(fde.at) /\ TrulyCovers(fde.at) /\ NoneBefore(fde.at))'
             /\ ~Covers(f) => NoneBefore(eh_offset)'
  <2>1. /\ f = [at |-> k, initloc |-> section[k].lo, adrange |-> section[k].len,
                inst |-> section[k].prog]
        /\ section[k].own \in Cies /\ cie.insts = section[k].own
        /\ cie.factors = section[k].own
    BY <1>0, <1>7, ReadAsWritten DEF Entry
  <2>2. Covers(f) <=> TrulyCovers(k)
    BY <1>0, <2>1 DEF Covers, TrulyCovers
  <2>3. NoneBefore(k)
    BY <1>0, <1>7 DEF ScanInv
  <2>4. CASE Covers(f)
    <3>1. fde'.at = k
      BY <1>0, <2>1
    <3>2. HasFde(k)'
      BY <1>0, <2>1, SectionStays DEF HasFde
    <3>3. TrulyCovers(k)' /\ NoneBefore(k)'
      BY <1>0, <2>2, <2>3, <2>4 DEF TrulyCovers, NoneBefore
    <3> QED
      BY <2>4, <3>1, <3>2, <3>3 DEF HasFde, TrulyCovers, NoneBefore
  <2>5. CASE ~Covers(f)
    <3> SUFFICES ASSUME NEW j \in start..k PROVE ~TrulyCovers(j)
      <4>1. k + 1 - 1 = k
        BY <1>3
      <4> QED
        BY <1>0, <2>5, <4>1 DEF NoneBefore, TrulyCovers
    <3>1. CASE j = k
      BY <2>2, <2>5, <3>1
    <3>2. CASE j # k
      <4>1. j \in start..k-1
        BY <1>3, <3>2 DEF ScanInv, ScanTypeOK
      <4> QED
        BY <2>3, <4>1 DEF NoneBefore
    <3> QED
      BY <3>1, <3>2
  <2> QED
    BY <2>4, <2>5
<1>8. Orderly' = Orderly
  BY <1>0, SectionStays
<1> QED
  <2>1. CASE Covers(f)
    BY <1>0, <1>1, <1>2, <1>5, <1>7, <1>8, <2>1 DEF ScanInv
  <2>2. CASE ~Covers(f)
    BY <1>0, <1>1, <1>2, <1>5, <1>6, <1>7, <1>8, <2>2 DEF ScanInv
  <2> QED
    BY <2>1, <2>2

LEMMA ScanStepInv == ASSUME ScanInv, Step PROVE ScanInv'
BY NoAdvanceInv, GiveUpInv, NextCieInv, NextFdeInv DEF Step

LEMMA ScanStutter == ASSUME ScanInv, UNCHANGED scanVars PROVE ScanInv'
BY DEF scanVars, ScanInv, ScanTypeOK, CieBuffers, NoneEncodes, CieRead, EncodeRead, AtUnreadable, LastCie, Cies,
       Covers, Orderly, NoneBefore, TrulyCovers, HasFde

LEMMA FindsFromInv == ScanInv => FindsFirst
BY DEF ScanInv, FindsFirst, NoneBefore
-----------------------------------------------------------------------------
(* What the instructions mean. *)

\* The last instruction among the first n that is one of ops, or 0.
LastAmong(f, n, ops) == LastIn({k \in 1..n : f[k].op \in ops})

\* The last of a set of indices.
LEMMA LastInIs ==
  ASSUME NEW S \in SUBSET Nat, NEW m \in S, \A k \in S : k <= m
  PROVE  LastIn(S) = m
<1>1. \E x \in S : \A y \in S : x >= y
  OBVIOUS
<1>2. Max(S) \in S /\ \A y \in S : Max(S) >= y
  BY <1>1 DEF Max
<1>3. Max(S) = m
  <2>1. PICK x : x = Max(S)
    OBVIOUS
  <2>2. x \in Nat /\ m \in Nat /\ x >= m /\ x <= m
    BY <1>2, <2>1
  <2> QED
    BY <2>1, <2>2
<1> QED
  BY <1>3 DEF LastIn

\* One instruction more.
LEMMA LastStep ==
  ASSUME NEW f, NEW n \in Nat, NEW ops
  PROVE  LastAmong(f, n + 1, ops) = IF f[n + 1].op \in ops THEN n + 1 ELSE LastAmong(f, n, ops)
<1> DEFINE S(m) == {k \in 1..m : f[k].op \in ops}
<1>1. CASE f[n + 1].op \in ops
  <2>1. n + 1 \in S(n + 1) /\ S(n + 1) \in SUBSET Nat /\ \A k \in S(n + 1) : k <= n + 1
    BY <1>1
  <2> HIDE DEF S
  <2>2. LastIn(S(n + 1)) = n + 1
    BY <2>1, LastInIs
  <2> QED
    BY <1>1, <2>2 DEF LastAmong, S
<1>2. CASE f[n + 1].op \notin ops
  <2>1. S(n + 1) = S(n)
    BY <1>2
  <2> QED
    BY <1>2, <2>1 DEF LastAmong
<1> QED
  BY <1>1, <1>2

LEMMA LastNone == ASSUME NEW f, NEW ops PROVE LastAmong(f, 0, ops) = 0
<1>1. {k \in 1..0 : f[k].op \in ops} = {}
  OBVIOUS
<1> QED
  BY <1>1 DEF LastAmong, LastIn

\* The last one is one of them.
LastOk(f, n, ops) ==
  /\ LastAmong(f, n, ops) \in 0..n
  /\ LastAmong(f, n, ops) > 0 => f[LastAmong(f, n, ops)].op \in ops
  /\ \A k \in 1..n : f[k].op \in ops => k <= LastAmong(f, n, ops)

LEMMA LastIsOne == ASSUME NEW f, NEW n \in Nat, NEW ops PROVE LastOk(f, n, ops)
<1> DEFINE D == {m \in Nat : LastOk(f, m, ops)}
<1>1. 0 \in D
  BY LastNone DEF LastOk
<1>2. ASSUME NEW m \in D PROVE m + 1 \in D
  <2>1. LastAmong(f, m + 1, ops) = IF f[m + 1].op \in ops THEN m + 1 ELSE LastAmong(f, m, ops)
    BY LastStep
  <2>2. m \in Nat /\ LastOk(f, m, ops)
    OBVIOUS
  <2> QED
    BY <2>1, <2>2 DEF LastOk
<1>3. D \in SUBSET Nat
  OBVIOUS
<1> HIDE DEF D
<1>4. D = Nat
  BY <1>1, <1>2, <1>3, AllNat
<1> QED
  BY <1>4 DEF D
-----------------------------------------------------------------------------
\* The locations of the instructions are well defined.
Delta(q, j) == IF q.inst[j].op = "advance_loc" THEN q.inst[j].val * q.caf ELSE 0

LocationUpTo(q, n, g) ==
  g = [j \in 0..n |-> IF j = 0 THEN q.initloc ELSE g[j - 1] + Delta(q, j)]

LEMMA LocationFunction ==
  ASSUME NEW q, NEW n \in Nat
  PROVE  \E g : LocationUpTo(q, n, g)
<1> DEFINE D == {m \in Nat : \E g : LocationUpTo(q, m, g)}
<1>1. 0 \in D
  <2> DEFINE g == [j \in 0..0 |-> q.initloc]
  <2>1. LocationUpTo(q, 0, g)
    BY DEF LocationUpTo
  <2> QED
    BY <2>1
<1>2. ASSUME NEW m \in D PROVE m + 1 \in D
  <2>1. PICK g : LocationUpTo(q, m, g)
    OBVIOUS
  <2> DEFINE h == [j \in 0..m+1 |-> IF j <= m THEN g[j] ELSE g[m] + Delta(q, m + 1)]
  <2>2. m \in Nat /\ m + 1 \in Nat
    OBVIOUS
  <2>3. \A j \in 0..m : g[j] = IF j = 0 THEN q.initloc ELSE g[j - 1] + Delta(q, j)
    BY <2>1, <2>2 DEF LocationUpTo
  <2>4. ASSUME NEW j \in 0..m+1
        PROVE  h[j] = IF j = 0 THEN q.initloc ELSE h[j - 1] + Delta(q, j)
    <3>1. CASE j = m + 1
      <4>1. j # 0 /\ j - 1 \in 0..m+1 /\ j - 1 = m /\ ~(j <= m)
        BY <2>2, <3>1
      <4> QED
        BY <2>2, <3>1, <4>1
    <3>2. CASE j # m + 1 /\ j # 0
      <4>1. j \in 0..m /\ j - 1 \in 0..m+1 /\ j - 1 <= m /\ j <= m
        BY <2>2, <3>2
      <4> QED
        BY <2>3, <3>2, <4>1
    <3>3. CASE j = 0
      BY <2>2, <2>3, <3>3
    <3> QED
      BY <3>1, <3>2, <3>3
  <2>5. h = [j \in 0..m+1 |-> h[j]]
    OBVIOUS
  <2> HIDE DEF h
  <2>6. LocationUpTo(q, m + 1, h)
    BY <2>4, <2>5 DEF LocationUpTo
  <2> QED
    BY <2>2, <2>6
<1>3. D \in SUBSET Nat
  OBVIOUS
<1> HIDE DEF D
<1>4. D = Nat
  BY <1>1, <1>2, <1>3, AllNat
<1> QED
  BY <1>4 DEF D

\* The FDE starts at its initial location, and an advance moves on.
LEMMA LocationIs ==
  ASSUME NEW q, Len(q.inst) \in Nat
  PROVE  /\ Location(q, 1) = q.initloc
         /\ \A k \in 1..Len(q.inst) : Location(q, k + 1) = Location(q, k) + Delta(q, k)
<1> DEFINE n == Len(q.inst)
           loc == CHOOSE g : LocationUpTo(q, n, g)
<1>1. LocationUpTo(q, n, loc)
  BY LocationFunction
<1>2. \A k : Location(q, k) = loc[k - 1]
  BY DEF Location, LocationUpTo, Delta
<1> HIDE DEF loc
<1>3. \A j \in 0..n : loc[j] = IF j = 0 THEN q.initloc ELSE loc[j - 1] + Delta(q, j)
  BY <1>1 DEF LocationUpTo
<1>4. loc[0] = q.initloc
  BY <1>3
<1>5. \A k \in 1..n : k + 1 - 1 = k /\ k \in 0..n /\ k # 0
  OBVIOUS
<1>6. 1 - 1 = 0
  OBVIOUS
<1> QED
  BY <1>2, <1>3, <1>4, <1>5, <1>6
-----------------------------------------------------------------------------
\* So are the meanings of the registers.
NextMeaning(f, daf, r, base, g, k) ==
  LET m == LastAmong(f, k - 1, {"remember_state"})
  IN CASE f[k].op = "restore_state" /\ m > 0 -> g[m - 1]
       [] f[k].op = "restore" /\ f[k].reg = r -> base
       [] f[k].op \in RegOps \ {"restore"} /\ f[k].reg = r -> Given(f[k], daf)
       [] OTHER -> g[k - 1]

MeaningsUpTo(f, daf, r, base, n, g) ==
  g = [k \in 0..n |-> IF k = 0 THEN base ELSE NextMeaning(f, daf, r, base, g, k)]

\* The cases exclude each other.
LEMMA NextMeaningIs ==
  ASSUME NEW f, NEW daf, NEW r, NEW base, NEW g, NEW k
  PROVE  LET m == LastAmong(f, k - 1, {"remember_state"})
         IN NextMeaning(f, daf, r, base, g, k) =
              IF f[k].op = "restore_state" /\ m > 0 THEN g[m - 1]
              ELSE IF f[k].op = "restore" /\ f[k].reg = r THEN base
              ELSE IF f[k].op \in RegOps \ {"restore"} /\ f[k].reg = r THEN Given(f[k], daf)
              ELSE g[k - 1]
<1> DEFINE m == LastAmong(f, k - 1, {"remember_state"})
           A == f[k].op = "restore_state" /\ m > 0
           B == f[k].op = "restore" /\ f[k].reg = r
           C == f[k].op \in RegOps \ {"restore"} /\ f[k].reg = r
<1>1. ~(A /\ B) /\ ~(A /\ C) /\ ~(B /\ C)
  BY DEF RegOps
<1>2. NextMeaning(f, daf, r, base, g, k) =
        CASE A -> g[m - 1] [] B -> base [] C -> Given(f[k], daf) [] OTHER -> g[k - 1]
  BY DEF NextMeaning
<1> HIDE DEF A, B, C
<1>3. NextMeaning(f, daf, r, base, g, k) =
        IF A THEN g[m - 1] ELSE IF B THEN base ELSE IF C THEN Given(f[k], daf) ELSE g[k - 1]
  BY <1>1, <1>2, Zenon
<1> QED
  BY <1>3, Zenon DEF A, B, C

\* A meaning depends on earlier ones only.
LEMMA MeaningLooksBack ==
  ASSUME NEW f, NEW daf, NEW r, NEW base, NEW k \in Nat \ {0}, NEW g, NEW h,
         \A j \in 0..k-1 : g[j] = h[j]
  PROVE  NextMeaning(f, daf, r, base, g, k) = NextMeaning(f, daf, r, base, h, k)
<1> DEFINE m == LastAmong(f, k - 1, {"remember_state"})
<1>1. m \in 0..k-1
  <2>1. PICK n \in Nat : n = k - 1
    OBVIOUS
  <2>2. LastOk(f, n, {"remember_state"})
    BY LastIsOne
  <2> QED
    BY <2>1, <2>2 DEF LastOk
<1>2. m > 0 => g[m - 1] = h[m - 1]
  BY <1>1
<1>3. g[k - 1] = h[k - 1]
  OBVIOUS
<1>4. ASSUME NEW w
      PROVE  NextMeaning(f, daf, r, base, w, k) =
               IF f[k].op = "restore_state" /\ m > 0 THEN w[m - 1]
               ELSE IF f[k].op = "restore" /\ f[k].reg = r THEN base
               ELSE IF f[k].op \in RegOps \ {"restore"} /\ f[k].reg = r THEN Given(f[k], daf)
               ELSE w[k - 1]
  BY NextMeaningIs
<1> HIDE DEF m
<1> QED
  BY <1>2, <1>3, <1>4

LEMMA MeaningFunction ==
  ASSUME NEW f, NEW daf, NEW r, NEW base, NEW n \in Nat
  PROVE  \E g : MeaningsUpTo(f, daf, r, base, n, g)
<1> DEFINE D == {m \in Nat : \E g : MeaningsUpTo(f, daf, r, base, m, g)}
<1>1. 0 \in D
  <2> DEFINE g == [k \in 0..0 |-> base]
  <2>1. MeaningsUpTo(f, daf, r, base, 0, g)
    BY DEF MeaningsUpTo
  <2> QED
    BY <2>1
<1>2. ASSUME NEW m \in D PROVE m + 1 \in D
  <2>1. PICK g : MeaningsUpTo(f, daf, r, base, m, g)
    OBVIOUS
  <2> DEFINE h == [k \in 0..m+1 |->
                     IF k <= m THEN g[k] ELSE NextMeaning(f, daf, r, base, g, m + 1)]
  <2>2. m \in Nat /\ m + 1 \in Nat
    OBVIOUS
  <2>3. \A k \in 0..m : g[k] = IF k = 0 THEN base ELSE NextMeaning(f, daf, r, base, g, k)
    BY <2>1, <2>2 DEF MeaningsUpTo
  <2>4. \A k \in 0..m : h[k] = g[k]
    BY <2>2
  <2>5. h[m + 1] = NextMeaning(f, daf, r, base, g, m + 1)
    BY <2>2
  <2>6. h = [k \in 0..m+1 |-> h[k]]
    OBVIOUS
  <2> HIDE DEF h
  <2>7. ASSUME NEW k \in 1..m+1
        PROVE  NextMeaning(f, daf, r, base, g, k) = NextMeaning(f, daf, r, base, h, k)
    <3>1. k \in Nat \ {0} /\ \A j \in 0..k-1 : g[j] = h[j]
      BY <2>2, <2>4
    <3> QED
      BY <3>1, MeaningLooksBack
  <2>8. ASSUME NEW k \in 0..m+1
        PROVE  h[k] = IF k = 0 THEN base ELSE NextMeaning(f, daf, r, base, h, k)
    <3>1. CASE k = m + 1
      BY <2>2, <2>5, <2>7, <3>1
    <3>2. CASE k # m + 1
      <4>1. k \in 0..m /\ (k # 0 => k \in 1..m+1)
        BY <2>2, <3>2
      <4> QED
        BY <2>3, <2>4, <2>7, <4>1
    <3> QED
      BY <3>1, <3>2
  <2>9. MeaningsUpTo(f, daf, r, base, m + 1, h)
    BY <2>6, <2>8 DEF MeaningsUpTo
  <2> QED
    BY <2>2, <2>9
<1>3. D \in SUBSET Nat
  OBVIOUS
<1> HIDE DEF D
<1>4. D = Nat
  BY <1>1, <1>2, <1>3, AllNat
<1> QED
  BY <1>4 DEF D

\* The meaning after no instruction, and after one more.
MeansNext(f, n, daf, r, base) ==
  LET m == LastAmong(f, n, {"remember_state"})
      i == f[n + 1]
  IN After(f, n + 1, daf, r, base) =
       IF i.op = "restore_state" /\ m > 0 THEN After(f, m - 1, daf, r, base)
       ELSE IF i.op = "restore" /\ i.reg = r THEN base
       ELSE IF i.op \in RegOps \ {"restore"} /\ i.reg = r THEN Given(i, daf)
       ELSE After(f, n, daf, r, base)

LEMMA AfterIs ==
  ASSUME NEW f, Len(f) \in Nat, NEW daf, NEW r, NEW base
  PROVE  /\ After(f, 0, daf, r, base) = base
         /\ \A n \in 0..Len(f)-1 : MeansNext(f, n, daf, r, base)
<1> DEFINE after == CHOOSE g : MeaningsUpTo(f, daf, r, base, Len(f), g)
<1>1. MeaningsUpTo(f, daf, r, base, Len(f), after)
  BY MeaningFunction
<1>2. \A n : After(f, n, daf, r, base) = after[n]
  BY DEF After, MeaningsUpTo, NextMeaning, LastAmong
<1> HIDE DEF after
<1>3. \A k \in 0..Len(f) :
        after[k] = IF k = 0 THEN base ELSE NextMeaning(f, daf, r, base, after, k)
  BY <1>1 DEF MeaningsUpTo
<1>4. ASSUME NEW n \in 0..Len(f)-1 PROVE MeansNext(f, n, daf, r, base)
  <2> DEFINE m == LastAmong(f, n, {"remember_state"})
  <2>1. n + 1 \in 0..Len(f) /\ n + 1 # 0 /\ n + 1 - 1 = n
    OBVIOUS
  <2>2. after[n + 1] = NextMeaning(f, daf, r, base, after, n + 1)
    BY <1>3, <2>1
  <2> HIDE DEF m
  <2>3. after[n + 1] =
          IF f[n + 1].op = "restore_state" /\ m > 0 THEN after[m - 1]
          ELSE IF f[n + 1].op = "restore" /\ f[n + 1].reg = r THEN base
          ELSE IF f[n + 1].op \in RegOps \ {"restore"} /\ f[n + 1].reg = r
               THEN Given(f[n + 1], daf)
          ELSE after[n]
    BY <2>1, <2>2, NextMeaningIs DEF m
  <2> QED
    BY <1>2, <2>3 DEF MeansNext, m
<1> QED
  BY <1>2, <1>3, <1>4
-----------------------------------------------------------------------------
(* The query. *)

Rules ==
  [relevant : BOOLEAN, type : {"offset", "val_offset", "expression", "val_expression"},
   regnum : Int, off : Int]

\* The caller's entries.
Columns == [relevant : BOOLEAN, regnum : Int, off : Int]

Tables == [cfa : Rules, rules : [Regs -> Rules]]

FrameTypeOK ==
  /\ stage \in {"idle", "cie", "fde", "done", "error", "panic"}
  /\ query \in [initinst : Seq(Instructions), inst : Seq(Instructions),
                caf : Nat, daf : Int, initloc : Nat, pc : Nat]
  /\ rt \in Tables /\ shadow \in Tables /\ saved \in BOOLEAN
  /\ ip \in Nat \ {0} /\ pc \in Nat /\ row \in Nat
  /\ reg_table \in [Regs -> Columns]

\* The instructions that begin a row.
Changes ==
  (RegOps \ {"same_value"}) \cup
  {"restore_state", "def_cfa", "def_cfa_register", "def_cfa_offset", "def_cfa_expression"}

\* What a rule of a register or of the CFA becomes in the caller's table.
LEMMA HandedOutIs ==
  ASSUME NEW rule \in Rules
  PROVE  /\ HandedOut(rule) \in Columns
         /\ Told(HandedOut(rule)) = Sayable(Meaning(rule))
         /\ HandedOut(rule).relevant = rule.relevant
         /\ HandedOut(rule).regnum = rule.regnum /\ HandedOut(rule).off = rule.off
BY DEF Rules, Columns, HandedOut, Told, Sayable, Meaning

\* The caller's table cannot say what an expression is.
Means(rule, m) == m \in {Meaning(rule), <<"expression", 0>>}

\* What an instruction does to the rules of the registers.
RulesEffect(i) ==
  \A r \in Regs :
    IF i.op = "restore_state" THEN rt'.rules[r] = shadow.rules[r]
    ELSE IF i.op \in RegOps /\ i.reg = r
    THEN IF i.op = "restore" THEN rt'.rules[r] = shadow.rules[r]
         ELSE Means(rt'.rules[r], Given(i, query.daf))
    ELSE rt'.rules[r] = rt.rules[r]

\* And to that of the CFA.
CfaEffect(i) ==
  i.op # "restore_state" =>
    /\ IF i.op \in {"def_cfa", "def_cfa_register"} THEN rt'.cfa.regnum = i.reg
       ELSE rt'.cfa.regnum = rt.cfa.regnum
    /\ i.op \in {"def_cfa", "def_cfa_offset"} => rt'.cfa.relevant /\ rt'.cfa.off = i.val
    /\ i.op \notin {"def_cfa", "def_cfa_offset", "def_cfa_expression"} =>
         rt'.cfa.relevant = rt.cfa.relevant /\ rt'.cfa.off = rt.cfa.off

\* One instruction i has been executed.
Executed(i) ==
  /\ Running /\ ip <= Len(Program) /\ i = Inst /\ i.op # "set_loc"
  /\ ip' = ip + 1 /\ UNCHANGED <<stage, query, reg_table>>
  /\ IF i.op = "advance_loc"
     THEN pc' = pc + i.val * query.caf /\ (Limited => pc' <= query.pc)
     ELSE pc' = pc
  /\ row' = IF i.op \in Changes THEN pc ELSE row
  /\ IF i.op = "remember_state" THEN shadow' = rt /\ saved' = TRUE
     ELSE shadow' = shadow /\ saved' = saved
  /\ i.op = "restore_state" => saved
  /\ rt' \in Tables
  /\ RulesEffect(i) /\ CfaEffect(i)

\* The program is done: it has ended, or passes the requested pc.
Stopped ==
  /\ Running /\ ProgramDone
  /\ \/ ip > Len(Program)
     \/ ip <= Len(Program) /\ Inst.op = "set_loc"
     \/ /\ ip <= Len(Program) /\ Limited /\ Inst.op = "advance_loc"
        /\ pc + Inst.val * query.caf > query.pc

LEMMA RegsAre == NumRegs \in Nat /\ CfaColumn \in Nat /\ Regs = 0..NumRegs-1
BY FrameAssumption DEF Regs

\* An instruction that is executed.
LEMMA InstIs ==
  ASSUME FrameTypeOK, Running, ip <= Len(Program)
  PROVE  /\ Inst \in Instructions /\ Inst.op \in Opcodes /\ Inst.reg \in Nat /\ Inst.val \in Int
         /\ Inst.op = "advance_loc" => Inst.val \in Nat
         /\ Inst.reg < NumRegs => Inst.reg \in Regs
<1>1. Program \in Seq(Instructions) /\ ip \in 1..Len(Program)
  BY DEF FrameTypeOK, Program
<1>2. Inst \in Instructions
  BY <1>1 DEF Inst
<1> HIDE DEF Inst
<1>3. Inst.reg \in Nat
  BY <1>2 DEF Instructions
<1> QED
  BY <1>2, <1>3, RegsAre DEF Instructions, Inst

\* What an instruction on a register gives it.
LEMMA GivenIs ==
  ASSUME NEW i, NEW daf
  PROVE  /\ i.op \in {"offset", "val_offset"} => Given(i, daf) = <<i.op, i.val * daf>>
         /\ i.op = "undefined" => Given(i, daf) = <<"register", UNDEFINED_VAL>>
         /\ i.op = "same_value" => Given(i, daf) = <<"register", SAME_VAL>>
         /\ i.op = "register" => Given(i, daf) = <<"register", i.val>>
         /\ i.op \in {"expression", "val_expression"} => Given(i, daf) = <<"expression", 0>>
BY DEF Given

\* A rule is written into the table.
LEMMA RuleWritten ==
  ASSUME FrameTypeOK, NEW k \in Regs, NEW rule \in Rules,
         rt' = [rt EXCEPT !.rules[k] = rule]
  PROVE  /\ rt' \in Tables /\ rt'.cfa = rt.cfa
         /\ \A r \in Regs : rt'.rules[r] = IF r = k THEN rule ELSE rt.rules[r]
BY DEF FrameTypeOK, Tables

LEMMA CfaWritten ==
  ASSUME FrameTypeOK, NEW rule \in Rules, rt' = [rt EXCEPT !.cfa = rule]
  PROVE  rt' \in Tables /\ rt'.cfa = rule /\ rt'.rules = rt.rules
BY DEF FrameTypeOK, Tables

\* An instruction that writes the rule of a register.
LEMMA RegExecuted ==
  ASSUME FrameTypeOK, Running, ip <= Len(Program), Inst.op \in RegOps, InTable,
         NEW rule \in Rules, rt' = [rt EXCEPT !.rules[Inst.reg] = rule],
         Continue, UNCHANGED <<shadow, saved, pc>>,
         row' = IF Inst.op \in Changes THEN pc ELSE row,
         IF Inst.op = "restore" THEN rule = shadow.rules[Inst.reg]
         ELSE Means(rule, Given(Inst, query.daf))
  PROVE  Executed(Inst)
<1> PICK i : i = Inst
  OBVIOUS
<1>1. i.op \in RegOps /\ i.reg \in Regs
  BY InstIs DEF InTable
<1>2. /\ rt' \in Tables /\ rt'.cfa = rt.cfa
      /\ \A r \in Regs : rt'.rules[r] = IF r = i.reg THEN rule ELSE rt.rules[r]
  <2>1. PICK k \in Regs : k = i.reg
    BY <1>1
  <2> QED
    BY <2>1, RuleWritten
<1>3. i.op \notin {"set_loc", "advance_loc", "remember_state", "restore_state", "def_cfa",
                   "def_cfa_register", "def_cfa_offset", "def_cfa_expression"}
  BY <1>1 DEF RegOps
<1>4. RulesEffect(i)
  BY <1>2, <1>3 DEF RulesEffect
<1>5. CfaEffect(i)
  BY <1>2, <1>3 DEF CfaEffect
<1> QED
  BY <1>2, <1>3, <1>4, <1>5 DEF Executed, Continue

\* One that writes the rule of the CFA.
LEMMA CfaExecuted ==
  ASSUME FrameTypeOK, Running, ip <= Len(Program), NEW rule \in Rules, SetCfa(rule),
         Inst.op \in {"def_cfa", "def_cfa_register", "def_cfa_offset", "def_cfa_expression"},
         IF Inst.op \in {"def_cfa", "def_cfa_register"} THEN rule.regnum = Inst.reg
         ELSE rule.regnum = rt.cfa.regnum,
         Inst.op \in {"def_cfa", "def_cfa_offset"} => rule.relevant /\ rule.off = Inst.val,
         Inst.op = "def_cfa_register" =>
           rule.relevant = rt.cfa.relevant /\ rule.off = rt.cfa.off
  PROVE  Executed(Inst)
<1> PICK i : i = Inst
  OBVIOUS
<1>1. /\ rt' = [rt EXCEPT !.cfa = rule] /\ row' = pc
      /\ Continue /\ UNCHANGED <<shadow, saved, pc>>
  BY DEF SetCfa
<1>2. rt' \in Tables /\ rt'.cfa = rule /\ rt'.rules = rt.rules
  BY <1>1, CfaWritten
<1>3. i.op \notin RegOps /\ i.op \in Changes
        /\ i.op \notin {"set_loc", "advance_loc", "remember_state", "restore_state"}
  BY DEF RegOps, Changes
<1>4. RulesEffect(i)
  BY <1>2, <1>3 DEF RulesEffect
<1>5. CfaEffect(i)
  BY <1>2, <1>3 DEF CfaEffect
<1> QED
  BY <1>1, <1>2, <1>3, <1>4, <1>5 DEF Executed, Continue

\* One that leaves the rules alone.
LEMMA OtherExecuted ==
  ASSUME FrameTypeOK, Running, ip <= Len(Program), Continue, rt' = rt, row' = row,
         Inst.op \in {"nop", "advance_loc", "remember_state"},
         IF Inst.op = "advance_loc"
         THEN pc' = pc + Inst.val * query.caf /\ (Limited => pc' <= query.pc)
         ELSE pc' = pc,
         IF Inst.op = "remember_state" THEN shadow' = rt /\ saved' = TRUE
         ELSE shadow' = shadow /\ saved' = saved
  PROVE  Executed(Inst)
<1> PICK i : i = Inst
  OBVIOUS
<1>1. i.op \notin RegOps /\ i.op \notin Changes
        /\ i.op \notin {"set_loc", "restore_state", "def_cfa", "def_cfa_register",
                        "def_cfa_offset", "def_cfa_expression"}
  BY DEF RegOps, Changes
<1>2. RulesEffect(i)
  BY <1>1 DEF RulesEffect
<1>3. CfaEffect(i)
  BY <1>1 DEF CfaEffect
<1>4. rt' \in Tables
  BY DEF FrameTypeOK
<1> QED
  BY <1>1, <1>2, <1>3, <1>4 DEF Executed, Continue

LEMMA OffsetsExecuted ==
  ASSUME FrameTypeOK, Offset \/ ValOffset
  PROVE  Executed(Inst)
<1> DEFINE rule == Rule(TRUE, Inst.op, CfaColumn, Inst.val * query.daf)
<1>1. /\ Running /\ ip <= Len(Program) /\ InTable /\ SetRule(rule)
      /\ Inst.op \in {"offset", "val_offset"}
  BY DEF Offset, ValOffset, Executes
<1>2. Inst.val * query.daf \in Int
  <2>1. PICK u, v : u = Inst.val /\ v = query.daf
    OBVIOUS
  <2>2. u \in Int /\ v \in Int
    BY <1>1, <2>1, InstIs DEF FrameTypeOK
  <2> QED
    BY <2>1, <2>2
<1>3. rule \in Rules /\ Meaning(rule) = <<Inst.op, Inst.val * query.daf>>
  <2>1. PICK o, x : o = Inst.op /\ x = Inst.val * query.daf
    OBVIOUS
  <2>2. o \in {"offset", "val_offset"} /\ x \in Int
    BY <1>1, <1>2, <2>1
  <2> QED
    BY <2>1, <2>2, RegsAre DEF Rule, Rules, Meaning
<1>4. Means(rule, Given(Inst, query.daf))
  BY <1>1, <1>3, GivenIs DEF Means
<1>5. Inst.op \in RegOps /\ Inst.op \in Changes /\ Inst.op # "restore"
  BY <1>1 DEF RegOps, Changes
<1> HIDE DEF rule
<1> QED
  BY <1>1, <1>3, <1>4, <1>5, RegExecuted DEF SetRule

\* The rule that was there, for an instruction on a register of the table.
LEMMA OldIs ==
  ASSUME FrameTypeOK, Running, ip <= Len(Program), InTable
  PROVE  /\ Old \in Rules /\ shadow.rules[Inst.reg] \in Rules
         /\ Old = Rule(Old.relevant, Old.type, Old.regnum, Old.off)
<1>1. PICK k : k = Inst.reg
  OBVIOUS
<1>2. k \in Regs
  BY <1>1, InstIs DEF InTable
<1>3. rt.rules[k] \in Rules /\ shadow.rules[k] \in Rules
  BY <1>2 DEF FrameTypeOK, Tables
<1>4. Old \in Rules
  BY <1>1, <1>3 DEF Old
<1> HIDE DEF Old
<1> QED
  BY <1>1, <1>3, <1>4 DEF Rules, Rule

LEMMA RestoreExecuted == ASSUME FrameTypeOK, Restore PROVE Executed(Inst)
<1>1. /\ Running /\ ip <= Len(Program) /\ InTable /\ SetRule(shadow.rules[Inst.reg])
      /\ Inst.op = "restore"
  BY DEF Restore, Executes
<1>2. shadow.rules[Inst.reg] \in Rules
  BY <1>1, OldIs
<1>3. Inst.op \in RegOps /\ Inst.op \in Changes
  BY <1>1 DEF RegOps, Changes
<1> QED
  BY <1>1, <1>2, <1>3, RegExecuted DEF SetRule

\* The rule becomes irrelevant: the register is in another one, or nowhere.
LEMMA RegisterExecuted ==
  ASSUME FrameTypeOK, Undefined \/ Register \/ SameValue
  PROVE  Executed(Inst)
<1> DEFINE to == IF Inst.op = "undefined" THEN UNDEFINED_VAL
                 ELSE IF Inst.op = "same_value" THEN SAME_VAL ELSE Inst.val
           rule == [Old EXCEPT !.relevant = FALSE, !.regnum = to]
<1>1. /\ Running /\ ip <= Len(Program) /\ InTable
      /\ Inst.op \in {"undefined", "register", "same_value"}
      /\ rt' = [rt EXCEPT !.rules[Inst.reg] = rule]
      /\ Continue /\ UNCHANGED <<shadow, saved, pc>>
      /\ row' = IF Inst.op = "same_value" THEN row ELSE pc
  BY DEF Undefined, Register, SameValue, Executes, SetRule
<1>2. to \in Int
  BY <1>1, InstIs DEF UNDEFINED_VAL, SAME_VAL
<1>3. rule \in Rules /\ Meaning(rule) = <<"register", to>>
  <2>1. PICK o, x : o = Old /\ x = to
    OBVIOUS
  <2>2. o \in Rules /\ x \in Int
    BY <1>1, <1>2, <2>1, OldIs
  <2> HIDE DEF to
  <2> QED
    BY <2>1, <2>2 DEF Rules, Meaning
<1>4. Means(rule, Given(Inst, query.daf))
  BY <1>1, <1>3, GivenIs DEF Means
<1>5. Inst.op \in RegOps /\ (Inst.op \in Changes <=> Inst.op # "same_value") /\ Inst.op # "restore"
  BY <1>1 DEF RegOps, Changes
<1> HIDE DEF rule
<1> QED
  BY <1>1, <1>3, <1>4, <1>5, RegExecuted

LEMMA ExpressionExecuted == ASSUME FrameTypeOK, Expression PROVE Executed(Inst)
<1> DEFINE rule == [Old EXCEPT !.relevant = FALSE, !.type = Inst.op, !.off = Inst.val]
<1>1. /\ Running /\ ip <= Len(Program) /\ InTable /\ SetRule(rule)
      /\ Inst.op \in {"expression", "val_expression"}
  BY DEF Expression, Executes
<1>2. rule \in Rules
  <2>1. PICK o, x, t : o = Old /\ x = Inst.val /\ t = Inst.op
    OBVIOUS
  <2>2. o \in Rules /\ x \in Int /\ t \in {"expression", "val_expression"}
    BY <1>1, <2>1, OldIs, InstIs
  <2> QED
    BY <2>1, <2>2 DEF Rules
<1>3. Means(rule, Given(Inst, query.daf))
  BY <1>1, GivenIs DEF Means
<1>4. Inst.op \in RegOps /\ Inst.op \in Changes /\ Inst.op # "restore"
  BY <1>1 DEF RegOps, Changes
<1> HIDE DEF rule
<1> QED
  BY <1>1, <1>2, <1>3, <1>4, RegExecuted DEF SetRule

LEMMA DefCfaExecuted ==
  ASSUME FrameTypeOK, DefCfa \/ DefCfaRegister \/ DefCfaOffset \/ DefCfaExpression
  PROVE  Executed(Inst)
<1>1. Running /\ ip <= Len(Program)
  BY DEF DefCfa, DefCfaRegister, DefCfaOffset, DefCfaExpression, Executes
<1>2. PICK o, i : o = rt.cfa /\ i = Inst
  OBVIOUS
<1>3. o \in Rules /\ i.reg \in Int /\ i.val \in Int /\ o.regnum \in Int
  <2>1. o \in Rules
    BY <1>2 DEF FrameTypeOK, Tables
  <2> QED
    BY <1>1, <1>2, <2>1, InstIs DEF Rules
<1>4. CASE DefCfa
  <2> DEFINE rule == Rule(TRUE, "offset", i.reg, i.val)
  <2>1. SetCfa(rule) /\ i.op = "def_cfa"
    BY <1>2, <1>4 DEF DefCfa, Executes
  <2>2. rule \in Rules /\ rule.regnum = i.reg /\ rule.relevant /\ rule.off = i.val
    BY <1>3 DEF Rule, Rules
  <2> HIDE DEF rule
  <2> QED
    BY <1>1, <1>2, <2>1, <2>2, CfaExecuted
<1>5. CASE DefCfaRegister
  <2> DEFINE rule == [o EXCEPT !.regnum = i.reg]
  <2>1. SetCfa(rule) /\ i.op = "def_cfa_register"
    BY <1>2, <1>5 DEF DefCfaRegister, Executes
  <2>2. /\ rule \in Rules /\ rule.regnum = i.reg
        /\ rule.relevant = o.relevant /\ rule.off = o.off
    BY <1>3 DEF Rules
  <2> HIDE DEF rule
  <2> QED
    BY <1>1, <1>2, <2>1, <2>2, CfaExecuted
<1>6. CASE DefCfaOffset
  <2> DEFINE rule == Rule(TRUE, "offset", o.regnum, i.val)
  <2>1. SetCfa(rule) /\ i.op = "def_cfa_offset"
    BY <1>2, <1>6 DEF DefCfaOffset, Executes
  <2>2. rule \in Rules /\ rule.regnum = o.regnum /\ rule.relevant /\ rule.off = i.val
    BY <1>3 DEF Rule, Rules
  <2> HIDE DEF rule
  <2> QED
    BY <1>1, <1>2, <2>1, <2>2, CfaExecuted
<1>7. CASE DefCfaExpression
  <2> DEFINE rule == Rule(FALSE, "expression", o.regnum, i.val)
  <2>1. SetCfa(rule) /\ i.op = "def_cfa_expression"
    BY <1>2, <1>7 DEF DefCfaExpression, Executes
  <2>2. rule \in Rules /\ rule.regnum = o.regnum
    BY <1>3 DEF Rule, Rules
  <2> HIDE DEF rule
  <2> QED
    BY <1>1, <1>2, <2>1, <2>2, CfaExecuted
<1> QED
  BY <1>4, <1>5, <1>6, <1>7

\* The whole table is put back.
LEMMA RestoreStateExecuted ==
  ASSUME FrameTypeOK, RestoreState, saved
  PROVE  Executed(Inst)
<1> PICK i : i = Inst
  OBVIOUS
<1>1. /\ Running /\ ip <= Len(Program) /\ i.op = "restore_state"
      /\ rt' = shadow /\ row' = pc /\ Continue /\ UNCHANGED <<shadow, saved, pc>>
  BY DEF RestoreState, Executes
<1>2. i.op \in Changes /\ i.op # "set_loc" /\ i.op # "advance_loc" /\ i.op # "remember_state"
  BY <1>1 DEF Changes
<1>3. RulesEffect(i) /\ CfaEffect(i)
  BY <1>1 DEF RulesEffect, CfaEffect
<1>4. rt' \in Tables
  BY <1>1 DEF FrameTypeOK
<1> QED
  BY <1>1, <1>2, <1>3, <1>4 DEF Executed, Continue

\* What a step of a query can be.
LEMMA FrameSteps ==
  ASSUME FrameTypeOK, FrameStep
  PROVE  \/ Executed(Inst) \/ Stopped \/ QueryReturn
         \/ Running /\ Fail("error")
         \/ Running /\ Fail("panic")
<1>1. CASE EndOfProgram
  BY <1>1 DEF EndOfProgram, Stopped
<1>2. CASE CHECK_TABLE_SIZE \/ BadOpcode
  BY <1>2 DEF CHECK_TABLE_SIZE, BadOpcode, Executes
<1>3. CASE Nop
  <2>1. /\ Running /\ ip <= Len(Program) /\ Continue /\ Inst.op = "nop"
        /\ UNCHANGED <<rt, shadow, saved, pc, row>>
    BY <1>3 DEF Nop, Executes
  <2> QED
    BY <2>1, OtherExecuted
<1>4. CASE AdvanceLoc
  <2> PICK to : to = pc + Inst.val * query.caf
    OBVIOUS
  <2>1. Running /\ ip <= Len(Program) /\ Inst.op = "advance_loc"
    BY <1>4 DEF AdvanceLoc, Executes
  <2>2. CASE Limited /\ query.pc < to
    <3>1. ProgramDone
      BY <1>4, <2>2 DEF AdvanceLoc
    <3> QED
      BY <2>1, <2>2, <3>1 DEF Stopped
  <2>3. CASE ~(Limited /\ query.pc < to)
    <3>1. Continue /\ pc' = to /\ UNCHANGED <<rt, shadow, saved, row>>
      BY <1>4, <2>3 DEF AdvanceLoc
    <3>2. to \in Int /\ query.pc \in Int
      <4>1. PICK u, v : u = Inst.val /\ v = query.caf
        OBVIOUS
      <4>2. u \in Int /\ v \in Int /\ pc \in Int /\ query.pc \in Int
        BY <2>1, <4>1, InstIs DEF FrameTypeOK
      <4>3. u * v \in Int
        BY <4>2
      <4> QED
        BY <4>1, <4>2, <4>3
    <3>3. Limited => pc' <= query.pc
      BY <2>3, <3>1, <3>2
    <3> QED
      BY <2>1, <3>1, <3>3, OtherExecuted
  <2> QED
    BY <2>2, <2>3
<1>5. CASE SetLoc
  BY <1>5 DEF SetLoc, Executes, Stopped
<1>6. CASE RememberState
  <2>1. /\ Running /\ ip <= Len(Program) /\ Continue /\ Inst.op = "remember_state"
        /\ UNCHANGED <<rt, pc, row>> /\ shadow' = rt /\ saved' = TRUE
    BY <1>6 DEF RememberState, Executes
  <2> QED
    BY <2>1, OtherExecuted
<1>7. CASE RestoreState
  <2>1. CASE saved
    BY <1>7, <2>1, RestoreStateExecuted
  <2>2. CASE ~saved
    BY <1>7, <2>2 DEF RestoreState, Executes
  <2> QED
    BY <2>1, <2>2
<1> QED
  BY <1>1, <1>2, <1>3, <1>4, <1>5, <1>6, <1>7, OffsetsExecuted, RestoreExecuted,
     RegisterExecuted, ExpressionExecuted, DefCfaExecuted DEF FrameStep
-----------------------------------------------------------------------------
\* The registers of a table mean what the first n instructions of f make of
\* them, and those of the copy what the ones before the last remember_state do.
TableMeans(rules, copy, isSaved, f, n, daf, base) ==
  LET m == LastAmong(f, n, {"remember_state"})
  IN /\ isSaved <=> m > 0
     /\ \A r \in Regs :
          /\ Means(rules[r], After(f, n, daf, r, base[r]))
          /\ Means(copy[r], IF m > 0 THEN After(f, m - 1, daf, r, base[r]) ELSE base[r])

\* What the registers mean before the program that runs.
Base ==
  [r \in Regs |-> IF stage = "cie" THEN <<"register", SAME_VAL>> ELSE Initial(query, r)]

\* The rule of the CFA after the first n instructions of f.
CfaMeans(rule, f, n) ==
  LET reg == LastAmong(f, n, {"def_cfa", "def_cfa_register"})
      off == LastAmong(f, n, {"def_cfa", "def_cfa_offset"})
      expr == LastAmong(f, n, {"def_cfa_expression"})
  IN LastAmong(f, n, {"restore_state"}) = 0 =>
       /\ reg > 0 => rule.regnum = f[reg].reg
       /\ off > expr => rule.relevant /\ rule.off = f[off].val

\* Where the instructions before n left the location and the row.
RowMeans(q, n, at, from) ==
  LET last == LastAmong(q.inst, n, Changes)
  IN /\ at = Location(q, n + 1) /\ at \in Nat
     /\ from = IF last = 0 THEN q.initloc ELSE Location(q, last)
     /\ q.initloc <= from /\ from <= at /\ at <= q.pc

\* The inductive invariant of a query.
QueryInv ==
  /\ FrameTypeOK
  /\ stage # "idle" => query.initloc <= query.pc
  /\ stage \in {"cie", "fde", "done"} =>
       /\ ip <= Len(Program) + 1
       /\ ~RestoresAfterRemember(query) =>
            TableMeans(rt.rules, shadow.rules, saved, Program, ip - 1, query.daf, Base)
  /\ stage = "cie" => \A j \in 1..ip-1 : query.initinst[j].op # "set_loc"
  /\ stage \in {"fde", "done"} =>
       /\ \A j \in 1..ip-1 : ~Ends(query, j)
       /\ RowMeans(query, ip - 1, pc, row)
       /\ CfaMeans(rt.cfa, query.inst, ip - 1)
  /\ stage = "done" => InForce(query) = 1..ip-1 /\ reg_table = CopyOut

\* The tables follow an instruction.
LEMMA TableStep ==
  ASSUME NEW f, Len(f) \in Nat, NEW n \in 0..Len(f)-1, NEW base, NEW daf,
         daf = query.daf, Executed(f[n + 1]),
         f \in {query.initinst, query.inst}, ~RestoresAfterRemember(query),
         TableMeans(rt.rules, shadow.rules, saved, f, n, daf, base)
  PROVE  TableMeans(rt'.rules, shadow'.rules, saved', f, n + 1, daf, base)
<1> PICK i : i = f[n + 1]
  OBVIOUS
<1> DEFINE m == LastAmong(f, n, {"remember_state"})
           mm == LastAmong(f, n + 1, {"remember_state"})
<1>0. n \in Nat
  OBVIOUS
<1>1. mm = IF i.op = "remember_state" THEN n + 1 ELSE m
  BY <1>0, LastStep
<1>2. m \in 0..n /\ (m > 0 => f[m].op = "remember_state")
  BY <1>0, LastIsOne DEF LastOk
<1>3. i.op = "restore" => m = 0
  <2> SUFFICES ASSUME i.op = "restore", m # 0 PROVE FALSE
    OBVIOUS
  <2>1. m \in 1..Len(f) /\ n + 1 \in m+1..Len(f) /\ m > 0
    BY <1>2
  <2> HIDE DEF m
  <2> QED
    BY <1>2, <2>1 DEF RestoresAfterRemember
<1>4. \A r \in Regs : MeansNext(f, n, daf, r, base[r])
  BY AfterIs
<1>5. /\ saved <=> m > 0
      /\ \A r \in Regs :
           /\ Means(rt.rules[r], After(f, n, daf, r, base[r]))
           /\ Means(shadow.rules[r], IF m > 0 THEN After(f, m - 1, daf, r, base[r]) ELSE base[r])
  BY DEF TableMeans
<1>6. /\ i.op = "restore_state" => saved
      /\ IF i.op = "remember_state" THEN shadow' = rt /\ saved' = TRUE
         ELSE shadow' = shadow /\ saved' = saved
      /\ RulesEffect(i)
  BY DEF Executed
<1> HIDE DEF m, mm
<1>7. saved' <=> mm > 0
  BY <1>1, <1>2, <1>5, <1>6
<1>8. ASSUME NEW r \in Regs
      PROVE  Means(rt'.rules[r], After(f, n + 1, daf, r, base[r]))
  <2>1. After(f, n + 1, daf, r, base[r]) =
          IF i.op = "restore_state" /\ m > 0 THEN After(f, m - 1, daf, r, base[r])
          ELSE IF i.op = "restore" /\ i.reg = r THEN base[r]
          ELSE IF i.op \in RegOps \ {"restore"} /\ i.reg = r THEN Given(i, daf)
          ELSE After(f, n, daf, r, base[r])
    BY <1>4 DEF MeansNext, m
  <2>2. "restore_state" \notin RegOps /\ "restore" \in RegOps
    BY DEF RegOps
  <2>3. CASE i.op = "restore_state"
    <3>1. rt'.rules[r] = shadow.rules[r]
      BY <1>6, <2>3 DEF RulesEffect
    <3> QED
      BY <1>5, <1>6, <2>1, <2>3, <3>1
  <2>4. CASE i.op = "restore" /\ i.reg = r
    <3>1. rt'.rules[r] = shadow.rules[r]
      BY <1>6, <2>2, <2>4 DEF RulesEffect
    <3> QED
      BY <1>3, <1>5, <2>1, <2>4, <3>1
  <2>5. CASE i.op \in RegOps \ {"restore"} /\ i.reg = r
    <3>1. Means(rt'.rules[r], Given(i, daf))
      BY <1>6, <2>2, <2>5 DEF RulesEffect
    <3> QED
      BY <2>1, <2>2, <2>5, <3>1
  <2>6. CASE i.op # "restore_state" /\ ~(i.op \in RegOps /\ i.reg = r)
    <3>1. rt'.rules[r] = rt.rules[r]
      BY <1>6, <2>6 DEF RulesEffect
    <3> QED
      BY <1>5, <2>1, <2>2, <2>6, <3>1
  <2> QED
    BY <2>3, <2>4, <2>5, <2>6
<1>9. ASSUME NEW r \in Regs
      PROVE  Means(shadow'.rules[r],
                   IF mm > 0 THEN After(f, mm - 1, daf, r, base[r]) ELSE base[r])
  <2>1. CASE i.op = "remember_state"
    <3>1. mm > 0 /\ mm - 1 = n
      BY <1>1, <2>1
    <3> QED
      BY <1>5, <1>6, <2>1, <3>1
  <2>2. CASE i.op # "remember_state"
    BY <1>1, <1>5, <1>6, <2>2
  <2> QED
    BY <2>1, <2>2
<1> QED
  BY <1>7, <1>8, <1>9 DEF TableMeans, mm

\* So does the CFA's rule.
LEMMA CfaStep ==
  ASSUME NEW f, NEW n \in Nat, Executed(f[n + 1]), CfaMeans(rt.cfa, f, n)
  PROVE  CfaMeans(rt'.cfa, f, n + 1)
<1> PICK i : i = f[n + 1]
  OBVIOUS
<1> DEFINE last(ops, k) == LastAmong(f, k, ops)
           reg(k) == last({"def_cfa", "def_cfa_register"}, k)
           off(k) == last({"def_cfa", "def_cfa_offset"}, k)
           expr(k) == last({"def_cfa_expression"}, k)
           restore(k) == last({"restore_state"}, k)
<1>1. ASSUME NEW ops
      PROVE  last(ops, n) \in 0..n
               /\ last(ops, n + 1) = IF i.op \in ops THEN n + 1 ELSE last(ops, n)
  BY LastStep, LastIsOne DEF LastOk
<1> HIDE DEF last
<1> SUFFICES ASSUME restore(n + 1) = 0
             PROVE  /\ reg(n + 1) > 0 => rt'.cfa.regnum = f[reg(n + 1)].reg
                    /\ off(n + 1) > expr(n + 1) =>
                         rt'.cfa.relevant /\ rt'.cfa.off = f[off(n + 1)].val
  BY DEF CfaMeans, last
<1>2. i.op # "restore_state" /\ restore(n) = 0
  BY <1>1
<1>3. /\ reg(n) > 0 => rt.cfa.regnum = f[reg(n)].reg
      /\ off(n) > expr(n) => rt.cfa.relevant /\ rt.cfa.off = f[off(n)].val
  BY <1>2 DEF CfaMeans, last
<1>4. /\ IF i.op \in {"def_cfa", "def_cfa_register"} THEN rt'.cfa.regnum = i.reg
         ELSE rt'.cfa.regnum = rt.cfa.regnum
      /\ i.op \in {"def_cfa", "def_cfa_offset"} => rt'.cfa.relevant /\ rt'.cfa.off = i.val
      /\ i.op \notin {"def_cfa", "def_cfa_offset", "def_cfa_expression"} =>
           rt'.cfa.relevant = rt.cfa.relevant /\ rt'.cfa.off = rt.cfa.off
  BY <1>2 DEF Executed, CfaEffect
<1>5. ASSUME reg(n + 1) > 0 PROVE rt'.cfa.regnum = f[reg(n + 1)].reg
  <2>1. reg(n + 1) = IF i.op \in {"def_cfa", "def_cfa_register"} THEN n + 1 ELSE reg(n)
    BY <1>1
  <2> QED
    BY <1>3, <1>4, <1>5, <2>1
<1>6. ASSUME off(n + 1) > expr(n + 1)
      PROVE  rt'.cfa.relevant /\ rt'.cfa.off = f[off(n + 1)].val
  <2>1. /\ off(n + 1) = IF i.op \in {"def_cfa", "def_cfa_offset"} THEN n + 1 ELSE off(n)
        /\ expr(n + 1) = IF i.op = "def_cfa_expression" THEN n + 1 ELSE expr(n)
        /\ off(n) \in 0..n /\ expr(n) \in 0..n
    <3>1. expr(n + 1) = IF i.op \in {"def_cfa_expression"} THEN n + 1 ELSE expr(n)
      BY <1>1
    <3> QED
      BY <1>1, <3>1
  <2>2. CASE i.op \in {"def_cfa", "def_cfa_offset"}
    BY <1>4, <2>1, <2>2
  <2>3. CASE i.op = "def_cfa_expression"
    BY <1>6, <2>1, <2>3
  <2>4. CASE i.op \notin {"def_cfa", "def_cfa_offset", "def_cfa_expression"}
    <3>1. off(n) > expr(n) /\ off(n + 1) = off(n)
      BY <1>6, <2>1, <2>4
    <3> QED
      BY <1>3, <1>4, <2>4, <3>1
  <2> QED
    BY <2>2, <2>3, <2>4
<1> QED
  BY <1>5, <1>6

\* The location and the row after an instruction of the FDE.
LEMMA RowStep ==
  ASSUME FrameTypeOK, stage = "fde", NEW n \in Nat, ip = n + 1, Executed(Inst),
         RowMeans(query, n, pc, row)
  PROVE  RowMeans(query, n + 1, pc', row') /\ ~Ends(query, n + 1)
<1> PICK q, i : q = query /\ i = Inst
  OBVIOUS
<1>1. /\ i = q.inst[n + 1] /\ n + 1 \in 1..Len(q.inst) /\ Len(q.inst) \in Nat
      /\ i.op # "set_loc" /\ row' = IF i.op \in Changes THEN pc ELSE row
      /\ IF i.op = "advance_loc" THEN pc' = pc + i.val * q.caf /\ pc' <= q.pc ELSE pc' = pc
  BY DEF Executed, Inst, Program, Limited, FrameTypeOK
<1>2. Location(q, n + 1 + 1) = Location(q, n + 1) + Delta(q, n + 1)
  BY <1>1, LocationIs
<1>3. /\ pc = Location(q, n + 1) /\ pc \in Nat /\ q.pc \in Nat /\ q.initloc \in Nat
      /\ row \in Nat /\ q.initloc <= row /\ row <= pc /\ pc <= q.pc
  BY DEF RowMeans, FrameTypeOK
<1>4. i.op = "advance_loc" => i.val * q.caf \in Nat
  <2> SUFFICES ASSUME i.op = "advance_loc" PROVE i.val * q.caf \in Nat
    OBVIOUS
  <2>1. i.val \in Nat
    BY InstIs DEF Executed
  <2>2. q.caf \in Nat
    BY DEF FrameTypeOK
  <2> QED
    BY <2>1, <2>2
<1>5. Delta(q, n + 1) = IF i.op = "advance_loc" THEN i.val * q.caf ELSE 0
  BY <1>1 DEF Delta
<1>6. pc' = Location(q, n + 1 + 1) /\ pc' \in Nat /\ pc <= pc' /\ pc' <= q.pc
  <2>1. PICK d : d = i.val * q.caf
    OBVIOUS
  <2>2. CASE i.op = "advance_loc"
    BY <1>1, <1>2, <1>3, <1>4, <1>5, <2>1, <2>2
  <2>3. CASE i.op # "advance_loc"
    BY <1>1, <1>2, <1>3, <1>5, <2>3
  <2> QED
    BY <2>2, <2>3
<1>7. ~Ends(q, n + 1)
  <2>1. n + 1 + 1 = (n + 1) + 1
    OBVIOUS
  <2> QED
    BY <1>1, <1>3, <1>6, <2>1 DEF Ends
<1>8. LastAmong(q.inst, n + 1, Changes) =
        IF i.op \in Changes THEN n + 1 ELSE LastAmong(q.inst, n, Changes)
  <2>1. PICK f, ops : f = q.inst /\ ops = Changes
    OBVIOUS
  <2>2. LastAmong(f, n + 1, ops) = IF f[n + 1].op \in ops THEN n + 1 ELSE LastAmong(f, n, ops)
    BY LastStep
  <2> QED
    BY <1>1, <2>1, <2>2
<1>9. LastAmong(q.inst, n, Changes) \in 0..n
  BY LastIsOne DEF LastOk
<1>10. row' = IF LastAmong(q.inst, n + 1, Changes) = 0 THEN q.initloc
              ELSE Location(q, LastAmong(q.inst, n + 1, Changes))
  <2>1. CASE i.op \in Changes
    BY <1>1, <1>3, <1>8, <2>1
  <2>2. CASE i.op \notin Changes
    BY <1>1, <1>8, <2>2 DEF RowMeans
  <2> QED
    BY <2>1, <2>2
<1>11. q.initloc <= row' /\ row' <= pc'
  BY <1>1, <1>3, <1>6
<1> QED
  BY <1>6, <1>7, <1>10, <1>11 DEF RowMeans

\* An instruction keeps the invariant.
LEMMA ExecutedInv == ASSUME QueryInv, Executed(Inst) PROVE QueryInv'
<1> PICK f, n, q : f = Program /\ n = ip - 1 /\ q = query
  OBVIOUS
<1>1. /\ FrameTypeOK /\ stage \in {"cie", "fde"} /\ ip <= Len(f) /\ ip = n + 1
      /\ ip' = ip + 1 /\ UNCHANGED <<stage, query, reg_table>>
      /\ n \in 0..Len(f)-1 /\ n \in Nat /\ Len(f) \in Nat
      /\ Inst = f[n + 1] /\ Inst.op # "set_loc"
      /\ f = IF stage = "cie" THEN q.initinst ELSE q.inst
  <2>1. /\ FrameTypeOK /\ stage \in {"cie", "fde"} /\ ip <= Len(f)
        /\ ip' = ip + 1 /\ UNCHANGED <<stage, query, reg_table>>
        /\ Inst.op # "set_loc"
    BY DEF QueryInv, Executed, Running
  <2>2. f = IF stage = "cie" THEN q.initinst ELSE q.inst
    BY DEF Program
  <2>3. ip \in Nat \ {0} /\ f \in Seq(Instructions)
    BY <2>1, <2>2 DEF FrameTypeOK
  <2>4. Inst = f[ip]
    BY DEF Inst
  <2> HIDE DEF Inst
  <2> QED
    BY <2>1, <2>2, <2>3, <2>4
<1>2. FrameTypeOK'
  <2>1. Inst.op = "advance_loc" => Inst.val * query.caf \in Nat
    <3> SUFFICES ASSUME Inst.op = "advance_loc" PROVE Inst.val * query.caf \in Nat
      OBVIOUS
    <3>1. Inst.val \in Nat /\ query.caf \in Nat
      BY <1>1, InstIs DEF Executed, FrameTypeOK
    <3> QED
      BY <3>1
  <2>2. PICK d : d = Inst.val * query.caf
    OBVIOUS
  <2>3. pc \in Nat /\ row \in Nat /\ rt \in Tables /\ shadow \in Tables /\ saved \in BOOLEAN
          /\ ip \in Nat \ {0}
    BY <1>1 DEF FrameTypeOK
  <2>4. /\ pc' = IF Inst.op = "advance_loc" THEN pc + d ELSE pc
        /\ row' \in {pc, row} /\ shadow' \in {rt, shadow} /\ saved' \in {TRUE, saved}
        /\ rt' \in Tables
    BY <2>2 DEF Executed
  <2>5. pc' \in Nat
    <3>1. Inst.op = "advance_loc" => d \in Nat
      BY <2>1, <2>2
    <3> QED
      BY <2>3, <2>4, <3>1
  <2>6. row' \in Nat /\ shadow' \in Tables /\ ip' \in Nat \ {0}
    BY <1>1, <2>3, <2>4
  <2>7. saved' \in BOOLEAN
    BY <2>3, <2>4, Zenon
  <2> QED
    BY <1>1, <2>4, <2>5, <2>6, <2>7 DEF FrameTypeOK
<1>3. Program' = f /\ ip' - 1 = n + 1 /\ Base' = Base /\ ip' <= Len(f) + 1
  BY <1>1 DEF Program, Base
<1>4. ASSUME ~RestoresAfterRemember(query)
      PROVE  TableMeans(rt.rules, shadow.rules, saved, Program, ip - 1, query.daf, Base)'
  <2>1. TableMeans(rt.rules, shadow.rules, saved, f, n, query.daf, Base)
    BY <1>1, <1>4 DEF QueryInv
  <2>2. PICK base, daf : base = Base /\ daf = query.daf
    OBVIOUS
  <2>3. TableMeans(rt'.rules, shadow'.rules, saved', f, n + 1, daf, base)
    BY <1>1, <1>4, <2>1, <2>2, TableStep
  <2>4. query'.daf = daf
    BY <1>1, <2>2
  <2> QED
    BY <1>3, <2>2, <2>3, <2>4 DEF TableMeans, Means
<1>5. ASSUME stage = "cie" PROVE (\A j \in 1..ip-1 : query.initinst[j].op # "set_loc")'
  <2>1. \A j \in 1..n : q.initinst[j].op # "set_loc"
    BY <1>1, <1>5 DEF QueryInv
  <2>2. q.initinst[n + 1].op # "set_loc"
    BY <1>1, <1>5
  <2>3. \A j \in 1..n+1 : j \in 1..n \/ j = n + 1
    BY <1>1
  <2> QED
    BY <1>1, <1>3, <2>1, <2>2, <2>3
<1>6. ASSUME stage = "fde"
      PROVE  /\ (\A j \in 1..ip-1 : ~Ends(query, j))'
             /\ RowMeans(query, ip - 1, pc, row)'
             /\ CfaMeans(rt.cfa, query.inst, ip - 1)'
  <2>1. /\ \A j \in 1..n : ~Ends(q, j)
        /\ RowMeans(query, n, pc, row)
        /\ CfaMeans(rt.cfa, f, n)
    BY <1>1, <1>6 DEF QueryInv
  <2>2. RowMeans(query, n + 1, pc', row') /\ ~Ends(query, n + 1)
    BY <1>1, <1>6, <2>1, RowStep
  <2>3. CfaMeans(rt'.cfa, f, n + 1)
    BY <1>1, <2>1, CfaStep
  <2>4. \A j \in 1..n+1 : j \in 1..n \/ j = n + 1
    BY <1>1
  <2>5. \A j \in 1..n+1 : ~Ends(q, j)
    BY <2>1, <2>2, <2>4
  <2> QED
    BY <1>1, <1>3, <1>6, <2>2, <2>3, <2>5 DEF RowMeans, CfaMeans
<1>7. (query.initloc <= query.pc)'
  BY <1>1 DEF QueryInv
<1> QED
  BY <1>1, <1>2, <1>3, <1>4, <1>5, <1>6, <1>7 DEF QueryInv, RestoresAfterRemember

\* A prefix of the instructions.
LEMMA PrefixIs ==
  ASSUME NEW L \in Nat, NEW n \in Nat, n <= L, NEW X,
         \A j \in 1..n : j \notin X, n = L \/ n + 1 \in X
  PROVE  /\ {k \in 1..L : \A j \in 1..k : j \notin X} = 1..n
         /\ Cardinality(1..n) = n
<1>1. Cardinality(1..n) = n
  BY FS_Interval
<1>2. ASSUME NEW k \in 1..n PROVE k \in 1..L /\ \A j \in 1..k : j \notin X
  OBVIOUS
<1>3. ASSUME NEW k \in 1..L, \A j \in 1..k : j \notin X PROVE k \in 1..n
  <2> SUFFICES ASSUME n < k PROVE FALSE
    OBVIOUS
  <2>1. n + 1 \in 1..k /\ n # L
    OBVIOUS
  <2> QED
    BY <1>3, <2>1
<1> QED
  BY <1>1, <1>2, <1>3

\* A query starts with cleared tables.
LEMMA QueryStart ==
  ASSUME QueryInv, NEW q, NEW n, Query(q, n),
         q \in [initinst : Seq(Instructions), inst : Seq(Instructions),
                caf : Nat, daf : Int, initloc : Nat, pc : Nat]
  PROVE  QueryInv'
<1>1. /\ query' = q /\ q.initloc <= q.pc /\ rt' = ClearedTable /\ shadow' = ClearedTable
      /\ stage' = "cie" /\ saved' = FALSE /\ ip' = 1 /\ pc' = 0 /\ row' = 0
      /\ reg_table' = reg_table
  BY DEF Query, StartRun
<1>2. /\ ClearedTable \in Tables
      /\ \A r \in Regs : Meaning(ClearedTable.rules[r]) = <<"register", SAME_VAL>>
  <2> DEFINE rule == [ZeroRule EXCEPT !.regnum = SAME_VAL]
  <2>1. ZeroRule \in Rules /\ ~ZeroRule.relevant
    BY DEF Rule, Rules, ZeroRule
  <2>2. rule \in Rules /\ Meaning(rule) = <<"register", SAME_VAL>>
    <3>1. PICK z, x : z = ZeroRule /\ x = SAME_VAL
      OBVIOUS
    <3>2. z \in Rules /\ ~z.relevant /\ x \in Int
      BY <2>1, <3>1 DEF SAME_VAL
    <3> QED
      BY <3>1, <3>2 DEF Rules, Meaning
  <2>3. ClearedTable = [cfa |-> ZeroRule, rules |-> [r \in Regs |-> rule]]
    BY DEF ClearedTable
  <2> HIDE DEF rule
  <2> QED
    BY <2>1, <2>2, <2>3 DEF Tables
<1>3. FrameTypeOK'
  <2>1. reg_table \in [Regs -> Columns]
    BY DEF FrameTypeOK, QueryInv
  <2>2. saved' \in BOOLEAN
    BY <1>1, Zenon
  <2> QED
    BY <1>1, <1>2, <2>1, <2>2 DEF FrameTypeOK
<1>4. Program' = q.initinst /\ Len(q.initinst) \in Nat
        /\ \A r \in Regs : Base'[r] = <<"register", SAME_VAL>>
  BY <1>1 DEF Program, Base
<1>5. TableMeans(rt.rules, shadow.rules, saved, Program, ip - 1, query.daf, Base)'
  <2> PICK f, daf : f = q.initinst /\ daf = q.daf
    OBVIOUS
  <2>1. LastAmong(f, 0, {"remember_state"}) = 0
    BY LastNone
  <2>2. \A r \in Regs : After(f, 0, daf, r, Base'[r]) = Base'[r]
    BY <1>4, AfterIs
  <2>3. ip' - 1 = 0
    BY <1>1
  <2> HIDE DEF Base
  <2> QED
    BY <1>1, <1>2, <1>4, <2>1, <2>2, <2>3 DEF TableMeans, Means
<1>6. ip' - 1 = 0 /\ ip' <= Len(q.initinst) + 1
  BY <1>1, <1>4
<1> QED
  BY <1>1, <1>3, <1>4, <1>5, <1>6 DEF QueryInv

\* The FDE's program starts where the CIE's has stopped.
LEMMA CieStops ==
  ASSUME QueryInv, Stopped, stage = "cie"
  PROVE  QueryInv'
<1> PICK q, f, n, daf : q = query /\ f = query.initinst /\ n = ip - 1 /\ daf = query.daf
  OBVIOUS
<1>1. /\ stage' = "fde" /\ shadow' = rt /\ saved' = FALSE /\ ip' = 1
      /\ pc' = q.initloc /\ row' = q.initloc /\ UNCHANGED <<rt, reg_table, query>>
  BY DEF Stopped, ProgramDone, StartRun
<1>2. /\ FrameTypeOK /\ n \in Nat /\ ip = n + 1 /\ n <= Len(f) /\ Len(f) \in Nat
      /\ Len(q.inst) \in Nat /\ q.initloc \in Nat /\ q.pc \in Nat /\ q.initloc <= q.pc
      /\ Program = f /\ f = q.initinst
      /\ n = Len(f) \/ (n + 1 <= Len(f) /\ f[n + 1].op = "set_loc")
      /\ \A j \in 1..n : f[j].op # "set_loc"
  <2>1. /\ FrameTypeOK /\ ip <= Len(Program) + 1 /\ query.initloc <= query.pc
        /\ \A j \in 1..ip-1 : query.initinst[j].op # "set_loc"
    BY DEF QueryInv
  <2>2. Program = f
    BY DEF Program
  <2>3. ip > Len(f) \/ (ip <= Len(f) /\ f[ip].op = "set_loc")
    BY <2>2 DEF Stopped, Limited, Inst
  <2>4. /\ ip \in Nat \ {0} /\ Len(f) \in Nat /\ Len(q.inst) \in Nat /\ q.initloc \in Nat
        /\ q.pc \in Nat
    BY <2>1 DEF FrameTypeOK
  <2> QED
    BY <2>1, <2>2, <2>3, <2>4
<1>3. Cardinality(InitInForce(q)) = n
  <2> DEFINE X == {j \in 1..Len(f) : f[j].op = "set_loc"}
  <2>1. \A j \in 1..n : j \notin X
    BY <1>2
  <2>2. n = Len(f) \/ n + 1 \in X
    BY <1>2
  <2>3. \A k \in 1..Len(f) : (\A j \in 1..k : f[j].op # "set_loc") <=> (\A j \in 1..k : j \notin X)
    BY <1>2
  <2> HIDE DEF X
  <2>4. PICK L : L = Len(f)
    OBVIOUS
  <2>5. {k \in 1..L : \A j \in 1..k : j \notin X} = 1..n /\ Cardinality(1..n) = n
    BY <1>2, <2>1, <2>2, <2>4, PrefixIs
  <2>6. InitInForce(q) = {k \in 1..L : \A j \in 1..k : j \notin X}
    BY <1>2, <2>3, <2>4 DEF InitInForce
  <2> QED
    BY <2>5, <2>6
<1>4. \A r \in Regs : Base[r] = <<"register", SAME_VAL>> /\ Base'[r] = Initial(q, r)
  BY <1>1 DEF Base
<1>5. ASSUME ~RestoresAfterRemember(query), NEW r \in Regs
      PROVE  Means(rt.rules[r], Initial(q, r))
  <2>1. TableMeans(rt.rules, shadow.rules, saved, f, n, daf, Base)
    BY <1>2, <1>5 DEF QueryInv
  <2>2. Means(rt.rules[r], After(f, n, daf, r, Base[r]))
    BY <2>1 DEF TableMeans
  <2>3. After(f, n, daf, r, Base[r]) = Initial(q, r)
    BY <1>2, <1>3, <1>4 DEF Initial
  <2> QED
    BY <2>2, <2>3
<1>6. ASSUME ~RestoresAfterRemember(query)
      PROVE  TableMeans(rt.rules, shadow.rules, saved, Program, ip - 1, query.daf, Base)'
  <2> PICK g : g = q.inst
    OBVIOUS
  <2>1. LastAmong(g, 0, {"remember_state"}) = 0
    BY LastNone
  <2>2. \A r \in Regs : After(g, 0, daf, r, Base'[r]) = Base'[r]
    BY <1>2, AfterIs
  <2>3. ip' - 1 = 0 /\ Program' = g
    BY <1>1 DEF Program
  <2> HIDE DEF Base
  <2> QED
    BY <1>1, <1>4, <1>5, <1>6, <2>1, <2>2, <2>3 DEF TableMeans, Means
<1>7. RowMeans(query, ip - 1, pc, row)'
  <2>1. Location(q, 1) = q.initloc
    BY <1>2, LocationIs
  <2>2. LastAmong(q.inst, 0, Changes) = 0
    BY LastNone
  <2>3. ip' - 1 = 0 /\ 0 + 1 = 1
    BY <1>1
  <2> QED
    BY <1>1, <1>2, <2>1, <2>2, <2>3 DEF RowMeans
<1>8. CfaMeans(rt.cfa, query.inst, ip - 1)'
  <2> PICK g : g = q.inst
    OBVIOUS
  <2>1. \A ops : LastAmong(g, 0, ops) = 0
    BY LastNone
  <2>2. ip' - 1 = 0 /\ query'.inst = g
    BY <1>1
  <2> QED
    BY <2>1, <2>2 DEF CfaMeans
<1>9. FrameTypeOK'
  <2>1. saved' \in BOOLEAN
    BY <1>1, Zenon
  <2> QED
    BY <1>1, <1>2, <2>1 DEF FrameTypeOK
<1>10. ip' <= Len(Program') + 1 /\ (\A j \in 1..ip'-1 : ~Ends(query, j)')
  BY <1>1, <1>2 DEF Program
<1> QED
  BY <1>1, <1>2, <1>6, <1>7, <1>8, <1>9, <1>10 DEF QueryInv, RestoresAfterRemember

\* The FDE's program stops, and the row is copied out.
LEMMA FdeStops ==
  ASSUME QueryInv, Stopped, stage = "fde"
  PROVE  QueryInv'
<1> PICK q, f, n : q = query /\ f = query.inst /\ n = ip - 1
  OBVIOUS
<1>1. /\ stage' = "done" /\ reg_table' = CopyOut
      /\ UNCHANGED <<rt, shadow, saved, ip, pc, row, query>>
  BY DEF Stopped, ProgramDone
<1>2. /\ FrameTypeOK /\ query.initloc <= query.pc /\ ip <= Len(Program) + 1
      /\ \A j \in 1..ip-1 : ~Ends(query, j)
      /\ RowMeans(query, ip - 1, pc, row)
      /\ CfaMeans(rt.cfa, query.inst, ip - 1)
  BY DEF QueryInv
<1>3. /\ n \in Nat /\ ip = n + 1 /\ Len(f) \in Nat /\ n <= Len(f) /\ Program = f
      /\ q.pc \in Nat
  BY <1>2 DEF FrameTypeOK, Program
<1>4. n = Len(f) \/ (n + 1 <= Len(f) /\ Ends(q, n + 1))
  <2>1. CASE ip > Len(Program)
    BY <1>3, <2>1
  <2>2. CASE ip <= Len(Program) /\ Inst.op = "set_loc"
    BY <1>3, <2>2 DEF Ends, Inst
  <2>3. CASE /\ ip <= Len(Program) /\ Inst.op = "advance_loc"
             /\ pc + Inst.val * query.caf > query.pc
    <3>1. Inst = f[n + 1] /\ n + 1 \in 1..Len(f)
      BY <1>3, <2>3 DEF Inst
    <3>2. Location(q, n + 1 + 1) = Location(q, n + 1) + Delta(q, n + 1)
      BY <1>3, <3>1, LocationIs
    <3>3. Delta(q, n + 1) = Inst.val * query.caf /\ pc = Location(q, n + 1)
      BY <1>2, <1>3, <2>3, <3>1 DEF Delta, RowMeans
    <3>4. Location(q, n + 1 + 1) > q.pc
      BY <2>3, <3>2, <3>3
    <3> QED
      BY <1>3, <2>3, <3>1, <3>4 DEF Ends
  <2> QED
    BY <2>1, <2>2, <2>3 DEF Stopped
<1>5. InForce(q) = 1..n
  <2> DEFINE X == {j \in 1..Len(f) : Ends(q, j)}
  <2>1. \A j \in 1..n : j \notin X
    BY <1>2, <1>3
  <2>2. n = Len(f) \/ n + 1 \in X
    BY <1>3, <1>4
  <2>3. \A k \in 1..Len(f) : (\A j \in 1..k : ~Ends(q, j)) <=> (\A j \in 1..k : j \notin X)
    BY <1>3
  <2> HIDE DEF X
  <2>4. PICK L : L = Len(f)
    OBVIOUS
  <2>5. {k \in 1..L : \A j \in 1..k : j \notin X} = 1..n
    BY <1>3, <2>1, <2>2, <2>4, PrefixIs
  <2>6. InForce(q) = {k \in 1..L : \A j \in 1..k : j \notin X}
    BY <2>3, <2>4 DEF InForce
  <2> QED
    BY <2>5, <2>6
<1>6. CopyOut \in [Regs -> Columns] /\ CopyOut' = CopyOut
  <2>1. rt.cfa \in Rules /\ \A r \in Regs : rt.rules[r] \in Rules
    BY <1>2 DEF FrameTypeOK, Tables
  <2>2. \A r \in Regs : HandedOut(IF r = CfaColumn THEN rt.cfa ELSE rt.rules[r]) \in Columns
    BY <2>1, HandedOutIs
  <2> QED
    BY <1>1, <2>2 DEF CopyOut
<1>7. FrameTypeOK'
  BY <1>1, <1>2, <1>6 DEF FrameTypeOK
<1>8. ASSUME ~RestoresAfterRemember(query)
      PROVE  TableMeans(rt.rules, shadow.rules, saved, Program, ip - 1, query.daf, Base)'
  <2>1. Base' = Base /\ Program' = Program
    BY <1>1 DEF Base, Program
  <2> QED
    BY <1>1, <1>8, <2>1 DEF QueryInv, TableMeans, Means
<1>9. Program' = f
  BY <1>1 DEF Program
<1>10. RowMeans(query, ip - 1, pc, row)' /\ CfaMeans(rt.cfa, query.inst, ip - 1)'
         /\ (\A j \in 1..ip-1 : ~Ends(query, j))' /\ InForce(query)' = 1..n
  BY <1>1, <1>2, <1>5 DEF RowMeans, CfaMeans
<1> QED
  BY <1>1, <1>2, <1>3, <1>6, <1>7, <1>8, <1>9, <1>10 DEF QueryInv, RestoresAfterRemember

\* The other steps, and the ones of the lookup.
LEMMA FrameStepInv == ASSUME QueryInv, FrameStep PROVE QueryInv'
<1>1. CASE Running /\ (Fail("error") \/ Fail("panic"))
  <2>1. /\ stage' \in {"error", "panic"} /\ stage # "idle"
        /\ UNCHANGED <<rt, shadow, saved, ip, pc, row, reg_table, query>>
    BY <1>1 DEF Fail, Running
  <2>2. FrameTypeOK' /\ (query.initloc <= query.pc)'
    BY <2>1 DEF QueryInv, FrameTypeOK
  <2> QED
    BY <2>1, <2>2 DEF QueryInv
<1>2. CASE QueryReturn
  <2>1. /\ stage' = "idle" /\ query' = NoQuery
        /\ saved' = FALSE /\ ip' = 1 /\ pc' = 0 /\ row' = 0
        /\ UNCHANGED <<rt, shadow, reg_table>>
    BY <1>2 DEF QueryReturn
  <2>2. NoQuery \in [initinst : Seq(Instructions), inst : Seq(Instructions),
                     caf : Nat, daf : Int, initloc : Nat, pc : Nat]
    BY DEF NoQuery
  <2>3. rt \in Tables /\ shadow \in Tables /\ reg_table \in [Regs -> Columns]
    BY DEF QueryInv, FrameTypeOK
  <2>4. saved' \in BOOLEAN
    BY <2>1, Zenon
  <2>5. FrameTypeOK'
    BY <2>1, <2>2, <2>3, <2>4 DEF FrameTypeOK
  <2> QED
    BY <2>1, <2>5 DEF QueryInv
<1>3. CASE Stopped
  BY <1>3, CieStops, FdeStops DEF Stopped, Running
<1>4. CASE Executed(Inst)
  BY <1>4, ExecutedInv
<1> QED
  BY <1>1, <1>2, <1>3, <1>4, FrameSteps DEF QueryInv

LEMMA QueryStutter == ASSUME QueryInv, UNCHANGED frameVars PROVE QueryInv'
<1>1. UNCHANGED <<stage, query, rt, shadow, saved, ip, pc, row, reg_table>>
  BY DEF frameVars
<1>2. Program' = Program /\ Base' = Base /\ CopyOut' = CopyOut
  BY <1>1 DEF Program, Base, CopyOut
<1>3. FrameTypeOK'
  BY <1>1 DEF QueryInv, FrameTypeOK
<1>4. ASSUME TableMeans(rt.rules, shadow.rules, saved, Program, ip - 1, query.daf, Base)
      PROVE  TableMeans(rt.rules, shadow.rules, saved, Program, ip - 1, query.daf, Base)'
  BY <1>1, <1>2, <1>4 DEF TableMeans, Means
<1>5. ASSUME stage \in {"fde", "done"}
      PROVE  /\ (\A j \in 1..ip-1 : ~Ends(query, j))'
             /\ RowMeans(query, ip - 1, pc, row)'
             /\ CfaMeans(rt.cfa, query.inst, ip - 1)'
  BY <1>1, <1>5 DEF QueryInv, RowMeans, CfaMeans
<1> QED
  BY <1>1, <1>2, <1>3, <1>4, <1>5 DEF QueryInv, RestoresAfterRemember

LEMMA QueryInitInv == FrameInit => QueryInv
<1> SUFFICES ASSUME FrameInit PROVE QueryInv
  OBVIOUS
<1>1. ZeroRule \in Rules
  BY DEF ZeroRule, Rule, Rules
<1>2. NoQuery \in [initinst : Seq(Instructions), inst : Seq(Instructions),
                   caf : Nat, daf : Int, initloc : Nat, pc : Nat]
  BY DEF NoQuery
<1>3. /\ stage = "idle" /\ query = NoQuery
      /\ rt \in Tables /\ shadow \in Tables /\ reg_table \in [Regs -> Columns]
      /\ ip = 1 /\ pc = 0 /\ row = 0
  BY <1>1, HandedOutIs DEF FrameInit, Tables
<1>4. saved \in BOOLEAN
  BY Zenon DEF FrameInit
<1>5. FrameTypeOK
  BY <1>2, <1>3, <1>4 DEF FrameTypeOK
<1> QED
  BY <1>3, <1>5 DEF QueryInv
-----------------------------------------------------------------------------
(* Lookups and queries together. *)

\* The inductive invariant: during a query the lookup's buffers stay, so that the
\* query is of the FDE found.
UnwindInv ==
  /\ ScanInv /\ QueryInv
  /\ stage # "idle" =>
       /\ ret = "OK" /\ calls > 0
       /\ Orderly => query = WrittenFor(fde.at)

\* What a query asks of the interpreter.
LEMMA AskedIs ==
  ASSUME ScanInv
  PROVE  Asked \in [initinst : Seq(Instructions), inst : Seq(Instructions),
                    caf : Nat, daf : Int, initloc : Nat, pc : Nat]
<1>1. /\ cie.insts \in 0..Len(section) /\ cie.factors \in 0..Len(section)
      /\ fde.inst \in Seq(Instructions) /\ fde.initloc \in Nat /\ addr \in Nat
  BY DEF ScanInv, ScanTypeOK, CieBuffers
<1> DEFINE of(k) == IF k = 0 THEN [prog |-> << >>, caf |-> 0, daf |-> 0] ELSE section[k]
<1>2. ASSUME NEW k \in 0..Len(section)
      PROVE  of(k).prog \in Seq(Instructions) /\ of(k).caf \in Nat /\ of(k).daf \in Int
  <2>1. CASE k = 0
    BY <2>1
  <2>2. CASE k # 0
    <3>1. PICK e : e = section[k]
      OBVIOUS
    <3>2. e \in Entries
      BY <2>2, <3>1, SectionIs DEF ScanInv, ScanTypeOK
    <3>3. e.prog \in Seq(Instructions) /\ e.caf \in Nat /\ e.daf \in Int
      BY <3>2 DEF Entries
    <3> QED
      BY <2>2, <3>1, <3>3
  <2> QED
    BY <2>1, <2>2
<1>3. Asked = [initinst |-> of(cie.insts).prog, inst |-> fde.inst,
               caf |-> of(cie.factors).caf, daf |-> of(cie.factors).daf,
               initloc |-> fde.initloc, pc |-> addr]
  BY DEF Asked
<1> HIDE DEF of
<1> QED
  BY <1>1, <1>2, <1>3

LEMMA AskInv == ASSUME UnwindInv, Ask PROVE UnwindInv'
<1>1. /\ Query(Asked, fde.adrange) /\ ret = "OK" /\ calls > 0
      /\ UNCHANGED scanVars
  BY DEF Ask
<1>2. ScanInv'
  BY <1>1, ScanStutter DEF UnwindInv
<1>3. QueryInv'
  BY <1>1, AskedIs, QueryStart DEF UnwindInv
<1>4. ASSUME Orderly PROVE query' = WrittenFor(fde.at)'
  <2> PICK k, q : k = fde.at /\ q = Asked
    OBVIOUS
  <2>1. HasFde(k)
    BY <1>1, <1>4 DEF UnwindInv, ScanInv
  <2>2. section[k].own \in Cies /\ section[k].own # 0
    BY <2>1, SectionIs DEF HasFde, UnwindInv, ScanInv, ScanTypeOK
  <2>3. q = [initinst |-> section[section[k].own].prog, inst |-> section[k].prog,
             caf |-> section[section[k].own].caf, daf |-> section[section[k].own].daf,
             initloc |-> section[k].lo, pc |-> addr]
    BY <2>1, <2>2 DEF HasFde, Asked
  <2>4. query' = q /\ UNCHANGED <<section, fde>>
    BY <1>1 DEF Query, scanVars
  <2> QED
    BY <2>3, <2>4 DEF WrittenFor
<1>5. UNCHANGED <<section, ret, calls>> /\ Orderly' = Orderly
  BY <1>1, SectionStays DEF scanVars
<1> QED
  BY <1>1, <1>2, <1>3, <1>4, <1>5 DEF UnwindInv

LEMMA LookupInv == ASSUME UnwindInv, Lookup PROVE UnwindInv'
<1>1. /\ stage = "idle" /\ UNCHANGED frameVars
      /\ InitEh \/ DwarfInit \/ \E p \in Addrs : Call(p)
  BY DEF Lookup, CallersTurn
<1>2. ScanInv'
  BY <1>1, RewindInv, CallInv DEF UnwindInv
<1>3. QueryInv' /\ stage' = "idle"
  BY <1>1, QueryStutter DEF UnwindInv, frameVars
<1> QED
  BY <1>2, <1>3 DEF UnwindInv

LEMMA WorkInv == ASSUME UnwindInv, Work PROVE UnwindInv'
<1>1. CASE Step /\ UNCHANGED <<frameVars, queries>>
  <2>1. ret = "calling"
    BY <1>1 DEF Step, ScanEnd, LengthBad, Terminator, GiveUp, NextCie, NextFde, Calling
  <2>2. ScanInv' /\ QueryInv' /\ stage' = stage
    BY <1>1, ScanStepInv, QueryStutter DEF UnwindInv, frameVars
  <2>3. stage = "idle"
    BY <2>1 DEF UnwindInv
  <2> QED
    BY <2>2, <2>3 DEF UnwindInv
<1>2. CASE FrameStep /\ UNCHANGED <<scanVars, queries>>
  <2>1. ScanInv' /\ QueryInv'
    BY <1>2, ScanStutter, FrameStepInv DEF UnwindInv
  <2>2. stage' # "idle" => stage # "idle" /\ query' = query
    <3>1. CASE Executed(Inst)
      BY <3>1 DEF Executed, Running
    <3>2. CASE Stopped
      BY <3>2 DEF Stopped, Running, ProgramDone
    <3>3. CASE QueryReturn
      BY <3>3 DEF QueryReturn
    <3>4. CASE Running /\ (Fail("error") \/ Fail("panic"))
      BY <3>4 DEF Running, Fail
    <3> QED
      BY <1>2, <3>1, <3>2, <3>3, <3>4, FrameSteps DEF UnwindInv, QueryInv
  <2>3. UNCHANGED <<section, fde, ret, calls>> /\ Orderly' = Orderly
    BY <1>2, SectionStays DEF scanVars
  <2>4. query' = query => WrittenFor(fde.at)' = WrittenFor(fde.at)
    BY <2>3 DEF WrittenFor
  <2> QED
    BY <2>1, <2>2, <2>3, <2>4 DEF UnwindInv
<1> QED
  BY <1>1, <1>2 DEF Work

LEMMA UnwindStepInv == UnwindInv /\ [UnwindNext]_unwindVars => UnwindInv'
<1> SUFFICES ASSUME UnwindInv, [UnwindNext]_unwindVars PROVE UnwindInv'
  OBVIOUS
<1>1. CASE UnwindNext
  BY <1>1, LookupInv, AskInv, WorkInv DEF UnwindNext
<1>2. CASE UNCHANGED unwindVars
  <2>1. UNCHANGED scanVars /\ UNCHANGED frameVars
    BY <1>2 DEF unwindVars
  <2>2. ScanInv' /\ QueryInv'
    BY <2>1, ScanStutter, QueryStutter DEF UnwindInv
  <2>3. UNCHANGED <<section, fde, ret, calls, stage, query>> /\ Orderly' = Orderly
    BY <2>1, SectionStays DEF scanVars, frameVars
  <2>4. WrittenFor(fde.at)' = WrittenFor(fde.at)
    BY <2>3 DEF WrittenFor
  <2> QED
    BY <2>2, <2>3, <2>4 DEF UnwindInv
<1> QED
  BY <1>1, <1>2

LEMMA UnwindInitInv == UnwindInit => UnwindInv
<1> SUFFICES ASSUME UnwindInit PROVE UnwindInv
  OBVIOUS
<1>1. ScanInv /\ QueryInv
  BY ScanInitInv, QueryInitInv DEF UnwindInit
<1>2. stage = "idle"
  BY DEF UnwindInit, FrameInit
<1> QED
  BY <1>1, <1>2 DEF UnwindInv

LEMMA UnwindInvariant == UnwindSpec => []UnwindInv
BY UnwindInitInv, UnwindStepInv, PTL DEF UnwindSpec

\* What an invariant of a query says when the row has been copied out.
LEMMA DoneIs ==
  ASSUME QueryInv, stage = "done"
  PROVE  /\ RowCoversPc
         /\ ~RestoresAfterRemember(query) =>
              /\ \A r \in Regs \ {CfaColumn} :
                   \/ RowMeaning(query, r) = <<"expression", 0>>
                   \/ Sayable(RowMeaning(query, r)) = Told(reg_table[r])
              /\ CfaColumn \in Regs => CfaComposed(query, reg_table[CfaColumn])
<1> PICK n, f : n = ip - 1 /\ f = query.inst
  OBVIOUS
<1>1. /\ FrameTypeOK /\ InForce(query) = 1..n /\ reg_table = CopyOut
      /\ RowMeans(query, n, pc, row) /\ CfaMeans(rt.cfa, f, n)
  BY DEF QueryInv
<1>2. n \in Nat /\ Program = f /\ ip = n + 1
  BY <1>1 DEF FrameTypeOK, Program
<1>3. ASSUME NEW ops PROVE LastOf(query, ops) = LastAmong(f, n, ops)
  BY <1>1 DEF LastOf, LastAmong
<1>4. RowCoversPc
  <2>1. Changes = (RegOps \ {"same_value"}) \cup
                  {"restore_state", "def_cfa", "def_cfa_register", "def_cfa_offset",
                   "def_cfa_expression"}
    BY DEF Changes
  <2>2. LastOf(query, Changes) = LastAmong(f, n, Changes)
    BY <1>3
  <2>3. /\ row = IF LastAmong(f, n, Changes) = 0 THEN query.initloc
                 ELSE Location(query, LastAmong(f, n, Changes))
        /\ query.initloc <= row /\ row <= query.pc
    BY <1>1 DEF RowMeans, FrameTypeOK
  <2> QED
    BY <2>1, <2>2, <2>3 DEF RowCoversPc
<1>5. ASSUME CfaColumn \in Regs PROVE CfaComposed(query, reg_table[CfaColumn])
  <2>1. reg_table[CfaColumn] = HandedOut(rt.cfa) /\ rt.cfa \in Rules
    BY <1>1, <1>5 DEF CopyOut, FrameTypeOK, Tables
  <2>2. CfaComposed(query, rt.cfa)
    BY <1>1, <1>3 DEF CfaComposed, CfaMeans
  <2> QED
    BY <2>1, <2>2, HandedOutIs DEF CfaComposed
<1>6. ASSUME ~RestoresAfterRemember(query), NEW r \in Regs \ {CfaColumn}
      PROVE  \/ RowMeaning(query, r) = <<"expression", 0>>
             \/ Sayable(RowMeaning(query, r)) = Told(reg_table[r])
  <2>1. TableMeans(rt.rules, shadow.rules, saved, f, n, query.daf, Base)
    BY <1>2, <1>6 DEF QueryInv
  <2>2. Means(rt.rules[r], After(f, n, query.daf, r, Base[r]))
    BY <2>1 DEF TableMeans
  <2>3. Base[r] = Initial(query, r)
    BY DEF Base
  <2>4. Cardinality(InForce(query)) = n
    BY <1>1, <1>2, FS_Interval
  <2>5. RowMeaning(query, r) = After(f, n, query.daf, r, Base[r])
    BY <2>3, <2>4 DEF RowMeaning
  <2>6. reg_table[r] = HandedOut(rt.rules[r]) /\ rt.rules[r] \in Rules
    BY <1>1 DEF CopyOut, FrameTypeOK, Tables
  <2>7. Told(reg_table[r]) = Sayable(Meaning(rt.rules[r]))
    BY <2>6, HandedOutIs
  <2> QED
    BY <2>2, <2>5, <2>7 DEF Means
<1> QED
  BY <1>4, <1>5, <1>6

\* dwarf_get_fde_at_pc returns the first FDE that covers the pc, and none only if
\* none does, whatever was looked up before.
THEOREM FindsFirstCorrect == UnwindSpec => []FindsFirst
<1>1. UnwindInv => FindsFirst
  BY FindsFromInv DEF UnwindInv
<1> QED
  BY <1>1, UnwindInvariant, PTL

\* *row_pc is where the last change in force was made, and the row holds from
\* there to the requested pc.
THEOREM RowCoversPcCorrect == UnwindSpec => []RowCoversPc
<1>1. UnwindInv => RowCoversPc
  <2>1. stage # "done" => RowCoversPc
    BY DEF RowCoversPc
  <2> QED
    BY <2>1, DoneIs DEF UnwindInv
<1> QED
  BY <1>1, UnwindInvariant, PTL

\* dwarf_get_fde_info_for_all_regs hands out the rules that the FDE and its own
\* CIE give at the pc, whatever was queried before.
THEOREM RulesAsWrittenCorrect == UnwindSpec => []RulesAsWritten
<1>1. UnwindInv => RulesAsWritten
  <2> SUFFICES ASSUME UnwindInv, stage = "done", Orderly PROVE RulesAsWritten
    BY DEF RulesAsWritten
  <2>1. query = WrittenFor(fde.at) /\ QueryInv
    BY DEF UnwindInv
  <2>2. ~RestoresAfterRemember(query) =>
          /\ \A r \in Regs \ {CfaColumn} :
               \/ RowMeaning(query, r) = <<"expression", 0>>
               \/ Sayable(RowMeaning(query, r)) = Told(reg_table[r])
          /\ CfaColumn \in Regs => CfaComposed(query, reg_table[CfaColumn])
    BY <2>1, DoneIs
  <2> QED
    BY <2>1, <2>2, Zenon DEF RulesAsWritten
<1> QED
  BY <1>1, UnwindInvariant, PTL
====
