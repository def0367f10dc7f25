------------------------------- MODULE Library -------------------------------
(***************************************************************************)
(* The routines that the rest of the kernel calls and that call nothing    *)
(* but each other: snprintf of lib/printfmt.c, lib/string.c, and the       *)
(* readers at the head of kern/libdwarf_rw.c.  The one thread makes one    *)
(* call at a time: snprintf, then a string routine, then a section is      *)
(* read.                                                                   *)
(***************************************************************************)
EXTENDS Printfmt, StringLib, DwarfRead

CONSTANTS PlainCall, PlainOp    \* calls that are made when another is looked at

ASSUME PlainAssumption == Legal(PlainOp) /\ FmtLegal(PlainCall)

libVars == <<fmtVars, strVars, readVars>>

LibInit ==
  \/ \E c \in Calls : FmtInit(c) /\ StrInit(PlainOp) /\ ReadInit(<< >>)
  \/ \E o \in StrCalls : FmtInit(PlainCall) /\ StrInit(o) /\ ReadInit(<< >>)
  \/ \E fs \in Streams : FmtInit(PlainCall) /\ StrInit(PlainOp) /\ ReadInit(fs)

Formatting == fmt_at # "returned"
Stringing == ~Formatting /\ str_at # "returned"

LibNext ==
  \/ Formatting /\ FmtNext /\ UNCHANGED <<strVars, readVars>>
  \/ Stringing /\ StrNext /\ UNCHANGED <<fmtVars, readVars>>
  \/ ~Formatting /\ ~Stringing /\ ReadNext /\ UNCHANGED <<fmtVars, strVars>>

\* A call runs to its end: nothing in these routines waits.
LibSpec == LibInit /\ [][LibNext]_libVars /\ WF_libVars(LibNext)
-----------------------------------------------------------------------------
\* Every call returns: the loop over the format, which goes back after a
\* directive it does not know, the string instructions, and the LEB128 loops.
CallsReturn ==
  <>(fmt_at = "returned" /\ str_at = "returned" /\ Len(got) = Len(fields) /\ shift = -1)
=============================================================================
