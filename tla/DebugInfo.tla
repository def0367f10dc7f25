----------------------------- MODULE DebugInfo -----------------------------
(***************************************************************************)
(* debuginfo_rip of kern/kdebug.c as a whole: DieWalk's search for the     *)
(* function, and in list_func_die, once the function is found and before   *)
(* its parameters are counted, the call of dwarf_srclines, LineProgram.    *)
(* The result of that call is not looked at; the row, zeroed before, tells *)
(* the line.                                                               *)
(***************************************************************************)
EXTENDS DieWalk, LineProgram

debugVars == <<dieVars, lineVars>>

DebugInit(i, p, h) == DieInit(i) /\ LineInit(p, h)

\* debuginfo_rip is called for an address.
DebugCall(a) == DieCall(a) /\ LineCall(a)

DebugIdle == DieIdle /\ LineCall(0)

LineDone == ln_at \in {"OK", "ERROR", "NO_ENTRY"}

\* The call of dwarf_srclines.
Srclines == found # Unknown /\ LineNext /\ UNCHANGED dieVars

\* Everything else, which waits for that call to return.
Search == (found = Unknown \/ LineDone) /\ DieNext /\ UNCHANGED lineVars

DebugStep == Srclines \/ Search

\* debuginfo_rip has returned, with *info filled in.
DebugDone == at = "unknown" \/ (at = "found" /\ LineDone)
Ripdebuginfo ==
  [fn |-> found.fn, line |-> linebuf.line, narg |-> Len(found.sizes)]
-----------------------------------------------------------------------------
\* debuginfo_rip finds the first function, of those at the top of a CU, around
\* the address, and none only if there is none.  One nested in a block is not
\* taken; but behind a DIE that cannot be read functions may be missed, and one
\* that is nested in another may be taken, if the address is in it.
FindsFunction ==
  /\ DebugDone /\ at = "found" => /\ found.fn \in Dies /\ ContainsAddr(DieAt(found.fn), addr)
                                  /\ Readable => found.fn = FunctionAt(addr)
  /\ at = "unknown" /\ Readable => Around(addr) = {}

\* The arguments that mon_backtrace prints are the parameters that lead the
\* function's children, in number and, for those of a plain type, in size; not
\* so for a function whose DIE cannot be read to its end, which gets those of
\* another.
ArgsAsDeclared ==
  DebugDone /\ at = "found" /\ ~die.err =>
    /\ Len(found.sizes) = Cardinality(LeadingArgs(found.fn))
    /\ \A k \in 1..Len(found.sizes) :
         LET p == DieAt(found.fn + k)
             t == TypeOf(p)
         IN HasAttr(p, "type") /\ HasAttr(t, "byte_size") =>
              found.sizes[k] = Attr(t, "byte_size")
=============================================================================
