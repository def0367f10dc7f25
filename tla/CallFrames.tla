----------------------------- MODULE CallFrames -----------------------------
(***************************************************************************)
(* The call frame interface of kern/libdwarf_frame.c as a caller uses it   *)
(* (none is in the kernel yet): load .eh_frame, look up the FDE of a pc,   *)
(* and ask for the rules there with the CIE and FDE buffers that the       *)
(* lookup filled in.                                                       *)
(***************************************************************************)
EXTENDS FdeScan, FrameInst

CONSTANT MaxQueries     \* bound on the queries

ASSUME QueriesAssumption == MaxQueries \in Nat

VARIABLE queries

unwindVars == <<scanVars, frameVars, queries>>

UnwindInit == ScanInit /\ FrameInit /\ queries = 0

\* The caller's turn to call; a panic ends everything.
CallersTurn == stage = "idle" /\ ret # "calling"

Lookup ==
  /\ CallersTurn
  /\ InitEh \/ DwarfInit \/ \E p \in Addrs : Call(p)
  /\ UNCHANGED <<frameVars, queries>>

\* The buffers as dwarf_get_fde_info_for_all_regs gets them; a CIE buffer that
\* no CIE was read into is zeroed.
Asked ==
  LET none == [prog |-> << >>, caf |-> 0, daf |-> 0]
      of(k) == IF k = 0 THEN none ELSE section[k]
  IN [initinst |-> of(cie.insts).prog, inst |-> fde.inst,
      caf |-> of(cie.factors).caf, daf |-> of(cie.factors).daf,
      initloc |-> fde.initloc, pc |-> addr]

\* The pc asked for is the one looked up.  The table is there as long as the
\* section is loaded.
Ask ==
  /\ CallersTurn /\ ret = "OK" /\ calls > 0 /\ loaded /\ queries < MaxQueries
  /\ Query(Asked, fde.adrange)
  /\ queries' = queries + 1
  /\ UNCHANGED scanVars

Work ==
  \/ Step /\ UNCHANGED <<frameVars, queries>>
  \/ FrameStep /\ UNCHANGED <<scanVars, queries>>

UnwindNext == Lookup \/ Ask \/ Work

\* Lookups and queries are plain loops of the one thread: they keep running.
UnwindSpec == UnwindInit /\ [][UnwindNext]_unwindVars /\ WF_unwindVars(Work)
-----------------------------------------------------------------------------
\* What the compiler wrote for the FDE at k and its own CIE.
WrittenFor(k) ==
  LET c == section[section[k].own]
  IN [initinst |-> c.prog, inst |-> section[k].prog, caf |-> c.caf, daf |-> c.daf,
      initloc |-> section[k].lo, pc |-> query.pc]

\* The rules handed out are those that the FDE and its own CIE give at the pc, as
\* far as an entry without a type can say them, although the code never looks at
\* fde_cieoff: the CIE is the last one read, perhaps by an earlier call, and the
\* tables are those of the earlier queries.  The CFA's register and offset, where
\* it has a column in the table, are each that of the last instruction on it (but
\* see Orderly and RestoresAfterRemember).
RulesAsWritten ==
  stage = "done" /\ Orderly =>
    LET q == WrittenFor(fde.at)
    IN ~RestoresAfterRemember(q) =>
         /\ \A r \in Regs \ {CfaColumn} :
              \/ RowMeaning(q, r) = <<"expression", 0>>
              \/ Sayable(RowMeaning(q, r)) = Told(reg_table[r])
         /\ CfaColumn \in Regs => CfaComposed(q, reg_table[CfaColumn])

\* A lookup ends, unless it runs into a length that cannot be, from which it
\* never gets away; and a query ends, if it does not panic.
UnwindEnds ==
  /\ (ret = "calling") ~> (ret # "calling" \/ (Calling /\ BadLength(eh_offset)))
  /\ (stage # "idle") ~> (stage \in {"idle", "panic"})
=============================================================================
