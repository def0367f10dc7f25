----------------------------- MODULE Backtrace -----------------------------
(***************************************************************************)
(* mon_backtrace of kern/monitor.c, walking the kernel's stack: from the   *)
(* test_backtrace of kern/init.c, which calls itself and then              *)
(* mon_backtrace, and from the monitor's `backtrace` command.              *)
(*                                                                         *)
(* For each return address it asks debuginfo_rip, DebugInfo, before it     *)
(* prints the call.                                                        *)
(*                                                                         *)
(* The stack is an array of words; it grows towards 1.  A word is an       *)
(* address of the stack (a saved rbp), a return address, or a local        *)
(* variable.  Code lies above the stack.  A call is printed as a record:   *)
(* the values of its arguments, which are read from its locals, are left   *)
(* out.                                                                    *)
(*                                                                         *)
(* Outside src/: the calling convention of the compiler.  A call pushes    *)
(* the return address; the function pushes rbp, copies rsp to it and makes *)
(* room for its locals; a return undoes this.                              *)
(***************************************************************************)
EXTENDS DebugInfo

CONSTANTS StackTop,     \* words of the stack, bootstacktop
          Kernels       \* records of the debug sections (info, prog, header), of
                        \* places in the functions, of the numbers of words that
                        \* locals can take, of the argument of the first
                        \* test_backtrace (5), and of the commands typed

Callers == {"entry", "i386_init", "test_backtrace", "monitor", "runcmd", "mon_backtrace"}

ASSUME StackAssumption == StackTop \in Nat \ {0}
ASSUME KernelsAssumption ==
  \A k \in Kernels :
    /\ k.info \in Seq(Entries) /\ k.prog \in Seq(Instructions)
    /\ k.locals \subseteq Nat /\ k.depth \in Nat /\ k.commands \in Nat
    /\ k.header \in {"good", "short", "missing"}
    /\ k.places \in [Callers -> Nat] /\ \A fn \in Callers : k.places[fn] > StackTop

VARIABLES kernel,       \* the one booted
          stack, rsp, rbp,
          frames,       \* history: the active calls, innermost first
          walk,         \* mon_backtrace's rbp and rip while it walks
          shown,        \* the calls it has printed
          printed,      \* what test_backtrace has printed
          typed         \* the `backtrace` commands typed

stackVars == <<kernel, stack, rsp, rbp, frames>>
btVars == <<stackVars, walk, shown, printed, typed, debugVars>>

\* A place in a function, after a call it makes.
Place(fn) == kernel.places[fn]

Local == -1     \* the value of a local variable, which no property looks at
NotWalking == [rbp |-> -1, rip |-> -1]

\* entry.S: "Clear the frame pointer register (RBP) so that once we get into
\* debugging C code, stack backtraces will be terminated properly."
EntryRbp == 0

\* A call of fn(x) from a place, with n words of locals; base is where the
\* caller's rbp is saved.
Frame(fn, x, from) ==
  [fn |-> fn, x |-> x, from |-> Place(from), base |-> rsp - 2]

Call(fn, x, from, n) ==
  /\ rsp - 2 - n >= 1
  /\ stack' = [stack EXCEPT ![rsp - 1] = Place(from), ![rsp - 2] = rbp]
  /\ rbp' = rsp - 2
  /\ rsp' = rsp - 2 - n
  /\ frames' = <<Frame(fn, x, from)>> \o frames
  /\ UNCHANGED kernel

\* leave; ret
Ret ==
  /\ rbp' = stack[rbp]
  /\ rsp' = rbp + 2
  /\ frames' = Tail(frames)
  /\ UNCHANGED <<kernel, stack>>

BtInit ==
  \E k \in Kernels :
    /\ kernel = k /\ DebugInit(k.info, k.prog, k.header)
    /\ stack = [a \in 1..StackTop |-> Local]
    /\ rsp = StackTop + 1 /\ rbp = EntryRbp
    /\ frames = << >>
    /\ walk = NotWalking /\ shown = << >> /\ printed = << >> /\ typed = 0

InFn(fn) == frames # << >> /\ Head(frames).fn = fn /\ walk = NotWalking

\* entry.S calls i386_init, once.
CallInit(n) ==
  /\ frames = << >>
  /\ Call("i386_init", 0, "entry", n)
  /\ UNCHANGED <<walk, shown, printed, typed, debugVars>>

Tested == printed # << >>

\* i386_init calls test_backtrace, which prints.
CallTest(n) ==
  /\ InFn("i386_init") /\ ~Tested
  /\ Call("test_backtrace", kernel.depth, "i386_init", n)
  /\ printed' = <<<<"entering", kernel.depth>>>>
  /\ UNCHANGED <<walk, shown, typed, debugVars>>

\* The last thing printed, when the innermost call is test_backtrace(x).
JustEntered == printed[Len(printed)] = <<"entering", Head(frames).x>>

Recurse(n) ==
  /\ InFn("test_backtrace") /\ JustEntered /\ Head(frames).x > 0
  /\ Call("test_backtrace", Head(frames).x - 1, "test_backtrace", n)
  /\ printed' = Append(printed, <<"entering", Head(frames).x - 1>>)
  /\ UNCHANGED <<walk, shown, typed, debugVars>>

\* test_backtrace(0), or runcmd, calls mon_backtrace, which starts from its own rbp
\* and a place in itself, and asks about that.
CallBacktrace(n) ==
  /\ \/ InFn("test_backtrace") /\ JustEntered /\ Head(frames).x = 0 /\ shown = << >>
     \/ InFn("runcmd") /\ shown = << >>
  /\ Call("mon_backtrace", 0, Head(frames).fn, n)
  /\ walk' = [rbp |-> rsp - 2, rip |-> Place("mon_backtrace")]
  /\ DebugCall(walk'.rip)
  /\ UNCHANGED <<shown, printed, typed>>

\* debuginfo_rip runs.
AskDebugInfo ==
  /\ walk # NotWalking /\ DebugStep
  /\ UNCHANGED <<stackVars, walk, shown, printed, typed>>

\* A call as it is printed.
Line(rbp0, rip, i) == [rbp |-> rbp0, rip |-> rip, fn |-> i.fn, line |-> i.line, narg |-> i.narg]

\* Seeded fault: rbp is advanced before rip is read.
WalkFrameSwapped ==
  /\ walk # NotWalking /\ walk.rbp # 0 /\ DebugDone
  /\ shown' = Append(shown, Line(walk.rbp, walk.rip, Ripdebuginfo))
  /\ LET up == stack[walk.rbp]
     IN walk' = [rbp |-> up, rip |-> IF up = 0 THEN Local ELSE stack[up + 1]]
  /\ DebugCall(walk'.rip)
  /\ UNCHANGED <<stackVars, printed, typed>>

\* One turn of mon_backtrace's loop: the call is printed and its caller asked
\* about, also when there is none.
WalkFrame ==
  /\ walk # NotWalking /\ walk.rbp # 0 /\ DebugDone
  /\ shown' = Append(shown, Line(walk.rbp, walk.rip, Ripdebuginfo))
  /\ walk' = [rbp |-> stack[walk.rbp], rip |-> stack[walk.rbp + 1]]
  /\ DebugCall(walk'.rip)
  /\ UNCHANGED <<stackVars, printed, typed>>

\* The loop ends and mon_backtrace returns.
WalkEnd ==
  /\ walk # NotWalking /\ walk.rbp = 0 /\ DebugDone
  /\ walk' = NotWalking
  /\ Ret /\ DebugIdle
  /\ UNCHANGED <<shown, printed, typed>>

\* test_backtrace prints and returns; in the end the list shown is forgotten.
LeaveTest ==
  LET x == Head(frames).x
  IN /\ InFn("test_backtrace")
     /\ shown # << >>
     /\ printed' = Append(printed, <<"leaving", x>>)
     /\ Ret
     /\ shown' = IF x = kernel.depth THEN << >> ELSE shown
     /\ UNCHANGED <<walk, typed, debugVars>>

\* i386_init enters the monitor, which runs a `backtrace` command.
CallMonitor(n) ==
  /\ InFn("i386_init") /\ Tested
  /\ Call("monitor", 0, "i386_init", n)
  /\ UNCHANGED <<walk, shown, printed, typed, debugVars>>

CallRuncmd(n) ==
  /\ InFn("monitor") /\ typed < kernel.commands
  /\ Call("runcmd", 0, "monitor", n)
  /\ typed' = typed + 1
  /\ UNCHANGED <<walk, shown, printed, debugVars>>

LeaveRuncmd ==
  /\ InFn("runcmd") /\ shown # << >>
  /\ Ret
  /\ shown' = << >>
  /\ UNCHANGED <<walk, printed, typed, debugVars>>

BtNext ==
  \/ \E n \in kernel.locals :
       \/ CallInit(n) \/ CallTest(n) \/ Recurse(n) \/ CallBacktrace(n)
       \/ CallMonitor(n) \/ CallRuncmd(n)
  \/ AskDebugInfo \/ WalkFrame \/ WalkEnd \/ LeaveTest \/ LeaveRuncmd

\* The processor runs; nobody needs to type a command.
BtSpec == BtInit /\ [][BtNext]_btVars /\ WF_btVars(walk # NotWalking /\ BtNext)
-----------------------------------------------------------------------------
\* The place at which the k-th active call is to continue.
RipOf(k) == IF k = 1 THEN Place("mon_backtrace") ELSE frames[k - 1].from

\* mon_backtrace lists the active calls, innermost first and each once, whatever
\* the sizes of their frames, and stops at the call from entry.S: itself, the
\* test_backtraces and i386_init, which grade-lab1 counts (8 lines for a depth
\* of 5), or itself, runcmd, monitor and i386_init.  Each is listed with its own
\* function, line and number of arguments, and not with those of the call asked
\* about before it.
ListsCallers ==
  /\ walk # NotWalking => Len(shown) <= Len(frames)
  /\ walk # NotWalking /\ walk.rbp = 0 /\ DebugDone =>
       /\ Len(shown) = Len(frames)
       /\ \A k \in 1..Len(shown) :
            LET l == shown[k]
            IN /\ l.rbp = frames[k].base /\ l.rip = RipOf(k)
               /\ l.fn = -1 => l.line = 0 /\ l.narg = 0
       /\ header = "good" /\ Sorted =>
            \A k \in 1..Len(shown) : shown[k].fn # -1 => shown[k].line = LineOf(shown[k].rip)
       /\ Readable =>
            \A k \in 1..Len(shown) :
              /\ shown[k].fn = FunctionAt(shown[k].rip)
              /\ shown[k].fn # -1 => shown[k].narg = Cardinality(LeadingArgs(shown[k].fn))

\* mon_backtrace ends, although it looks at one CU header too many for an
\* address without a function, and also when a line program has an error,
\* unless it comes to a DIE that it cannot read, which may keep it for ever.
BacktraceEnds == (walk # NotWalking) ~> (walk = NotWalking \/ die.err)
=============================================================================
