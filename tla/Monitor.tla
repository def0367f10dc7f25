------------------------------ MODULE Monitor ------------------------------
(***************************************************************************)
(* The kernel monitor, kern/monitor.c, and the panics of kern/init.c: the  *)
(* loop that reads a line and runs it, the in-place splitting of the line  *)
(* into arguments, the lookup of the command, and _panic, which may be     *)
(* called (by a failed assertion) inside a command and enters the monitor  *)
(* again, without ever returning.                                          *)
(*                                                                         *)
(* The line is read by Readline, on the screen, into its static buffer,    *)
(* and split there.  The commands' names are one letter each; what the     *)
(* monitor prints is reduced to the newline that ends it.                  *)
(***************************************************************************)
EXTENDS Readline, Sequences, FiniteSets

CONSTANTS MAXARGS,
          Commands,    \* the letters that name a command
          MaxPanics    \* bound: panics in one behaviour

ASSUME MaxArgsAssumption == MAXARGS \in Nat \ {0}

White == 32

VARIABLES cmd_at,      \* readline, split, scan, lookup, command: where runcmd is
          line,        \* the line as readline returned it
          pos,         \* runcmd's moving pointer into buf
          argc, argv,  \* argv[k]: a position in buf, for k < argc
          panicstr,    \* number of the first panic, 0 before
          depth,       \* how many panics are on the stack
          said         \* the numbers of the panics whose message was printed

monVars == <<lineVars, cmd_at, line, pos, argc, argv, panicstr, depth, said>>
editVars == <<cgaVars, i, prompt, at>>         \* Readline's, but for the buffer
cmdVars == <<line, pos, argc, argv>>
panicVars == <<panicstr, depth, said>>

MonInit ==
  /\ LineInit
  /\ cmd_at = "readline"
  /\ line = << >> /\ pos = 0
  /\ argc = 0 /\ argv = << >>
  /\ panicstr = 0 /\ depth = 0 /\ said = << >>

\* The monitor calls readline again: runcmd returned, or will never be returned
\* to, and its locals are dead.
ToReadline ==
  /\ cmd_at' = "readline"
  /\ line' = << >> /\ pos' = 0
  /\ argc' = 0 /\ argv' = << >>
  /\ UNCHANGED <<buf, i, prompt, at>>

\* readline, up to its return.
Edit ==
  /\ cmd_at = "readline"
  /\ PrintPrompt \/ StartLine \/ \E c \in Input : GetChar(c)
  /\ UNCHANGED <<cmd_at, cmdVars, panicVars>>

\* The C string at a position of the buffer.
StringAt(p) ==
  LET e == CHOOSE n \in p..BUFLEN-1 : buf[n] = 0 /\ \A m \in p..n-1 : buf[m] # 0
  IN [k \in 1..(e - p) |-> buf[p + k - 1]]

\* readline has returned, and is at its start for the next call; monitor calls
\* runcmd with its buffer.
RunCmd ==
  /\ cmd_at = "readline" /\ NextCall
  /\ line' = StringAt(0)
  /\ pos' = 0 /\ argc' = 0 /\ argv' = << >>
  /\ cmd_at' = "split"
  /\ UNCHANGED panicVars

\* `while (*buf && strchr(WHITESPACE, *buf)) *buf++ = 0`, one turn.
Gobble ==
  /\ cmd_at = "split" /\ buf[pos] = White
  /\ buf' = [buf EXCEPT ![pos] = 0]
  /\ pos' = pos + 1
  /\ UNCHANGED <<editVars, cmd_at, line, argc, argv, panicVars>>

SplitEnd ==
  /\ cmd_at = "split" /\ buf[pos] = 0
  /\ cmd_at' = "lookup"
  /\ UNCHANGED <<editVars, buf, cmdVars, panicVars>>

TooMany ==
  /\ cmd_at = "split" /\ buf[pos] \notin {0, White} /\ argc = MAXARGS - 1
  /\ cmd_at' = "toomany"
  /\ UNCHANGED <<editVars, buf, cmdVars, panicVars>>

SaveArg ==
  /\ cmd_at = "split" /\ buf[pos] \notin {0, White} /\ argc # MAXARGS - 1
  /\ argv' = Append(argv, pos)
  /\ argc' = argc + 1
  /\ cmd_at' = "scan"
  /\ UNCHANGED <<editVars, buf, line, pos, panicVars>>

\* Seeded fault: the pointer is not advanced.
ScanStuck ==
  /\ cmd_at = "scan" /\ buf[pos] \notin {0, White}
  /\ UNCHANGED monVars

\* `while (*buf && !strchr(WHITESPACE, *buf)) buf++`, one turn and its end.
Scan ==
  /\ cmd_at = "scan" /\ buf[pos] \notin {0, White}
  /\ pos' = pos + 1
  /\ UNCHANGED <<editVars, buf, cmd_at, line, argc, argv, panicVars>>

\* Seeded fault: the character after an argument is stepped over.
ScanEndSkips ==
  /\ cmd_at = "scan" /\ buf[pos] \in {0, White}
  /\ pos' = IF buf[pos] = White THEN pos + 1 ELSE pos
  /\ cmd_at' = "split"
  /\ UNCHANGED <<editVars, buf, line, argc, argv, panicVars>>

ScanEnd ==
  /\ cmd_at = "scan" /\ buf[pos] \in {0, White}
  /\ cmd_at' = "split"
  /\ UNCHANGED <<editVars, buf, cmdVars, panicVars>>

\* The message of TooMany is printed; runcmd returns 0.
TooManyEnd ==
  /\ cmd_at = "toomany"
  /\ PutNewline
  /\ ToReadline
  /\ UNCHANGED panicVars

IsCommand == argc > 0 /\ \E c \in Commands : StringAt(argv[1]) = <<c>>

\* No argument, or no command of that name: runcmd returns 0.
Unknown ==
  /\ cmd_at = "lookup" /\ ~IsCommand
  /\ IF argc = 0 THEN UNCHANGED cgaVars ELSE PutNewline
  /\ ToReadline
  /\ UNCHANGED panicVars

Invoke ==
  /\ cmd_at = "lookup" /\ IsCommand
  /\ cmd_at' = "command"
  /\ UNCHANGED <<editVars, buf, cmdVars, panicVars>>

\* Every command returns 0, so monitor goes on.
CommandEnd ==
  /\ cmd_at = "command"
  /\ PutNewline
  /\ ToReadline
  /\ UNCHANGED panicVars

\* Seeded fault: panicstr is not tested.
_panicAlways ==
  /\ cmd_at = "command" /\ depth < MaxPanics
  /\ depth' = depth + 1
  /\ panicstr' = depth + 1
  /\ said' = Append(said, depth + 1)
  /\ PutNewline
  /\ ToReadline

\* An assertion fails inside a command.  Only the first panic is announced;
\* each one calls monitor anew, which reads the next line.
_panic ==
  /\ cmd_at = "command" /\ depth < MaxPanics
  /\ depth' = depth + 1
  /\ IF panicstr # 0
       THEN UNCHANGED <<panicstr, said>>
       ELSE panicstr' = depth + 1 /\ said' = Append(said, depth + 1)
  /\ PutNewline
  /\ ToReadline

MonNext ==
  \/ Edit \/ RunCmd
  \/ Gobble \/ SplitEnd \/ TooMany \/ SaveArg \/ Scan \/ ScanEnd \/ TooManyEnd
  \/ Unknown \/ Invoke \/ CommandEnd \/ _panic

\* The processor runs; nobody needs to type a line.
MonSpec ==
  /\ MonInit /\ [][MonNext]_monVars
  /\ WF_monVars((cmd_at # "readline" \/ at # "loop") /\ MonNext)
-----------------------------------------------------------------------------
(* The words of a line: its maximal runs of other characters than White. *)

WordStarts(l) == {n \in 1..Len(l) : l[n] # White /\ (n = 1 \/ l[n - 1] = White)}

NumWords(l) == Cardinality(WordStarts(l))

\* The end of the word that starts at n.
WordEnd(l, n) ==
  CHOOSE e \in n..Len(l) : /\ \A m \in n..e : l[m] # White
                           /\ e = Len(l) \/ l[e + 1] = White

\* The k-th word.
Word(l, k) ==
  LET n == CHOOSE m \in WordStarts(l) :
             Cardinality({x \in WordStarts(l) : x <= m}) = k
  IN SubSeq(l, n, WordEnd(l, n))
-----------------------------------------------------------------------------
\* A command gets exactly the words of the line as its arguments, each a C
\* string of its own, although all of them share readline's buffer, in which the
\* end of an earlier, longer line may still be; and argv has room for the null
\* pointer after them.
ArgsAreWords ==
  cmd_at \in {"lookup", "command"} =>
    /\ argc = NumWords(line) /\ argc < MAXARGS
    /\ \A k \in 1..argc : StringAt(argv[k]) = Word(line, k)

\* The comment above panicstr: it "contains argument to first call to panic;
\* used as flag to indicate that the kernel has already called panic".  Of
\* panics within panics only the first is announced, and its message is never
\* replaced.
FirstPanicOnly == said = IF depth = 0 THEN << >> ELSE <<1>>

\* Whatever is typed, and after any number of panics, monitor comes back to a
\* prompt and then waits for a key.
MonitorReturns == []<>(cmd_at = "readline" /\ at = "loop")
=============================================================================
