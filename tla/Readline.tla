------------------------------ MODULE Readline ------------------------------
(***************************************************************************)
(* readline of lib/readline.c on the screen of kern/console.c: the line    *)
(* editor of the kernel monitor, with its static buffer and its echo.  One *)
(* action per branch of its loop; an echo is the whole cputchar as far as  *)
(* the screen goes.  getchar delivers a character of Input: by ConsInput   *)
(* it is never 0 or negative, so the branch for c < 0 cannot be taken.     *)
(***************************************************************************)
EXTENDS Cga

CONSTANTS Input,       \* what getchar can return
          BUFLEN,
          PromptLen    \* characters in the prompt ("K> ")

ASSUME InputAssumption ==
  Input \subseteq 1..255 /\ {ch \in Input : ch >= 32} \subseteq Glyph
ASSUME PromptGlyphAssumption == 62 \in Glyph
ASSUME BuflenAssumption == BUFLEN \in Nat \ {0}
ASSUME PromptAssumption == PromptLen \in Nat

PromptGlyph == 62      \* '>' stands for the characters of the prompt

\* A full line and the rest of its last screen line fit on the screen, as
\* 1023 characters do on 25 lines of 80.
ASSUME LineFitsAssumption == BUFLEN - 1 <= CRT_SIZE - CRT_COLS

VARIABLES buf, i,      \* the static buffer and the number of characters in it
          prompt,      \* characters of the prompt still to be printed
          at           \* prompt, loop or returned: where readline is

lineVars == <<cgaVars, buf, i, prompt, at>>

LineInit ==
  /\ CgaInit
  /\ buf = [n \in 0..BUFLEN-1 |-> 0]
  /\ i = 0
  /\ prompt = PromptLen
  /\ at = "prompt"

\* cprintf("%s", prompt), a character at a time.
PrintPrompt ==
  /\ at = "prompt" /\ prompt > 0
  /\ PutGlyph(Grey, PromptGlyph)
  /\ prompt' = prompt - 1
  /\ UNCHANGED <<buf, i, at>>

StartLine ==
  /\ at = "prompt" /\ prompt = 0
  /\ i' = 0
  /\ at' = "loop"
  /\ UNCHANGED <<cgaVars, buf, prompt>>

IsDelete(c) == c \in {8, 127}

\* Seeded fault: the delete is not echoed.
DeleteCharNoEcho(c) ==
  /\ at = "loop" /\ IsDelete(c) /\ i > 0
  /\ i' = i - 1
  /\ UNCHANGED <<cgaVars, buf, prompt, at>>

\* `(c == '\b' || c == '\x7f') && i > 0`
DeleteChar(c) ==
  /\ at = "loop" /\ IsDelete(c) /\ i > 0
  /\ PutBackspace(Grey)
  /\ i' = i - 1
  /\ UNCHANGED <<buf, prompt, at>>

\* Seeded fault: `i < BUFLEN`.
InsertCharFull(c) ==
  /\ at = "loop" /\ ~(IsDelete(c) /\ i > 0)
  /\ c >= 32 /\ i < BUFLEN
  /\ PutGlyph(Grey, c)
  /\ buf' = [buf EXCEPT ![i] = c]
  /\ i' = i + 1
  /\ UNCHANGED <<prompt, at>>

\* `c >= ' ' && i < BUFLEN-1`
InsertChar(c) ==
  /\ at = "loop" /\ ~(IsDelete(c) /\ i > 0)
  /\ c >= 32 /\ i < BUFLEN - 1
  /\ PutGlyph(Grey, c)
  /\ buf' = [buf EXCEPT ![i] = c]
  /\ i' = i + 1
  /\ UNCHANGED <<prompt, at>>

\* Seeded fault: the line is not terminated.
EndLineUnterminated(c) ==
  /\ at = "loop" /\ c \in {10, 13}
  /\ PutNewline
  /\ at' = "returned"
  /\ UNCHANGED <<buf, i, prompt>>

\* `c == '\n' || c == '\r'`
EndLine(c) ==
  /\ at = "loop" /\ c \in {10, 13}
  /\ PutNewline
  /\ buf' = [buf EXCEPT ![i] = 0]
  /\ at' = "returned"
  /\ UNCHANGED <<i, prompt>>

\* Any other character is dropped without echo: a control character, or any
\* character when the buffer is full.
DropChar(c) ==
  /\ at = "loop" /\ ~(IsDelete(c) /\ i > 0)
  /\ ~(c >= 32 /\ i < BUFLEN - 1) /\ c \notin {10, 13}
  /\ UNCHANGED lineVars

\* monitor calls readline again.
NextCall ==
  /\ at = "returned"
  /\ prompt' = PromptLen
  /\ at' = "prompt"
  /\ UNCHANGED <<cgaVars, buf, i>>

GetChar(c) == DeleteChar(c) \/ InsertChar(c) \/ EndLine(c) \/ DropChar(c)

LineNext ==
  \/ PrintPrompt
  \/ StartLine
  \/ \E c \in Input : GetChar(c)
  \/ NextCall

LineSpec == LineInit /\ [][LineNext]_lineVars
-----------------------------------------------------------------------------
\* i never leaves the buffer, one place always being left for the final 0.
LineTypeOK ==
  /\ CgaTypeOK
  /\ buf \in [0..BUFLEN-1 -> Input \cup {0}]
  /\ i \in 0..BUFLEN-1
  /\ prompt \in 0..PromptLen
  /\ at \in {"prompt", "loop", "returned"}

\* What the user sees is what readline returns: while a line is edited the i
\* places of the screen before the cursor show the i characters in the
\* buffer, through line wraps, scrolling and deletes.
EchoMirrorsLine ==
  at = "loop" =>
    /\ i <= crt_pos
    /\ \A n \in 0..i-1 : crt_buf[crt_pos - i + n].glyph = buf[n]

\* The line that is returned is a C string of exactly the i characters that
\* were on the screen: nothing of an earlier, longer line shows through.
ReturnsCString ==
  at = "returned" => /\ buf[i] = 0
                     /\ \A n \in 0..i-1 : buf[n] # 0

\* A deleted character is gone from the screen: nothing stands at or after
\* the cursor.
NothingAfterCursor ==
  \A p \in crt_pos..CRT_SIZE-1 : crt_buf[p].glyph = Space
=============================================================================
