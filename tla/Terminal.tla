------------------------------ MODULE Terminal ------------------------------
(***************************************************************************)
(* readline() (lib/readline.c, as the kernel monitor uses it) and the      *)
(* screen it echoes to: cga_putc() (kern/console.c).  A character that     *)
(* getchar() returns is handled, echo included, in one step.  The serial   *)
(* and parallel ports get the same characters and keep no state.           *)
(***************************************************************************)
EXTENDS Integers, Sequences, SequencesExt

CONSTANTS
  CRT_COLS, CRT_ROWS,  \* size of the screen
  BUFLEN,              \* size of readline()'s buffer
  Printable,           \* characters from ' ' upwards, without 0x7f
  MAXTOP               \* bound on the number of times that the screen scrolls

\* What the constants must satisfy.
TerminalAssumption ==
  /\ CRT_COLS \in Nat \ {0} /\ CRT_ROWS \in Nat \ {0, 1}
  /\ BUFLEN \in Nat \ {0} /\ MAXTOP \in Nat

CRT_SIZE == CRT_ROWS * CRT_COLS
Cells    == 0 .. CRT_SIZE - 1
Blank    == " "
NUL      == "0"
Prompt   == ">"
DEL      == "DEL"  \* 0x7f

VARIABLES
  crt,      \* pos: crt_pos, buf: crt_buf, top: lines scrolled off (not in the code)
  paper,    \* what an endless screen would show (not in the code)
  buf, i,   \* readline()'s buffer and position
  reading,  \* readline() has been called and has not returned
  want      \* the line that was typed and corrected so far (not in the code)

vars == <<crt, paper, buf, i, reading, want>>

-----------------------------------------------------------------------------
\* cga_putc()

\* The switch on the character.
Place(s, c) ==
  CASE c = "BS" -> IF s.pos > 0 THEN [s EXCEPT !.pos = @ - 1, !.buf[s.pos - 1] = Blank] ELSE s
    [] c = "NL" -> [s EXCEPT !.pos = (@ + CRT_COLS) - (@ % CRT_COLS)]
    [] c = "CR" -> [s EXCEPT !.pos = @ - (@ % CRT_COLS)]
    [] OTHER    -> [s EXCEPT !.pos = @ + 1, !.buf[s.pos] = c]

\* The screen moves up by a line when the cursor has left it.
Scroll(s) ==
  IF s.pos >= CRT_SIZE
  THEN [pos |-> s.pos - CRT_COLS,
        buf |-> [k \in Cells |-> IF k + CRT_COLS \in Cells THEN s.buf[k + CRT_COLS] ELSE Blank],
        top |-> s.top + 1]
  ELSE s

\* cga_putc(); a tab is five calls with a space.
CgaPutc(s, c) ==
  IF c = "TAB" THEN FoldLeft(LAMBDA t, x : Scroll(Place(t, x)), s, <<Blank, Blank, Blank, Blank, Blank>>)
  ELSE Scroll(Place(s, c))

\* cons_putc(): the screen, and for comparison the endless one.
ConsPutc(c) ==
  LET abs == crt.top * CRT_COLS + crt.pos
  IN  /\ crt.top < MAXTOP
      /\ crt' = CgaPutc(crt, c)
      /\ paper' = CASE c \in {"NL", "CR"} -> paper
                    [] c = "TAB" -> [k \in DOMAIN paper |-> IF k \in abs .. abs + 4 THEN Blank ELSE paper[k]]
                    [] c = "BS" -> [paper EXCEPT ![abs - 1] = Blank]
                    [] OTHER    -> [paper EXCEPT ![abs] = c]

Init ==
  /\ crt \in {[pos |-> p, buf |-> [k \in Cells |-> Blank], top |-> 0] : p \in {0, CRT_SIZE - CRT_COLS}}
  /\ paper = [k \in 0 .. (CRT_ROWS + MAXTOP + 5) * CRT_COLS |-> Blank]
  /\ buf = [k \in 0 .. BUFLEN - 1 |-> NUL]
  /\ i = 0
  /\ reading = FALSE
  /\ want = << >>

-----------------------------------------------------------------------------
\* The monitor prints something between two lines of input.
Cprintf(c) ==
  /\ ~ reading
  /\ ConsPutc(c)
  /\ UNCHANGED <<buf, i, reading, want>>

\* readline() is called and prints its prompt, at the start of a line.
Readline ==
  /\ ~ reading /\ crt.pos % CRT_COLS = 0
  /\ ConsPutc(Prompt)
  /\ reading' = TRUE /\ i' = 0 /\ want' = << >>
  /\ UNCHANGED buf

\* Backspace or delete, with something to take back.
TypeErase ==
  /\ reading /\ i > 0
  /\ ConsPutc("BS")
  /\ i' = i - 1
  /\ want' = Front(want)
  /\ UNCHANGED <<buf, reading>>

\* There is room for another character and the terminator.
Fits == i < BUFLEN - 1

\* A character that is kept.  Delete is one of them when there is nothing to take
\* back: 0x7f is not less than ' '.  (A backspace then is dropped.)
TypePrintable(c) ==
  /\ reading /\ Fits
  /\ c = DEL => i = 0
  /\ ConsPutc(c)
  /\ buf' = [buf EXCEPT ![i] = c]
  /\ i' = i + 1
  /\ want' = IF Len(want) < BUFLEN - 1 THEN Append(want, c) ELSE want
  /\ UNCHANGED reading

\* Mutant: no terminator.
Terminated_Not(b) == b

\* The buffer with the terminator after the last character.
Terminated(b) == [b EXCEPT ![i] = NUL]

\* The line ends and readline() returns its buffer.  All other characters, and
\* those that do not fit, are dropped without an echo.
TypeEnter ==
  /\ reading
  /\ ConsPutc("NL")
  /\ buf' = Terminated(buf)
  /\ reading' = FALSE
  /\ UNCHANGED <<i, want>>

Next ==
  \/ \E c \in Printable \cup {"NL", "CR", "TAB"} : Cprintf(c)
  \/ Readline \/ TypeErase \/ TypeEnter
  \/ \E c \in Printable \cup {DEL} : TypePrintable(c)

Spec == Init /\ [][Next]_vars

-----------------------------------------------------------------------------
\* Types; the cursor stays on the screen after each character (cga_putc()) and
\* the line within the buffer (readline()).
TypeOK ==
  /\ crt.pos \in Cells
  /\ DOMAIN crt.buf = Cells
  /\ i \in 0 .. BUFLEN - 1
  /\ DOMAIN buf = 0 .. BUFLEN - 1

\* The screen is a window on the endless one: scrolling, wrapping and tabs lose
\* and invent nothing.
ShowsTail ==
  \A k \in Cells : crt.buf[k] = paper[crt.top * CRT_COLS + k]

\* What stands before the cursor is what readline() holds: echo and buffer stay
\* in step, across the end of a line and when the screen scrolls.
EchoIsLine ==
  reading => /\ crt.pos >= i
             /\ \A k \in 0 .. i - 1 : crt.buf[crt.pos - i + k] = buf[k]

\* The C string at b.
CString(b) ==
  LET n == CHOOSE k \in 0 .. BUFLEN - 1 : b[k] = NUL /\ \A m \in 0 .. k - 1 : b[m] # NUL
  IN  [k \in 1 .. n |-> b[k - 1]]

\* readline() returns the line as it was typed and corrected, cut to the size of
\* the buffer, and nothing of the lines that were in the buffer before.  A delete at
\* its start is part of the line.
LineStep ==
  reading /\ ~ reading' =>
    /\ \E k \in 0 .. BUFLEN - 1 : buf'[k] = NUL
    /\ CString(buf') = want

ReturnsLine == [][LineStep]_vars

\* While a line is typed the screen shows it, on a screen that loses nothing, and
\* in the end readline() returns it.
LineInput == [](ShowsTail /\ EchoIsLine) /\ ReturnsLine
=============================================================================
