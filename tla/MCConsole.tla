----------------------------- MODULE MCConsole ------------------------------
(***************************************************************************)
(* The console's parts, model-checked together: the input buffer           *)
(* (Console), the keyboard driver (Keyboard), the screen with readline()   *)
(* (Terminal) and the buffer of a program's cprintf() (Cprintf).  A        *)
(* behaviour runs one of them and leaves the others as they start.         *)
(***************************************************************************)
EXTENDS Console, Keyboard, Cprintf

CONSTANTS CRT_COLS, CRT_ROWS, BUFLEN, Printable, MAXTOP  \* of Terminal

VARIABLES
  part,                                      \* the part that runs
  crt, paper, line_buf, i, reading, want     \* of Terminal

varsLine == <<crt, paper, line_buf, i, reading, want>>
varsMC   == <<part, vars, varsKbd, varsLine, varsPrint>>

T == INSTANCE Terminal WITH buf <- line_buf

ASSUME ConsolePartsAssumption ==
  ConsoleAssumption /\ KeyboardAssumption /\ T!TerminalAssumption /\ CprintfAssumption

-----------------------------------------------------------------------------
InitMC ==
  /\ part \in {"input", "keyboard", "line", "output"}
  /\ Init /\ InitKbd /\ InitPrint /\ T!Init
  /\ part # "line" => crt.pos = 0

NextMC ==
  \/ part = "input"    /\ Next /\ UNCHANGED <<part, varsKbd, varsLine, varsPrint>>
  \/ part = "keyboard" /\ NextKbd /\ UNCHANGED <<part, vars, varsLine, varsPrint>>
  \/ part = "line"     /\ T!Next /\ UNCHANGED <<part, vars, varsKbd, varsPrint>>
  \/ part = "output"   /\ NextPrint /\ UNCHANGED <<part, vars, varsKbd, varsLine>>

FairSpecMC == InitMC /\ [][NextMC]_varsMC /\ Fairness

-----------------------------------------------------------------------------
\* See Console: the buffer is a queue that loses, doubles and reorders nothing, and
\* whoever keeps calling cons_getc() gets every character.
InputServed == ImplementsFifo /\ (part = "input" => CharsAreRead)

\* See Terminal: cga_putc()'s screen and readline()'s buffer show the line that is
\* typed, and readline() returns it.
LineInput == T!LineInput
=============================================================================
