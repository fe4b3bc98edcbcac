------------------------------ MODULE Cprintf -------------------------------
(***************************************************************************)
(* Output of user environments: cprintf() (lib/printf.c) collects          *)
(* characters in a buffer on the stack and gives them to sys_cputs(),      *)
(* during which no other environment prints.  Between two characters the   *)
(* environment may be preempted.                                           *)
(***************************************************************************)
EXTENDS Integers, Sequences

CONSTANTS
  Envs,
  BUFSIZE,    \* 256 in struct printbuf
  Lengths,    \* how long lines may be
  MAXLINES    \* lines that an environment prints

\* What the constants must satisfy.
CprintfAssumption == BUFSIZE \in Nat \ {0, 1} /\ Lengths \subseteq Nat

VARIABLES
  line,       \* the number of the line an environment prints, 0 before the first
  todo,       \* characters that vprintfmt() has still to hand to putch()
  len,        \* the length of the line
  print_buf,  \* printbuf: the characters collected
  busy,       \* the environment is in vcprintf()
  console     \* what the console has shown, as [env, line, k]

varsPrint == <<line, todo, len, print_buf, busy, console>>

InitPrint ==
  /\ line = [e \in Envs |-> 0] /\ todo = [e \in Envs |-> 0] /\ len = [e \in Envs |-> 0]
  /\ print_buf = [e \in Envs |-> << >>]
  /\ busy = [e \in Envs |-> FALSE]
  /\ console = << >>

\* cprintf() of a line that is formatted to n characters
Vcprintf(e, n) ==
  /\ ~busy[e] /\ line[e] < MAXLINES
  /\ busy' = [busy EXCEPT ![e] = TRUE]
  /\ line' = [line EXCEPT ![e] = @ + 1]
  /\ len' = [len EXCEPT ![e] = n] /\ todo' = [todo EXCEPT ![e] = n]
  /\ print_buf' = [print_buf EXCEPT ![e] = << >>]
  /\ UNCHANGED console

\* sys_cputs(): the kernel prints it under its lock.
sys_cputs(s) == console' = console \o s

\* Mutant: the buffer is not started again.
Flushed_Keeps(b) == b

Flushed(b) == << >>
Full(b) == Len(b) = BUFSIZE - 1

\* putch()
Putch(e) ==
  /\ busy[e] /\ todo[e] > 0
  /\ todo' = [todo EXCEPT ![e] = @ - 1]
  /\ LET b == Append(print_buf[e], [env |-> e, line |-> line[e], k |-> len[e] - todo[e] + 1])
     IN  IF Full(b)
         THEN sys_cputs(b) /\ print_buf' = [print_buf EXCEPT ![e] = Flushed(b)]
         ELSE print_buf' = [print_buf EXCEPT ![e] = b] /\ UNCHANGED console
  /\ UNCHANGED <<line, len, busy>>

\* The last sys_cputs() of vcprintf()
Return(e) ==
  /\ busy[e] /\ todo[e] = 0
  /\ sys_cputs(print_buf[e])
  /\ busy' = [busy EXCEPT ![e] = FALSE]
  /\ print_buf' = [print_buf EXCEPT ![e] = << >>]
  /\ UNCHANGED <<line, len, todo>>

NextPrint == \E e \in Envs : (\E n \in Lengths : Vcprintf(e, n)) \/ Putch(e) \/ Return(e)

SpecPrint == InitPrint /\ [][NextPrint]_varsPrint

-----------------------------------------------------------------------------
\* Types; the buffer on the stack is never written past its end.
TypeOKPrint ==
  /\ line \in [Envs -> 0 .. MAXLINES]
  /\ \A e \in Envs : Len(print_buf[e]) <= BUFSIZE

\* A character that belongs before another one of the same environment.
Before(a, b) == a.line < b.line \/ (a.line = b.line /\ a.k < b.k)

\* Everything an environment has printed is on the console, once and in order,
\* but for what is still in its buffer.
NothingLost ==
  \A e \in Envs :
    LET s   == console \o print_buf[e]
        own == {j \in DOMAIN s : s[j].env = e}
    IN  /\ \A i, j \in own : i < j => Before(s[i], s[j])
        /\ \A j \in own : s[j].k > 1 =>
             \E i \in own : i < j /\ s[i].line = s[j].line /\ s[i].k = s[j].k - 1
        /\ busy[e] /\ todo[e] < len[e] =>
             \E j \in own : /\ s[j].line = line[e] /\ s[j].k = len[e] - todo[e]
                            /\ \A i \in own : i <= j

\* "make the lines output to the console atomic": a line that fits stands
\* together, whatever other environments print.
Whole(n) ==
  \A i, j \in DOMAIN console :
    LET a == console[i]
        b == console[j]
    IN  i < j /\ a.env = b.env /\ a.line = b.line /\ len[a.env] <= n /\ a.line = line[a.env] =>
          \A k \in i .. j : console[k].env = a.env

ShortLinesWhole == Whole(BUFSIZE - 1)

\* Output arrives whole: once, in order, and a short line in one piece.
OutputWhole == NothingLost /\ ShortLinesWhole

\* "Collect up to 256 characters into a buffer and perform ONE system call to
\* print all of them": a line of BUFSIZE characters stands together too.
LinesWhole == Whole(BUFSIZE)
=============================================================================
