------------------------------ MODULE Monitor -------------------------------
(***************************************************************************)
(* The kernel monitor's command line (kern/monitor.c): monitor() reads a   *)
(* line and runcmd() cuts it into words where it lies, by ending each word *)
(* in place, and looks the first one up.  readline() is Terminal's; the    *)
(* three commands only print.                                              *)
(***************************************************************************)
EXTENDS Integers, Sequences, SequencesExt, FiniteSets, FiniteSetsExt, TLC

CONSTANTS
  Symbols,    \* characters of lines, " " among them
  LENGTH,     \* longest line
  MAXARGS,
  commands    \* sequence of the commands' names, each a sequence of characters

\* What the constants must satisfy.
MonitorAssumption == MAXARGS \in Nat \ {0, 1} /\ LENGTH \in Nat

VARIABLES
  line,       \* what readline() returned
  cells,      \* the buffer, from 1
  ptr,        \* buf
  argc,
  argv,       \* the elements of argv[] that were set
  run,        \* the command that is called: its number, 0 for none
  said,       \* "", "many" or "unknown"
  mon         \* where monitor() and runcmd() are

vars == <<line, cells, ptr, argc, argv, run, said, mon>>

NULL == 0

Init ==
  /\ line = <<>> /\ cells = <<"NUL">> /\ ptr = 1
  /\ argc = 0 /\ argv = 0 :> NULL
  /\ run = 0 /\ said = "" /\ mon = "prompt"

-----------------------------------------------------------------------------
\* A line is read, and runcmd() starts.
Read ==
  /\ mon = "prompt"
  /\ line' \in BoundedSeq(Symbols, LENGTH)
  /\ cells' = Append(line', "NUL") /\ ptr' = 1
  /\ argc' = 0 /\ argv' = 0 :> NULL
  /\ run' = 0 /\ said' = "" /\ mon' = "gobble"

Blank(ch) == ch = " "

Gobble ==
  /\ mon = "gobble" /\ Blank(cells[ptr])
  /\ cells' = [cells EXCEPT ![ptr] = "NUL"] /\ ptr' = ptr + 1
  /\ UNCHANGED <<line, argc, argv, run, said, mon>>

\* Mutant: the last element of argv[] is taken too.
NoRoom_Full == argc = MAXARGS

NoRoom == argc = MAXARGS - 1

Word ==
  /\ mon = "gobble" /\ ~Blank(cells[ptr]) /\ cells[ptr] # "NUL"
  /\ \/ NoRoom /\ said' = "many" /\ mon' = "prompt" /\ UNCHANGED <<argc, argv>>
     \/ ~NoRoom /\ argv' = (argc :> ptr) @@ argv /\ argc' = argc + 1 /\ mon' = "word" /\ UNCHANGED said
  /\ UNCHANGED <<line, cells, ptr, run>>

Scan ==
  /\ mon = "word"
  /\ \/ cells[ptr] # "NUL" /\ ~Blank(cells[ptr]) /\ ptr' = ptr + 1 /\ UNCHANGED mon
     \/ (cells[ptr] = "NUL" \/ Blank(cells[ptr])) /\ mon' = "gobble" /\ UNCHANGED ptr
  /\ UNCHANGED <<line, cells, argc, argv, run, said>>

Parsed ==
  /\ mon = "gobble" /\ cells[ptr] = "NUL"
  /\ argv' = (argc :> NULL) @@ argv
  /\ mon' = IF argc = 0 THEN "prompt" ELSE "lookup"
  /\ UNCHANGED <<line, cells, ptr, argc, run, said>>

\* The word at a position of the buffer
Text(k) == SubSeq(cells, k, Min({j \in k .. Len(cells) : cells[j] = "NUL"}) - 1)

\* The first command of that name is called; all of them return 0.
Lookup ==
  /\ mon = "lookup"
  /\ LET same == {j \in 1 .. Len(commands) : commands[j] = Text(argv[0])}
     IN  \/ same # {} /\ run' = Min(same) /\ UNCHANGED said
         \/ same = {} /\ said' = "unknown" /\ UNCHANGED run
  /\ mon' = "prompt"
  /\ UNCHANGED <<line, cells, ptr, argc, argv>>

Next == Read \/ Gobble \/ Word \/ Scan \/ Parsed \/ Lookup

Spec == Init /\ [][Next]_vars

-----------------------------------------------------------------------------
\* The words of the line, from their first and last characters.
Starts == {k \in 1 .. Len(line) : ~Blank(line[k]) /\ (k = 1 \/ Blank(line[k - 1]))}
End(k) == Min({j \in k .. Len(line) : j = Len(line) \/ Blank(line[j + 1])})
Words  == LET s == SetToSortSeq(Starts, <) IN [j \in 1 .. Len(s) |-> SubSeq(line, s[j], End(s[j]))]

\* runcmd() calls a command exactly if the line's first word is its name and all
\* words fit in argv[]; the command then finds the line's words, each ended in
\* place, and behind them the null pointer, in argv[] and not past it.
CommandRight ==
  /\ DOMAIN argv \subseteq 0 .. MAXARGS - 1
  /\ mon = "prompt" =>
       /\ said = "many" <=> Len(Words) > MAXARGS - 1
       /\ said = "unknown" <=> Len(Words) \in 1 .. MAXARGS - 1 /\ Words[1] \notin ToSet(commands)
       /\ run # 0 <=> said = "" /\ Words # <<>>
       /\ run # 0 => /\ commands[run] = Words[1]
                     /\ argc = Len(Words) /\ argv[argc] = NULL
                     /\ \A j \in 1 .. argc : Text(argv[j - 1]) = Words[j]
=============================================================================
