-------------------------------- MODULE Fifo --------------------------------
(***************************************************************************)
(* What console input promises: "return the next input character from the  *)
(* console, or 0 if none waiting" (kern/console.c).                        *)
(***************************************************************************)
EXTENDS Sequences

CONSTANT Chars

VARIABLES
  queue,  \* the characters that are waiting
  out     \* what the last call returned

vars == <<queue, out>>

Init == queue = << >> /\ out = 0

Put(c) == queue' = Append(queue, c) /\ UNCHANGED out

Get ==
  \/ queue # << >> /\ out' = Head(queue) /\ queue' = Tail(queue)
  \/ queue = << >> /\ out' = 0 /\ UNCHANGED queue

Next == (\E c \in Chars : Put(c)) \/ Get

Spec == Init /\ [][Next]_vars
=============================================================================
