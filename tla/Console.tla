------------------------------ MODULE Console -------------------------------
(***************************************************************************)
(* Console input (kern/console.c): cons_getc() polls the serial port and   *)
(* the keyboard through cons_intr(), which stashes what they have in a     *)
(* circular buffer, and takes one character out.  Bytes may arrive at a    *)
(* device between any two steps.  No device interrupt does the polling:    *)
(* trap_dispatch() (kern/trap.c) has no case for them.                     *)
(*                                                                         *)
(* What the keyboard's bytes mean is in module Keyboard; here a device     *)
(* hands over a character, or 0 for "nothing yet".                         *)
(***************************************************************************)
EXTENDS Naturals, Sequences

CONSTANTS
  CONSBUFSIZE,  \* size of the buffer
  Chars,        \* characters other than 0
  HOLDS,        \* bytes that a device holds (the serial port's FIFO is off: 1)
  MAXBACKLOG    \* bound on the characters that have arrived and are not read

\* What the constants must satisfy.
ConsoleAssumption ==
  /\ CONSBUFSIZE \in Nat \ {0}
  /\ 0 \notin Chars
  /\ MAXBACKLOG \in Nat /\ HOLDS \in Nat \ {0}

Slots   == 0 .. CONSBUFSIZE - 1
Devices == {"serial", "kbd"}

VARIABLES
  device,      \* what each device holds, in order of arrival
  buf,         \* cons.buf
  rpos, wpos,  \* cons.rpos, cons.wpos
  pc,          \* "out", polling "serial" or "kbd", or about to "take"
  c            \* what cons_getc() returned last

vars == <<device, buf, rpos, wpos, pc, c>>

Init ==
  /\ device = [d \in Devices |-> << >>]
  /\ buf = [i \in Slots |-> 0]
  /\ rpos = 0
  /\ wpos = 0
  /\ pc = "out"
  /\ c = 0

\* Characters in the buffer, as far as its two positions tell.
Waiting == (wpos + CONSBUFSIZE - rpos) % CONSBUFSIZE

Backlog == Waiting + Len(device["serial"]) + Len(device["kbd"])

\* A character, or a byte that does not complete one, arrives at a device.
Arrive(d, x) ==
  /\ Backlog < MAXBACKLOG /\ Len(device[d]) < HOLDS
  /\ device' = [device EXCEPT ![d] = Append(@, x)]
  /\ UNCHANGED <<buf, rpos, wpos, pc, c>>

-----------------------------------------------------------------------------
\* cons_getc() is called and polls the serial port first.
ConsGetc ==
  /\ pc = "out"
  /\ pc' = "serial"
  /\ UNCHANGED <<device, buf, rpos, wpos, c>>

\* The position after i.
Advance(i) == IF i + 1 = CONSBUFSIZE THEN 0 ELSE i + 1

\* Mutant: a byte that completes no character is stashed too.
Stores_Zero(x) == TRUE

\* cons_intr() passes over zeros.
Stores(x) == x # 0

\* One round of the loop in cons_intr() for the device d.
ConsIntr(d) ==
  /\ pc = d /\ device[d] # << >>
  /\ device' = [device EXCEPT ![d] = Tail(@)]
  /\ LET x == Head(device[d])
     IN  IF Stores(x)
         THEN buf' = [buf EXCEPT ![wpos] = x] /\ wpos' = Advance(wpos)
         ELSE UNCHANGED <<buf, wpos>>
  /\ UNCHANGED <<rpos, pc, c>>

\* The device has no more data.
NoData(d) ==
  /\ pc = d /\ device[d] = << >>
  /\ pc' = IF d = "serial" THEN "kbd" ELSE "take"
  /\ UNCHANGED <<device, buf, rpos, wpos, c>>

\* The next character is returned, or 0 if none is waiting.
Take ==
  /\ pc = "take"
  /\ IF rpos # wpos
     THEN c' = buf[rpos] /\ rpos' = Advance(rpos)
     ELSE c' = 0 /\ UNCHANGED rpos
  /\ pc' = "out"
  /\ UNCHANGED <<device, buf, wpos>>

-----------------------------------------------------------------------------
Getc == ConsGetc \/ (\E d \in Devices : ConsIntr(d) \/ NoData(d)) \/ Take

Next == (\E d \in Devices, x \in Chars \cup {0} : Arrive(d, x)) \/ Getc

Spec == Init /\ [][Next]_vars

\* getchar() (kern/console.c) and the loop in lib/console.c call cons_getc()
\* until there is a character.  A device is slower than the loop that polls it:
\* it does not have another byte ready every time the loop looks.
Fairness == WF_vars(Getc) /\ \A d \in Devices : SF_vars(NoData(d))

-----------------------------------------------------------------------------
\* Types; the ring is never written past its end (cons_intr()).
TypeOK ==
  /\ device \in [Devices -> Seq(Chars \cup {0})]
  /\ buf \in [Slots -> Chars \cup {0}]
  /\ rpos \in Slots /\ wpos \in Slots
  /\ pc \in Devices \cup {"out", "take"}
  /\ c \in Chars \cup {0}

\* The characters between the read and the write position.
Stashed == [k \in 1 .. Waiting |-> buf[(rpos + k - 1) % CONSBUFSIZE]]

F == INSTANCE Fifo WITH queue <- Stashed, out <- c

\* The buffer with its two positions is a queue, and cons_getc() returns "the
\* next input character from the console, or 0 if none waiting": nothing that
\* was stashed is lost, doubled or reordered, at the wrap-around too.
ImplementsFifo == F!Spec

\* Whoever keeps asking gets every character: polling both devices ends and
\* something is returned.
CharsAreRead == (rpos # wpos) ~> (pc = "out" /\ c # 0)
=============================================================================
