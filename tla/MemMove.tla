------------------------------ MODULE MemMove -------------------------------
(***************************************************************************)
(* memmove(), memset() and strlcpy() (lib/string.c), one element of the    *)
(* repeated string instruction, or one turn of the loop, per step.         *)
(* WORD is the size of what movsl and stosl move.                          *)
(***************************************************************************)
EXTENDS Integers, Sequences

CONSTANTS
  SIZE,     \* bytes of memory
  WORD,     \* 4 on the i386
  Chars     \* bytes of strings, 0 among them

\* What the constants must satisfy.
MemMoveAssumption == SIZE \in Nat /\ WORD \in Nat \ {0} /\ Chars \subseteq Nat

Addr == 0 .. SIZE - 1

VARIABLES
  op, dst, src, n,    \* the call; src is memset()'s byte
  before,             \* memory at the call
  mem,
  d, s, left,         \* destination, source and elements still to move
  unit, step,         \* the element's size, and the way to the next one
  pc

vars == <<op, dst, src, n, before, mem, d, s, left, unit, step, pc>>

-----------------------------------------------------------------------------
\* Mutant: the copy always goes upwards.
Backward_Never == FALSE

\* memmove()'s choice
Backward == src < dst /\ src + n > dst

Aligned(x) == x % WORD = 0 /\ n % WORD = 0

Memmove ==
  /\ pc = "call" /\ op = "memmove"
  /\ LET end == IF Backward THEN n ELSE 0
         u == IF Aligned(src + end) /\ Aligned(dst + end) THEN WORD ELSE 1
     IN  /\ unit' = u
         /\ left' = n \div u
         /\ step' = IF Backward THEN -u ELSE u
         /\ s' = IF Backward THEN src + n - u ELSE src
         /\ d' = IF Backward THEN dst + n - u ELSE dst
  /\ pc' = "rep"
  /\ UNCHANGED <<op, dst, src, n, before, mem>>

Memset ==
  /\ pc = "call" /\ op = "memset"
  /\ LET u == IF Aligned(dst) THEN WORD ELSE 1
     IN  unit' = u /\ left' = n \div u /\ step' = u
  /\ d' = dst
  /\ pc' = IF n = 0 THEN "done" ELSE "rep"
  /\ UNCHANGED <<op, dst, src, n, before, mem, s>>

\* movsb, movsl, stosb, stosl: one element
Rep ==
  /\ pc = "rep" /\ left > 0
  /\ mem' = [a \in Addr |->
               IF a \in d .. d + unit - 1
               THEN IF op = "memset" THEN src ELSE mem[s + a - d]
               ELSE mem[a]]
  /\ d' = d + step /\ s' = s + step /\ left' = left - 1
  /\ UNCHANGED <<op, dst, src, n, before, unit, step, pc>>

RepDone ==
  /\ pc = "rep" /\ left = 0
  /\ pc' = "done"
  /\ UNCHANGED <<op, dst, src, n, before, mem, d, s, left, unit, step>>

\* strlcpy(): left is the variable size.
Strlcpy ==
  /\ pc = "call" /\ op = "strlcpy"
  /\ d' = dst /\ s' = src /\ left' = n
  /\ pc' = IF n > 0 THEN "copy" ELSE "done"
  /\ UNCHANGED <<op, dst, src, n, before, mem, unit, step>>

\* while (--size > 0 && *src != '\0')
More == left - 1 > 0

CopyChar ==
  /\ pc = "copy" /\ More /\ mem[s] # 0
  /\ mem' = [mem EXCEPT ![d] = mem[s]]
  /\ d' = d + 1 /\ s' = s + 1 /\ left' = left - 1
  /\ UNCHANGED <<op, dst, src, n, before, unit, step, pc>>

Terminate ==
  /\ pc = "copy" /\ ~(More /\ mem[s] # 0)
  /\ mem' = [mem EXCEPT ![d] = 0]
  /\ pc' = "done"
  /\ UNCHANGED <<op, dst, src, n, before, d, s, left, unit, step>>

-----------------------------------------------------------------------------
\* The string at a is as long as k shows.
strlen(m, a) == CHOOSE k \in 0 .. SIZE : m[a + k] = 0 /\ \A j \in 0 .. k - 1 : m[a + j] # 0

\* Calls: regions within memory.  The bytes that memmove() moves all differ;
\* strlcpy() takes a string that ends within memory and does not meet the
\* destination.
Init ==
  /\ dst \in Addr /\ n \in 0 .. SIZE - dst
  /\ \/ /\ op = "memmove"
        /\ before = [a \in Addr |-> a + 1]
        /\ src \in 0 .. SIZE - n
     \/ /\ op = "memset"
        /\ before = [a \in Addr |-> a + 1]
        /\ src = 0
     \/ /\ op = "strlcpy"
        /\ before \in [Addr -> Chars]
        /\ src \in Addr
        /\ 0 \in {before[k] : k \in src .. SIZE - 1}
        /\ src + strlen(before, src) < dst \/ dst + n <= src
  /\ mem = before
  /\ d = 0 /\ s = 0 /\ left = 0 /\ unit = 1 /\ step = 1
  /\ pc = "call"

Next == Memmove \/ Memset \/ Rep \/ RepDone \/ Strlcpy \/ CopyChar \/ Terminate

Spec == Init /\ [][Next]_vars

-----------------------------------------------------------------------------
\* No byte outside the destination is ever written, also in the middle of an
\* operation that goes downwards or in words.
StaysInside == \A a \in Addr : mem[a] # before[a] => a \in dst .. dst + n - 1

\* memmove() copies what the source held at the call, however the two regions
\* overlap and whichever of the four instructions it uses; memset() fills all.
Moves ==
  pc = "done" /\ op \in {"memmove", "memset"} =>
    \A k \in 0 .. n - 1 : mem[dst + k] = IF op = "memset" THEN src ELSE before[src + k]

\* strlcpy() leaves a terminated string: the source's, or its first n - 1 bytes.
CopiesString ==
  pc = "done" /\ op = "strlcpy" /\ n > 0 =>
    LET full == strlen(before, src)
        k == IF full < n - 1 THEN full ELSE n - 1
    IN  /\ mem[dst + k] = 0
        /\ \A j \in 0 .. k - 1 : mem[dst + j] = before[src + j] /\ mem[dst + j] # 0

\* The three functions do what they promise to their destination and nothing to
\* the rest of memory.
RegionsRight == StaysInside /\ Moves /\ CopiesString
=============================================================================
