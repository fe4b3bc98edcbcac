------------------------------ MODULE Strings -------------------------------
(***************************************************************************)
(* The functions of lib/string.c that read or copy strings and are not in  *)
(* MemMove: strlen(), strnlen(), strcpy(), strcat(), strncpy(), strcmp(),  *)
(* strncmp(), strchr(), strfind(), memcmp() and memfind(), one turn of the *)
(* loop per step.                                                          *)
(***************************************************************************)
EXTENDS Integers, Sequences, FiniteSetsExt

CONSTANTS
  SIZE,     \* bytes of memory
  Chars     \* bytes of strings, 0 among them

Addr == 1 .. SIZE
NULL == 0

VARIABLES
  call, a, b, n, c,   \* the function, its pointers, its size and its character
  before, mem,        \* memory at the call, and now
  p, q, left,         \* the pointers and the size as the loop moves them
  ret, pc

vars == <<call, a, b, n, c, before, mem, p, q, left, ret, pc>>

Scans    == {"strlen", "strnlen", "strcmp", "strncmp", "strchr", "strfind", "memcmp", "memfind"}
Copies   == {"strcpy", "strcat", "strncpy"}
Sized    == {"strnlen", "strncpy", "strncmp", "memcmp", "memfind"}
Compares == {"strcmp", "strncmp", "memcmp"}
Searches == {"strchr", "strfind", "memfind"}

-----------------------------------------------------------------------------
\* Mutant: a full count does not end the loop before the byte is looked at.
SizeLeft_One == call \in Sized => left > 1

SizeLeft == call \in Sized => left > 0

\* The loop of a function that reads goes on
Going ==
  /\ SizeLeft
  /\ call \notin {"memcmp", "memfind"} => mem[p] # 0
  /\ call \in Compares => mem[p] = mem[q]
  /\ call \in Searches => mem[p] # c

Advance ==
  /\ pc = "scan" /\ Going
  /\ p' = p + 1 /\ q' = q + 1 /\ left' = left - 1
  /\ UNCHANGED <<call, a, b, n, c, before, mem, ret, pc>>

\* What it returns then
Result ==
  CASE call \in {"strlen", "strnlen"}   -> p - a
    [] call = "strcmp"                  -> mem[p] - mem[q]
    [] call \in {"strncmp", "memcmp"}   -> IF left = 0 THEN 0 ELSE mem[p] - mem[q]
    [] call = "strchr"                  -> IF mem[p] = 0 THEN NULL ELSE p
    [] call \in {"strfind", "memfind"}  -> p

Return ==
  /\ pc = "scan" /\ ~Going
  /\ ret' = Result /\ pc' = "done"
  /\ UNCHANGED <<call, a, b, n, c, before, mem, p, q, left>>

\* strcat() first goes to the end of the destination.
ToEnd ==
  /\ pc = "end"
  /\ IF mem[p] # 0 THEN p' = p + 1 /\ UNCHANGED pc ELSE pc' = "copy" /\ UNCHANGED p
  /\ UNCHANGED <<call, a, b, n, c, before, mem, q, left, ret>>

CopyByte ==
  /\ pc = "copy" /\ SizeLeft
  /\ mem' = [mem EXCEPT ![p] = mem[q]]
  /\ p' = p + 1
  /\ \/ mem[q] # 0 /\ q' = q + 1 /\ UNCHANGED <<ret, pc>>
     \/ mem[q] = 0 /\ call \in Sized /\ UNCHANGED <<q, ret, pc>>
     \/ mem[q] = 0 /\ call \notin Sized /\ pc' = "done" /\ ret' = a /\ UNCHANGED q
  /\ left' = left - 1
  /\ UNCHANGED <<call, a, b, n, c, before>>

CopyDone ==
  /\ pc = "copy" /\ ~SizeLeft
  /\ pc' = "done" /\ ret' = a
  /\ UNCHANGED <<call, a, b, n, c, before, mem, p, q, left>>

-----------------------------------------------------------------------------
\* The string at x, without its end
Str(m, x) == LET k == Min({j \in 0 .. SIZE - x : m[x + j] = 0}) IN [j \in 1 .. k |-> m[x + j - 1]]
Ends(m, x) == 0 \in {m[j] : j \in x .. SIZE}

\* The first k bytes at x, and the string there cut after k bytes
Bytes(m, x, k) == [j \in 1 .. k |-> m[x + j - 1]]
Cut(s, k)      == SubSeq(s, 1, Min({k, Len(s)}))

\* Room that the copy takes from its start
Room ==
  CASE call = "strcpy"  -> Len(Str(before, b)) + 1
    [] call = "strcat"  -> Len(Str(before, a)) + Len(Str(before, b)) + 1
    [] call = "strncpy" -> n
    [] OTHER            -> 0

\* Calls: strings that end within memory, regions within it, and a copy whose
\* source does not meet its destination.
Init ==
  /\ call \in Scans \cup Copies
  /\ before \in [Addr -> Chars] /\ a \in Addr
  /\ b \in IF call \in Compares \cup Copies THEN Addr ELSE {a}
  /\ n \in IF call \in Sized THEN 0 .. SIZE + 1 - Max({a, b}) ELSE {0}
  /\ c \in IF call \in Searches THEN Chars \ {0} ELSE {0}
  /\ call \notin {"memcmp", "memfind"} => Ends(before, a) /\ Ends(before, b)
  /\ call \in Copies =>
       /\ a + Room <= SIZE + 1
       /\ a + Room <= b \/ b + Len(Str(before, b)) < a
  /\ mem = before /\ p = a /\ q = b /\ left = n /\ ret = 0
  /\ pc = IF call \in Scans THEN "scan" ELSE IF call = "strcat" THEN "end" ELSE "copy"

Next == Advance \/ Return \/ ToEnd \/ CopyByte \/ CopyDone

Spec == Init /\ [][Next]_vars

-----------------------------------------------------------------------------
\* The order of two strings of bytes: s is a proper prefix of t, or is smaller
\* where they first differ.
Less(s, t) ==
  \/ Len(s) < Len(t) /\ s = SubSeq(t, 1, Len(s))
  \/ \E k \in 1 .. Min({Len(s), Len(t)}) : s[k] < t[k] /\ \A j \in 1 .. k - 1 : s[j] = t[j]

Order(s, t) == (ret < 0 <=> Less(s, t)) /\ (ret > 0 <=> Less(t, s))

\* Index of the first c in s, behind its end if there is none
FirstIn(s) == a + Min({Len(s)} \cup {j - 1 : j \in {j \in 1 .. Len(s) : s[j] = c}})

\* What each function returns.
ReturnsRight ==
  LET s == Str(before, a)
      t == Str(before, b)
  IN  CASE call = "strlen"  -> ret = Len(s)
        [] call = "strnlen" -> ret = Min({Len(s), n})
        [] call = "strcmp"  -> Order(s, t)
        [] call = "strncmp" -> Order(Cut(s, n), Cut(t, n))
        [] call = "memcmp"  -> Order(Bytes(before, a, n), Bytes(before, b, n))
        [] call = "strchr"  -> ret = IF \E j \in 1 .. Len(s) : s[j] = c THEN FirstIn(s) ELSE NULL
        [] call = "strfind" -> ret = FirstIn(s)
        [] call = "memfind" -> ret = FirstIn(Bytes(before, a, n))
        [] OTHER            -> ret = a

\* What a copy leaves: strncpy() fills its size with zeros or does not end the
\* string at all, the others end it.
Copied ==
  LET t == Str(before, b)
      text == CASE call = "strcpy"  -> t \o <<0>>
                [] call = "strcat"  -> Str(before, a) \o t \o <<0>>
                [] call = "strncpy" -> [j \in 1 .. n |-> IF j <= Len(t) THEN t[j] ELSE 0]
                [] OTHER            -> <<>>
  IN  mem = [x \in Addr |-> IF x \in a .. a + Len(text) - 1 THEN text[x - a + 1] ELSE before[x]]

\* The string functions return what they are to and change exactly the bytes they
\* are to: a size that runs out stops them before the next byte, bytes compare as
\* unsigned ones, and a search tells an absent character from one at the end.
StringsRight == pc = "done" => ReturnsRight /\ Copied
=============================================================================
