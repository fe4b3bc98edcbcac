------------------------------ MODULE Snprintf ------------------------------
(***************************************************************************)
(* vsnprintf() and sprintputch() (lib/printfmt.c): what the characters     *)
(* that vprintfmt() prints (PrintFmt's out) leave in a buffer of n bytes.  *)
(***************************************************************************)
EXTENDS Integers, Sequences, SequencesExt

CONSTANTS
  Letters,    \* characters that are printed
  LENGTH,     \* most of them
  BUFFER      \* bytes from the buffer's start that the model looks at

VARIABLES
  text,       \* what is printed
  n,          \* the size that the caller gives
  null,       \* buf is NULL
  bytes,      \* the memory from the buffer's start on
  buf, ebuf, cnt,   \* struct sprintbuf, as offsets
  ret, pc

E_INVAL == 3

vars == <<text, n, null, bytes, buf, ebuf, cnt, ret, pc>>

Init ==
  /\ text \in BoundedSeq(Letters, LENGTH)
  /\ n \in -1 .. BUFFER - 1 /\ null \in BOOLEAN
  /\ bytes = [j \in 0 .. BUFFER - 1 |-> "old"]
  /\ buf = 0 /\ ebuf = n - 1 /\ cnt = 0
  /\ ret = 0 /\ pc = "call"

-----------------------------------------------------------------------------
Call ==
  /\ pc = "call"
  /\ \/ (null \/ n < 1) /\ pc' = "done" /\ ret' = -E_INVAL
     \/ ~null /\ n >= 1 /\ pc' = "print" /\ UNCHANGED ret
  /\ UNCHANGED <<text, n, null, bytes, buf, ebuf, cnt>>

\* Mutant: the last byte is not kept for the end of the string.
Full_Late == buf > ebuf

Full == buf >= ebuf

\* Printing goes on, and is counted, when the buffer is full.
sprintputch ==
  /\ pc = "print" /\ cnt < Len(text)
  /\ cnt' = cnt + 1
  /\ \/ Full /\ UNCHANGED <<bytes, buf>>
     \/ ~Full /\ bytes' = [bytes EXCEPT ![buf] = text[cnt + 1]] /\ buf' = buf + 1
  /\ UNCHANGED <<text, n, null, ebuf, ret, pc>>

End ==
  /\ pc = "print" /\ cnt = Len(text)
  /\ bytes' = [bytes EXCEPT ![buf] = "NUL"]
  /\ ret' = cnt /\ pc' = "done"
  /\ UNCHANGED <<text, n, null, buf, ebuf, cnt>>

Next == Call \/ sprintputch \/ End

Spec == Init /\ [][Next]_vars

-----------------------------------------------------------------------------
Least(x, y) == IF x < y THEN x ELSE y

\* The buffer holds as much of the text as fits, and the end of the string; no
\* byte behind it is written; and the result is the length of the whole text.
BufferRight ==
  pc = "done" =>
    LET k == Least(Len(text), n - 1)
    IN  IF null \/ n < 1 THEN ret = -E_INVAL /\ \A j \in DOMAIN bytes : bytes[j] = "old"
        ELSE /\ ret = Len(text)
             /\ bytes = [j \in DOMAIN bytes |->
                           IF j < k THEN text[j + 1] ELSE IF j = k THEN "NUL" ELSE "old"]
=============================================================================
