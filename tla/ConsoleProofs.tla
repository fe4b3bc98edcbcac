---------------------------- MODULE ConsoleProofs ---------------------------
(***************************************************************************)
(* Proofs about the console.  Cprintf: for a buffer of any size and lines  *)
(* of any length, what an environment prints arrives once, in order, and a *)
(* short line in one piece.  Console: for a buffer of any size, the ring   *)
(* with its two positions is a queue as long as fewer characters arrive    *)
(* than it has slots before they are read.  Keyboard: whatever keys are    *)
(* held and however late their codes are read, what kbd_proc_data()        *)
(* believes of them agrees with them.                                      *)
(***************************************************************************)
EXTENDS Console, Keyboard, Cprintf, TLAPS

-----------------------------------------------------------------------------
\* Appending to a sequence, as the devices and putch() do.
LEMMA Appended ==
  ASSUME NEW S, NEW s \in Seq(S), NEW x \in S
  PROVE  /\ Append(s, x) \in Seq(S)
         /\ Len(Append(s, x)) = Len(s) + 1
         /\ \A k \in 1 .. Len(s) : Append(s, x)[k] = s[k]
         /\ Append(s, x)[Len(s) + 1] = x
OBVIOUS

\* Taking the first element of a sequence, as the readers of the devices do.
LEMMA Taken ==
  ASSUME NEW S, NEW s \in Seq(S), s # << >>
  PROVE  /\ Tail(s) \in Seq(S)
         /\ Len(Tail(s)) = Len(s) - 1
         /\ \A k \in 1 .. Len(s) - 1 : Tail(s)[k] = s[k + 1]
OBVIOUS

\* Sequences with the same elements are the same.
LEMMA SameElements ==
  ASSUME NEW S, NEW s \in Seq(S), NEW t \in Seq(S), Len(s) = Len(t),
         \A k \in 1 .. Len(s) : s[k] = t[k]
  PROVE  s = t
OBVIOUS

\* The elements of a concatenation.
LEMMA Parts ==
  ASSUME NEW S, NEW s \in Seq(S), NEW t \in Seq(S), NEW u, u = s \o t
  PROVE  /\ u \in Seq(S) /\ Len(u) = Len(s) + Len(t)
         /\ \A i \in 1 .. Len(s) : u[i] = s[i]
         /\ \A i \in 1 .. Len(t) : u[Len(s) + i] = t[i]
         /\ \A i \in 1 .. Len(u) : i \in 1 .. Len(s) \/ i - Len(s) \in 1 .. Len(t)
OBVIOUS

-----------------------------------------------------------------------------
\* The characters of the output, and their fields.
OutChar     == [env : Envs, line : Nat, k : Nat]
EnvOf(x)    == x.env
LineOf(x)   == x.line
NumberOf(x) == x.k

\* The characters of the current line that are on the console already.
Shown(e) == len[e] - todo[e] - Len(print_buf[e])

\* An environment's progress: the buffer ends where putch() stands.
ProgressOf(e) ==
  /\ line[e] \in Nat /\ len[e] \in Nat /\ todo[e] \in Nat
  /\ todo[e] <= len[e] /\ Shown(e) >= 0
  /\ print_buf[e] \in Seq(OutChar)
  /\ Len(print_buf[e]) < BUFSIZE - 1
  /\ ~busy[e] => todo[e] = 0 /\ Len(print_buf[e]) = 0

\* The buffer holds the characters of the current line that follow the shown ones.
BufferOf(e) ==
  \A j \in 1 .. Len(print_buf[e]) :
    /\ EnvOf(print_buf[e][j]) = e
    /\ LineOf(print_buf[e][j]) = line[e]
    /\ NumberOf(print_buf[e][j]) = Shown(e) + j

\* What a console q shows of an environment is in order,
OrderOf(e, q) ==
  \A i, j \in 1 .. Len(q) :
    i < j /\ EnvOf(q[i]) = e /\ EnvOf(q[j]) = e =>
      \/ LineOf(q[i]) < LineOf(q[j])
      \/ LineOf(q[i]) = LineOf(q[j]) /\ NumberOf(q[i]) < NumberOf(q[j])

\* has no gap,
GaplessOf(e, q) ==
  \A j \in 1 .. Len(q) :
    EnvOf(q[j]) = e /\ NumberOf(q[j]) > 1 =>
      \E i \in 1 .. Len(q) :
        /\ i < j /\ EnvOf(q[i]) = e
        /\ LineOf(q[i]) = LineOf(q[j]) /\ NumberOf(q[i]) = NumberOf(q[j]) - 1

\* and ends with the character n of the line l.
EndOf(e, q, l, n) ==
  /\ \A j \in 1 .. Len(q) :
       EnvOf(q[j]) = e =>
         LineOf(q[j]) < l \/ (LineOf(q[j]) = l /\ NumberOf(q[j]) <= n)
  /\ n > 0 =>
       \E i \in 1 .. Len(q) : EnvOf(q[i]) = e /\ LineOf(q[i]) = l /\ NumberOf(q[i]) = n

\* A short line is not shown before all of it is,
LateOf(e) ==
  len[e] <= BUFSIZE - 1 =>
    /\ \/ \A i \in 1 .. Len(console) : EnvOf(console[i]) = e => LineOf(console[i]) # line[e]
       \/ todo[e] = 0 /\ Len(print_buf[e]) = 0
    /\ Shown(e) = 0 \/ Shown(e) = len[e]

\* and stands together.
TogetherOf(e) ==
  len[e] <= BUFSIZE - 1 =>
    \A i, j, k \in 1 .. Len(console) :
      i < j /\ i <= k /\ k <= j /\ EnvOf(console[i]) = e /\ EnvOf(console[j]) = e
        /\ LineOf(console[i]) = line[e] /\ LineOf(console[j]) = line[e] =>
          EnvOf(console[k]) = e

\* The invariant of one environment
OutOf(e) ==
  /\ ProgressOf(e) /\ BufferOf(e)
  /\ OrderOf(e, console) /\ GaplessOf(e, console) /\ EndOf(e, console, line[e], Shown(e))
  /\ LateOf(e) /\ TogetherOf(e)

\* The inductive invariant of the output: putch() and vcprintf() keep it.
OutInv ==
  /\ line \in [Envs -> Nat] /\ len \in [Envs -> Nat] /\ todo \in [Envs -> Nat]
  /\ busy \in [Envs -> BOOLEAN] /\ print_buf \in [Envs -> Seq(OutChar)]
  /\ console \in Seq(OutChar)
  /\ \A e \in Envs : OutOf(e)

\* It holds before anything is printed.
LEMMA OInit == CprintfAssumption /\ InitPrint => OutInv
<1> SUFFICES ASSUME CprintfAssumption, InitPrint PROVE OutInv
  BY Zenon
<1>1. << >> \in Seq(OutChar) /\ Len(<< >>) = 0
  OBVIOUS
<1> QED BY <1>1 
   DEF CprintfAssumption, InitPrint, OutInv, OutOf, ProgressOf, BufferOf, OrderOf, GaplessOf,
       EndOf, LateOf, TogetherOf, Shown

\* The fields of a character.
LEMMA CharFields ==
  ASSUME NEW x \in OutChar
  PROVE  EnvOf(x) \in Envs /\ LineOf(x) \in Nat /\ NumberOf(x) \in Nat
BY Zenon DEF OutChar, EnvOf, LineOf, NumberOf

\* The character that putch() is given.
LEMMA NewChar ==
  ASSUME NEW e \in Envs, NEW l \in Nat, NEW n \in Nat
  PROVE  /\ [env |-> e, line |-> l, k |-> n] \in OutChar
         /\ EnvOf([env |-> e, line |-> l, k |-> n]) = e
         /\ LineOf([env |-> e, line |-> l, k |-> n]) = l
         /\ NumberOf([env |-> e, line |-> l, k |-> n]) = n
BY Zenon DEF OutChar, EnvOf, LineOf, NumberOf

\* sys_cputs() of an environment's characters: b continues what is shown.
Continues(e, b, n) ==
  /\ b \in Seq(OutChar)
  /\ \A j \in 1 .. Len(b) : EnvOf(b[j]) = e /\ LineOf(b[j]) = line[e] /\ NumberOf(b[j]) = n + j

\* What the console shows once sys_cputs() has printed a buffer.
LEMMA Shows ==
  ASSUME OutInv, NEW e \in Envs, NEW b, NEW n, Continues(e, b, n), sys_cputs(b)
  PROVE  /\ console' \in Seq(OutChar) /\ Len(console') = Len(console) + Len(b)
         /\ \A i \in 1 .. Len(console) : console'[i] = console[i]
         /\ \A i \in 1 .. Len(b) : console'[Len(console) + i] = b[i]
         /\ \A i \in 1 .. Len(console') : i \in 1 .. Len(console) \/ i - Len(console) \in 1 .. Len(b)
<1>1. console \in Seq(OutChar) /\ b \in Seq(OutChar) /\ console' = console \o b
  BY Zenon DEF OutInv, Continues, sys_cputs
<1> QED BY <1>1, Parts

\* What the others show is not changed by it.
LEMMA PrintOther ==
  ASSUME OutInv, NEW e \in Envs, NEW d \in Envs, d # e, NEW b, Continues(e, b, Shown(e)),
         sys_cputs(b),
         line'[d] = line[d], len'[d] = len[d], todo'[d] = todo[d],
         print_buf'[d] = print_buf[d], busy'[d] = busy[d]
  PROVE  OutOf(d)'
<1>1. /\ console' \in Seq(OutChar) /\ Len(console') = Len(console) + Len(b)
      /\ \A i \in 1 .. Len(console) : console'[i] = console[i]
      /\ \A i \in 1 .. Len(b) : console'[Len(console) + i] = b[i]
      /\ \A i \in 1 .. Len(console') : i \in 1 .. Len(console) \/ i - Len(console) \in 1 .. Len(b)
  BY Shows, Zenon
<1>2. Len(console) \in Nat /\ Len(b) \in Nat /\ Len(console') \in Nat
  BY <1>1 DEF OutInv, Continues
<1>3. \A i \in 1 .. Len(console') : EnvOf(console'[i]) = d => i \in 1 .. Len(console)
  <2> SUFFICES ASSUME NEW i \in 1 .. Len(console'), i \notin 1 .. Len(console)
               PROVE  EnvOf(console'[i]) = e
    BY Zenon
  <2>0. i - Len(console) \in 1 .. Len(b)
    BY <1>1, Zenon
  <2>a. i = Len(console) + (i - Len(console))
    BY <1>2
  <2>1. PICK j \in 1 .. Len(b) : i = Len(console) + j
    BY <2>0, <2>a, Zenon
  <2> QED BY <1>1, <2>1, Zenon DEF Continues
<1>4. OutOf(d)
  BY Zenon DEF OutInv
<1>5. ProgressOf(d)' /\ BufferOf(d)' /\ Shown(d)' = Shown(d)
  BY <1>4, Zenon DEF OutOf, ProgressOf, BufferOf, Shown
<1>6. 1 .. Len(console) \subseteq 1 .. Len(console')
  BY <1>1, <1>2
<1>7. OrderOf(d, console)'
  <2> SUFFICES ASSUME NEW i \in 1 .. Len(console'), NEW j \in 1 .. Len(console'),
                      i < j, EnvOf(console'[i]) = d, EnvOf(console'[j]) = d
               PROVE  \/ LineOf(console'[i]) < LineOf(console'[j])
                      \/ /\ LineOf(console'[i]) = LineOf(console'[j])
                         /\ NumberOf(console'[i]) < NumberOf(console'[j])
    BY Zenon DEF OrderOf
  <2>1. i \in 1 .. Len(console) /\ j \in 1 .. Len(console)
    BY <1>3, Zenon
  <2> QED BY <1>1, <1>4, <2>1, Zenon DEF OutOf, OrderOf
<1>8. GaplessOf(d, console)'
  BY <1>1, <1>3, <1>4, <1>6, Zenon DEF OutOf, GaplessOf
<1>9. EndOf(d, console, line[d], Shown(d))'
  BY <1>1, <1>3, <1>4, <1>5, <1>6, Zenon DEF OutOf, EndOf
<1>10. LateOf(d)'
  BY <1>1, <1>3, <1>4, <1>5, Zenon DEF OutOf, LateOf
<1>11. TogetherOf(d)'
  <2> SUFFICES ASSUME len'[d] <= BUFSIZE - 1,
                      NEW i \in 1 .. Len(console'), NEW j \in 1 .. Len(console'),
                      NEW k \in 1 .. Len(console'),
                      i < j, i <= k, k <= j,
                      EnvOf(console'[i]) = d, EnvOf(console'[j]) = d,
                      LineOf(console'[i]) = line'[d], LineOf(console'[j]) = line'[d]
               PROVE  EnvOf(console'[k]) = d
    BY Zenon DEF TogetherOf
  <2>1. i \in 1 .. Len(console) /\ j \in 1 .. Len(console)
    BY <1>3, Zenon
  <2>2. k \in 1 .. Len(console)
    BY <1>2, <2>1
  <2> QED BY <1>1, <1>4, <2>1, <2>2, ZenonT(40) DEF OutOf, TogetherOf
<1> QED BY <1>5, <1>7, <1>8, <1>9, <1>10, <1>11, Zenon DEF OutOf

\* What the console shows after that
Joined(q, b) == q = console \o b

\* What it shows of its own environment stays in order and without a gap.
LEMMA PrintOwn ==
  ASSUME OutInv, NEW e \in Envs, NEW b, Continues(e, b, Shown(e)), NEW q, Joined(q, b)
  PROVE  OrderOf(e, q) /\ GaplessOf(e, q) /\ EndOf(e, q, line[e], Shown(e) + Len(b))
<1>1. /\ q \in Seq(OutChar) /\ Len(q) = Len(console) + Len(b)
      /\ \A i \in 1 .. Len(console) : q[i] = console[i]
      /\ \A i \in 1 .. Len(b) : q[Len(console) + i] = b[i]
      /\ \A i \in 1 .. Len(q) : i \in 1 .. Len(console) \/ i - Len(console) \in 1 .. Len(b)
  BY Parts DEF OutInv, Continues, Joined
<1>2. PICK m \in Nat, n \in Nat, s \in Nat : m = Len(console) /\ n = Len(b) /\ s = Shown(e)
  BY DEF OutInv, Continues, OutOf, ProgressOf, Shown
<1>3. ASSUME NEW j \in 1 .. m + n, j > m
      PROVE  EnvOf(q[j]) = e /\ LineOf(q[j]) = line[e] /\ NumberOf(q[j]) = s + (j - m)
  <2>1. PICK i \in 1 .. n : j = m + i /\ i = j - m
    BY <1>3
  <2> QED BY <1>1, <1>2, <2>1, Zenon DEF Continues
<1>4. OutOf(e) /\ line[e] \in Nat
  BY Zenon DEF OutInv
<1>5. \A j \in 1 .. m : /\ q[j] = console[j]
                        /\ LineOf(console[j]) \in Nat /\ NumberOf(console[j]) \in Nat
  <2> SUFFICES ASSUME NEW j \in 1 .. m
               PROVE  q[j] = console[j] /\ console[j] \in OutChar
    BY CharFields, Zenon
  <2> QED BY <1>1, <1>2 DEF OutInv
<1>6. \A j \in 1 .. m : EnvOf(console[j]) = e =>
        LineOf(console[j]) < line[e] \/ (LineOf(console[j]) = line[e] /\ NumberOf(console[j]) <= s)
  <2>1. \A j \in 1 .. Len(console) : EnvOf(console[j]) = e =>
          \/ LineOf(console[j]) < line[e]
          \/ LineOf(console[j]) = line[e] /\ NumberOf(console[j]) <= Shown(e)
    BY <1>4, Zenon DEF OutOf, EndOf
  <2> QED BY <1>2, <2>1, Zenon
<1>7. Len(q) = m + n
  BY <1>1, <1>2, Zenon
<1>8. OrderOf(e, q)
  <2> SUFFICES ASSUME NEW i \in 1 .. Len(q), NEW j \in 1 .. Len(q),
                      i < j, EnvOf(q[i]) = e, EnvOf(q[j]) = e
               PROVE  \/ LineOf(q[i]) < LineOf(q[j])
                      \/ /\ LineOf(q[i]) = LineOf(q[j])
                         /\ NumberOf(q[i]) < NumberOf(q[j])
    BY Zenon DEF OrderOf
  <2>1. CASE j <= m
    <3>1. i \in 1 .. m /\ j \in 1 .. m
      BY <1>7, <2>1
    <3> QED BY <1>2, <1>4, <1>5, <3>1, Zenon DEF OutOf, OrderOf
  <2>2. CASE j > m /\ i <= m
    <3>1. i \in 1 .. m /\ j \in 1 .. m + n
      BY <1>7, <2>2
    <3> QED BY <1>3, <1>4, <1>5, <1>6, <2>2, <3>1
  <2>3. CASE i > m
    <3>1. i \in 1 .. m + n /\ j \in 1 .. m + n /\ j > m
      BY <1>7, <2>3
    <3> QED BY <1>3, <2>3, <3>1
  <2> QED BY <1>7, <2>1, <2>2, <2>3
<1>9. ASSUME NEW t \in 1 .. s + n
      PROVE  s + 1 <= t => /\ m + (t - s) \in 1 .. Len(q)
                           /\ EnvOf(q[m + (t - s)]) = e
                           /\ LineOf(q[m + (t - s)]) = line[e]
                           /\ NumberOf(q[m + (t - s)]) = t
  <2> SUFFICES ASSUME s + 1 <= t
               PROVE  /\ m + (t - s) \in 1 .. Len(q)
                      /\ EnvOf(q[m + (t - s)]) = e
                      /\ LineOf(q[m + (t - s)]) = line[e]
                      /\ NumberOf(q[m + (t - s)]) = t
    BY Zenon
  <2>1. PICK j \in 1 .. m + n : j > m /\ j = m + (t - s) /\ s + (j - m) = t
    BY <1>9
  <2> QED BY <1>3, <1>7, <2>1, Zenon
<1>10. s > 0 => \E i \in 1 .. m : /\ EnvOf(console[i]) = e /\ LineOf(console[i]) = line[e]
                                  /\ NumberOf(console[i]) = s
  BY <1>2, <1>4, Zenon DEF OutOf, EndOf
<1>11. GaplessOf(e, q)
  <2> SUFFICES ASSUME NEW j \in 1 .. Len(q),
                      EnvOf(q[j]) = e, NumberOf(q[j]) > 1
               PROVE  \E i \in 1 .. Len(q) :
                        /\ i < j /\ EnvOf(q[i]) = e
                        /\ LineOf(q[i]) = LineOf(q[j])
                        /\ NumberOf(q[i]) = NumberOf(q[j]) - 1
    BY Zenon DEF GaplessOf
  <2>1. CASE j <= m
    <3>1. j \in 1 .. m
      BY <1>7, <2>1
    <3>2. PICK i \in 1 .. m : /\ i < j /\ EnvOf(console[i]) = e
                              /\ LineOf(console[i]) = LineOf(console[j])
                              /\ NumberOf(console[i]) = NumberOf(console[j]) - 1
      BY <1>2, <1>4, <1>5, <3>1, Zenon DEF OutOf, GaplessOf
    <3>3. i \in 1 .. Len(q)
      BY <1>7
    <3> QED BY <1>5, <3>1, <3>2, <3>3, Zenon
  <2>2. CASE j > m
    <3>1. /\ j \in 1 .. m + n
          /\ LineOf(q[j]) = line[e] /\ NumberOf(q[j]) = s + (j - m)
      BY <1>3, <1>7, <2>2, Zenon
    <3>2. CASE j = m + 1
      <4>1. PICK i \in 1 .. m : /\ EnvOf(console[i]) = e /\ LineOf(console[i]) = line[e]
                                /\ NumberOf(console[i]) = s
        BY <1>10, <3>1, <3>2
      <4>2. i \in 1 .. Len(q) /\ i < j
        BY <1>7, <3>2
      <4> QED BY <1>5, <3>1, <3>2, <4>1, <4>2
    <3>3. CASE j > m + 1
      <4>1. PICK i \in 1 .. m + n : i = j - 1 /\ i > m
        BY <3>1, <3>3
      <4>2. EnvOf(q[i]) = e /\ LineOf(q[i]) = line[e] /\ NumberOf(q[i]) = s + (i - m)
        BY <1>3, <4>1, Zenon
      <4>3. i \in 1 .. Len(q) /\ i < j /\ s + (i - m) = s + (j - m) - 1
        BY <1>7, <3>1, <4>1
      <4>4. NumberOf(q[i]) = NumberOf(q[j]) - 1 /\ LineOf(q[i]) = LineOf(q[j])
        BY <3>1, <4>2, <4>3
      <4> QED BY <4>2, <4>3, <4>4, Zenon
    <3> QED BY <2>2, <3>2, <3>3
  <2> QED BY <1>7, <2>1, <2>2
<1>12. EndOf(e, q, line[e], Shown(e) + Len(b))
  <2>1. ASSUME NEW j \in 1 .. Len(q), EnvOf(q[j]) = e
        PROVE  \/ LineOf(q[j]) < line[e]
               \/ LineOf(q[j]) = line[e] /\ NumberOf(q[j]) <= s + n
    <3>1. CASE j <= m
      <4>1. j \in 1 .. m
        BY <1>7, <3>1
      <4> QED BY <1>5, <1>6, <2>1, <4>1
    <3>2. CASE j > m
      BY <1>3, <1>7, <3>2
    <3> QED BY <1>7, <3>1, <3>2
  <2>2. ASSUME s + n > 0
        PROVE  \E i \in 1 .. Len(q) :
                 EnvOf(q[i]) = e /\ LineOf(q[i]) = line[e] /\ NumberOf(q[i]) = s + n
    <3>1. CASE n > 0
      <4>1. m + n \in 1 .. m + n /\ m + n > m /\ s + ((m + n) - m) = s + n
        BY <3>1
      <4>2. /\ EnvOf(q[m + n]) = e /\ LineOf(q[m + n]) = line[e]
            /\ NumberOf(q[m + n]) = s + n
        BY <1>3, <4>1, Zenon
      <4> QED BY <1>7, <4>1, <4>2, Zenon
    <3>2. CASE n = 0
      <4>1. PICK i \in 1 .. m : /\ EnvOf(console[i]) = e /\ LineOf(console[i]) = line[e]
                                /\ NumberOf(console[i]) = s
        BY <1>10, <2>2, <3>2
      <4>2. i \in 1 .. Len(q) /\ q[i] = console[i] /\ s + n = s
        BY <1>5, <1>7, <3>2
      <4> QED BY <4>1, <4>2, Zenon
    <3> QED BY <3>1, <3>2
  <2>3. Shown(e) + Len(b) = s + n
    BY <1>2, Zenon
  <2> QED BY <2>1, <2>2, <2>3, Zenon DEF EndOf
<1> QED BY <1>8, <1>11, <1>12, Zenon

\* A line that none of is shown yet is put on the console in one piece.
LEMMA PrintTogether ==
  ASSUME OutInv, NEW e \in Envs, NEW b, Continues(e, b, Shown(e)), sys_cputs(b),
         line'[e] = line[e], len'[e] = len[e],
         \/ Len(b) = 0
         \/ len[e] <= BUFSIZE - 1 =>
              \A i \in 1 .. Len(console) : EnvOf(console[i]) = e => LineOf(console[i]) # line[e]
  PROVE  TogetherOf(e)'
<1>1. /\ console' \in Seq(OutChar) /\ Len(console') = Len(console) + Len(b)
      /\ \A i \in 1 .. Len(console) : console'[i] = console[i]
      /\ \A i \in 1 .. Len(b) : console'[Len(console) + i] = b[i]
      /\ \A i \in 1 .. Len(console') : i \in 1 .. Len(console) \/ i - Len(console) \in 1 .. Len(b)
  BY Shows, Zenon
<1>2. Len(console) \in Nat /\ Len(b) \in Nat /\ Len(console') \in Nat
  BY <1>1 DEF OutInv, Continues
<1> SUFFICES ASSUME len'[e] <= BUFSIZE - 1,
                    NEW i \in 1 .. Len(console'), NEW j \in 1 .. Len(console'),
                    NEW k \in 1 .. Len(console'),
                    i < j, i <= k, k <= j,
                    EnvOf(console'[i]) = e, EnvOf(console'[j]) = e,
                    LineOf(console'[i]) = line'[e], LineOf(console'[j]) = line'[e]
             PROVE  EnvOf(console'[k]) = e
  BY Zenon DEF TogetherOf
<1>3. CASE j \in 1 .. Len(console)
  <2>1. i \in 1 .. Len(console) /\ k \in 1 .. Len(console)
    BY <1>2, <1>3
  <2>2. TogetherOf(e)
    BY Zenon DEF OutInv, OutOf
  <2>3. console'[i] = console[i] /\ console'[j] = console[j] /\ console'[k] = console[k]
    BY <1>1, <1>3, <2>1, Zenon
  <2>4. EnvOf(console[k]) = e
    BY <1>3, <2>1, <2>2, <2>3, Zenon DEF TogetherOf
  <2> QED BY <2>3, <2>4, Zenon
<1>4. CASE j \notin 1 .. Len(console)
  <2>1. j - Len(console) \in 1 .. Len(b)
    BY <1>1, <1>4, Zenon
  <2>2. Len(b) # 0
    BY <1>2, <2>1
  <2>3. \A l \in 1 .. Len(console) : EnvOf(console[l]) = e => LineOf(console[l]) # line[e]
    BY <2>2, Zenon
  <2>4. i \notin 1 .. Len(console)
    BY <1>1, <2>3, Zenon
  <2>5. k \notin 1 .. Len(console)
    BY <1>2, <2>4
  <2>6. k - Len(console) \in 1 .. Len(b)
    BY <1>1, <2>5, Zenon
  <2>7. PICK l \in 1 .. Len(b) : l = k - Len(console)
    BY <2>6, Zenon
  <2>8. k = Len(console) + l
    BY <1>2, <2>7
  <2> QED BY <1>1, <2>8, Zenon DEF Continues
<1> QED BY <1>3, <1>4, Zenon

\* An environment that a step does not touch keeps its part of the invariant.
LEMMA OutKept ==
  ASSUME NEW d, OutOf(d), console' = console, line'[d] = line[d], len'[d] = len[d],
         todo'[d] = todo[d], print_buf'[d] = print_buf[d], busy'[d] = busy[d]
  PROVE  OutOf(d)'
<1>1. Shown(d)' = Shown(d)
  BY Zenon DEF Shown
<1>2. ProgressOf(d)' /\ BufferOf(d)'
  BY <1>1, Zenon DEF OutOf, ProgressOf, BufferOf
<1>3. OrderOf(d, console)' /\ GaplessOf(d, console)' /\ EndOf(d, console, line[d], Shown(d))'
  BY <1>1, Zenon DEF OutOf, OrderOf, GaplessOf, EndOf
<1>4. LateOf(d)' /\ TogetherOf(d)'
  BY <1>1 DEF OutOf, LateOf, TogetherOf
<1> QED BY <1>2, <1>3, <1>4, Zenon DEF OutOf

\* vcprintf() starts a line of which nothing is shown.
LEMMA VcprintfInv ==
  ASSUME CprintfAssumption, OutInv, NEW e \in Envs, NEW n \in Lengths, Vcprintf(e, n)
  PROVE  OutInv'
<1>1. n \in Nat /\ BUFSIZE \in Nat /\ BUFSIZE > 1
  BY DEF CprintfAssumption
<1>2. << >> \in Seq(OutChar) /\ Len(<< >>) = 0
  OBVIOUS
<1>3. /\ line' \in [Envs -> Nat] /\ len' \in [Envs -> Nat] /\ todo' \in [Envs -> Nat]
      /\ busy' \in [Envs -> BOOLEAN] /\ print_buf' \in [Envs -> Seq(OutChar)] /\ console' = console
  BY <1>1, <1>2 DEF OutInv, Vcprintf
<1>4. /\ line'[e] = line[e] + 1 /\ len'[e] = n /\ todo'[e] = n /\ Len(print_buf'[e]) = 0 /\ busy'[e]
      /\ print_buf'[e] = << >>
  BY <1>2, Zenon DEF OutInv, Vcprintf
<1>5. ASSUME NEW d \in Envs, d # e PROVE OutOf(d)'
  BY <1>5, OutKept, <1>3, Zenon DEF OutInv, Vcprintf
<1>6. OutOf(e) /\ Len(print_buf[e]) = 0 /\ line[e] \in Nat
  BY Zenon DEF OutInv, OutOf, ProgressOf, Vcprintf
<1>7. Shown(e)' = 0
  BY <1>1, <1>4 DEF Shown
<1>8. \A i \in 1 .. Len(console) : EnvOf(console[i]) = e =>
        LineOf(console[i]) \in Nat /\ LineOf(console[i]) <= line[e]
  <2> SUFFICES ASSUME NEW i \in 1 .. Len(console), EnvOf(console[i]) = e
               PROVE  LineOf(console[i]) \in Nat /\ LineOf(console[i]) <= line[e]
    BY Zenon
  <2>1. console[i] \in OutChar
    BY DEF OutInv
  <2>2. LineOf(console[i]) \in Nat
    BY <2>1, CharFields, Zenon
  <2>3. LineOf(console[i]) < line[e] \/ LineOf(console[i]) = line[e]
    BY <1>6, Zenon DEF OutOf, EndOf
  <2> QED BY <1>6, <2>2, <2>3
<1>9. \A i \in 1 .. Len(console) : EnvOf(console[i]) = e =>
        LineOf(console[i]) < line[e] + 1 /\ LineOf(console[i]) # line[e] + 1
  BY <1>6, <1>8
<1>10. ProgressOf(e)' /\ BufferOf(e)'
  BY <1>1, <1>2, <1>3, <1>4, <1>7 DEF ProgressOf, BufferOf
<1>11. OrderOf(e, console)' /\ GaplessOf(e, console)'
  BY <1>3, <1>6 DEF OutOf, OrderOf, GaplessOf
<1>12. EndOf(e, console, line[e], Shown(e))'
  BY <1>3, <1>4, <1>7, <1>9 DEF EndOf
<1>13. LateOf(e)'
  BY <1>3, <1>4, <1>7, <1>9, Zenon DEF LateOf
<1>14. TogetherOf(e)'
  <2>1. \A i \in 1 .. Len(console') : EnvOf(console'[i]) = e => LineOf(console'[i]) # line'[e]
    BY <1>3, <1>4, <1>9, Zenon
  <2> QED BY <2>1, Zenon DEF TogetherOf
<1>15. OutOf(e)'
  BY <1>10, <1>11, <1>12, <1>13, <1>14, Zenon DEF OutOf
<1>16. console' \in Seq(OutChar)
  BY <1>3, Zenon DEF OutInv
<1> QED BY <1>3, <1>5, <1>15, <1>16, Zenon DEF OutInv

\* The character that putch() adds continues the buffer.
LEMMA Collected ==
  ASSUME OutInv, NEW e \in Envs, busy[e], todo[e] > 0, NEW x, NEW b,
         x = [env |-> e, line |-> line[e], k |-> len[e] - todo[e] + 1],
         b = Append(print_buf[e], x)
  PROVE  Continues(e, b, Shown(e)) /\ Len(b) = Len(print_buf[e]) + 1
<1>1. /\ line[e] \in Nat /\ len[e] \in Nat /\ todo[e] \in Nat /\ todo[e] <= len[e]
      /\ print_buf[e] \in Seq(OutChar) /\ Len(print_buf[e]) \in Nat
      /\ len[e] - todo[e] + 1 \in Nat /\ len[e] - todo[e] + 1 = Shown(e) + (Len(print_buf[e]) + 1)
  BY DEF OutInv, OutOf, ProgressOf, Shown
<1>2. x \in OutChar /\ EnvOf(x) = e /\ LineOf(x) = line[e] /\ NumberOf(x) = len[e] - todo[e] + 1
  BY <1>1, NewChar
<1>3. PICK m \in Nat : m = Len(print_buf[e])
  BY <1>1, Zenon
<1>4. /\ b \in Seq(OutChar) /\ Len(b) = m + 1 /\ b[m + 1] = x
      /\ \A j \in 1 .. m : b[j] = print_buf[e][j]
  BY <1>1, <1>2, <1>3, Appended
<1>5. ASSUME NEW j \in 1 .. Len(b)
      PROVE  EnvOf(b[j]) = e /\ LineOf(b[j]) = line[e] /\ NumberOf(b[j]) = Shown(e) + j
  <2>1. CASE j = m + 1
    BY <1>1, <1>2, <1>3, <1>4, <2>1, Zenon
  <2>2. CASE j \in 1 .. m
    <3>1. BufferOf(e) /\ j \in 1 .. Len(print_buf[e]) /\ b[j] = print_buf[e][j]
      BY <1>3, <1>4, <2>2, Zenon DEF OutInv, OutOf
    <3> QED BY <3>1, Zenon DEF BufferOf
  <2> QED BY <1>4, <2>1, <2>2
<1> QED BY <1>3, <1>4, <1>5, Zenon DEF Continues

\* putch() adds a character, and prints the buffer when it is full.
LEMMA PutchInv ==
  ASSUME CprintfAssumption, OutInv, NEW e \in Envs, Putch(e)
  PROVE  OutInv'
<1>1. PICK x, b : /\ x = [env |-> e, line |-> line[e], k |-> len[e] - todo[e] + 1]
                  /\ b = Append(print_buf[e], x)
  BY Zenon
<1>2. Continues(e, b, Shown(e)) /\ Len(b) = Len(print_buf[e]) + 1
  BY <1>1, Collected, Zenon DEF Putch
<1>3. BUFSIZE \in Nat /\ BUFSIZE > 1
  BY DEF CprintfAssumption
<1>4. /\ line' = line /\ len' = len /\ busy' = busy
      /\ todo' \in [Envs -> Nat] /\ todo'[e] = todo[e] - 1 /\ todo[e] > 0 /\ busy[e]
      /\ \A d \in Envs : d # e => todo'[d] = todo[d]
  BY DEF OutInv, Putch
<1>5. \/ /\ Full(b) /\ sys_cputs(b) /\ print_buf' = [print_buf EXCEPT ![e] = << >>]
      \/ /\ ~Full(b) /\ console' = console /\ print_buf' = [print_buf EXCEPT ![e] = b]
  BY <1>1, Zenon DEF Putch, Flushed
<1>6. /\ OutOf(e) /\ line[e] \in Nat /\ len[e] \in Nat /\ todo[e] \in Nat /\ todo[e] <= len[e]
      /\ Len(print_buf[e]) \in Nat /\ Len(print_buf[e]) < BUFSIZE - 1
      /\ Shown(e) = len[e] - todo[e] - Len(print_buf[e]) /\ Shown(e) >= 0
  BY DEF OutInv, OutOf, ProgressOf, Shown
<1>7. len[e] <= BUFSIZE - 1 =>
        /\ \A i \in 1 .. Len(console) : EnvOf(console[i]) = e => LineOf(console[i]) # line[e]
        /\ Shown(e) = 0
  <2>1. LateOf(e)
    BY <1>6, Zenon DEF OutOf
  <2>2. todo[e] # 0 /\ Shown(e) # len[e]
    BY <1>4, <1>6
  <2> QED BY <2>1, <2>2, Zenon DEF LateOf
<1>8. CASE /\ Full(b) /\ sys_cputs(b) /\ print_buf' = [print_buf EXCEPT ![e] = << >>]
  <2>1. << >> \in Seq(OutChar) /\ Len(<< >>) = 0
    OBVIOUS
  <2>2. /\ print_buf' \in [Envs -> Seq(OutChar)] /\ print_buf'[e] = << >> /\ Len(print_buf'[e]) = 0
        /\ \A d \in Envs : d # e => print_buf'[d] = print_buf[d]
    BY <1>8, <2>1, Zenon DEF OutInv
  <2>3. Len(b) = BUFSIZE - 1
    BY <1>8, Zenon DEF Full
  <2>4. Shown(e)' = Shown(e) + Len(b)
    <3>1. Shown(e)' = len[e] - (todo[e] - 1) - 0
      BY <1>4, <2>2, Zenon DEF Shown
    <3> QED BY <1>2, <1>6, <3>1
  <2>5. OrderOf(e, console)' /\ GaplessOf(e, console)' /\ EndOf(e, console, line[e], Shown(e))'
    <3>1. Joined(console', b)
      BY <1>8, Zenon DEF sys_cputs, Joined
    <3> QED BY <1>2, <1>4, <2>4, <3>1, PrintOwn, Zenon
  <2>6. TogetherOf(e)'
    BY <1>2, <1>4, <1>7, <1>8, PrintTogether, Zenon
  <2>7. ProgressOf(e)' /\ BufferOf(e)'
    <3>1. Shown(e)' >= 0
      BY <1>2, <1>6, <2>4
    <3>2. todo'[e] \in Nat /\ todo'[e] <= len[e] /\ 0 < BUFSIZE - 1
      BY <1>3, <1>4, <1>6
    <3>3. \A j \in 1 .. Len(print_buf'[e]) : FALSE
      BY <2>2
    <3>4. ProgressOf(e)'
      BY <1>4, <1>6, <2>1, <2>2, <3>1, <3>2, Zenon DEF ProgressOf
    <3> QED BY <3>3, <3>4, Zenon DEF BufferOf
  <2>8. LateOf(e)'
    <3> SUFFICES ASSUME len[e] <= BUFSIZE - 1
                 PROVE  todo'[e] = 0 /\ Shown(e)' = len[e]
      BY <1>4, <2>2, Zenon DEF LateOf
    <3>1. Shown(e) = 0
      BY <1>7, Zenon
    <3>2. Len(print_buf[e]) = BUFSIZE - 2
      BY <1>2, <1>3, <1>6, <2>3
    <3> QED BY <1>2, <1>3, <1>4, <1>6, <2>4, <3>1, <3>2
  <2>9. OutOf(e)'
    BY <2>5, <2>6, <2>7, <2>8, Zenon DEF OutOf
  <2>10. ASSUME NEW d \in Envs, d # e PROVE OutOf(d)'
    BY <1>2, <1>4, <1>8, <2>2, <2>10, PrintOther, Zenon
  <2>11. console' \in Seq(OutChar)
    BY <1>2, <1>8, Parts, Zenon DEF OutInv, Continues, sys_cputs
  <2> QED BY <1>4, <2>2, <2>9, <2>10, <2>11, Zenon DEF OutInv
<1>9. CASE /\ ~Full(b) /\ console' = console /\ print_buf' = [print_buf EXCEPT ![e] = b]
  <2>1. b \in Seq(OutChar)
    BY <1>2, Zenon DEF Continues
  <2>2. /\ print_buf' \in [Envs -> Seq(OutChar)] /\ print_buf'[e] = b
        /\ \A d \in Envs : d # e => print_buf'[d] = print_buf[d]
    BY <1>9, <2>1, Zenon DEF OutInv
  <2>3. Len(b) # BUFSIZE - 1
    BY <1>9, Zenon DEF Full
  <2>4. Shown(e)' = Shown(e)
    <3>1. Len(print_buf'[e]) = Len(print_buf[e]) + 1
      BY <1>2, <2>2, Zenon
    <3>2. Shown(e)' = len[e] - (todo[e] - 1) - (Len(print_buf[e]) + 1)
      BY <1>4, <3>1, Zenon DEF Shown
    <3> QED BY <1>6, <3>2
  <2>5. OrderOf(e, console)' /\ GaplessOf(e, console)'
    BY <1>6, <1>9 DEF OutOf, OrderOf, GaplessOf
  <2>6. EndOf(e, console, line[e], Shown(e))' /\ TogetherOf(e)'
    <3>1. EndOf(e, console, line[e], Shown(e)) /\ TogetherOf(e)
      BY <1>6, Zenon DEF OutOf
    <3>2. EndOf(e, console, line[e], Shown(e))'
      BY <1>4, <1>9, <2>4, <3>1, Zenon DEF EndOf
    <3>3. console' = console /\ line'[e] = line[e] /\ len'[e] = len[e]
      BY <1>4, <1>9, Zenon
    <3>4. TogetherOf(e)'
      BY <3>1, <3>3 DEF TogetherOf
    <3> QED BY <3>2, <3>4, Zenon
  <2>7. ProgressOf(e)'
    <3>1. Len(print_buf'[e]) = Len(print_buf[e]) + 1 /\ print_buf'[e] \in Seq(OutChar)
      BY <1>2, <2>1, <2>2, Zenon
    <3>2. Len(print_buf[e]) + 1 < BUFSIZE - 1
      BY <1>2, <1>3, <1>6, <2>3
    <3> QED BY <1>4, <1>6, <2>4, <3>1, <3>2 DEF ProgressOf
  <2>8. BufferOf(e)'
    BY <1>2, <1>4, <2>2, <2>4, Zenon DEF BufferOf, Continues
  <2>9. LateOf(e)'
    BY <1>4, <1>7, <1>9, <2>4, Zenon DEF LateOf
  <2>10. OutOf(e)'
    BY <2>5, <2>6, <2>7, <2>8, <2>9, Zenon DEF OutOf
  <2>11. ASSUME NEW d \in Envs, d # e PROVE OutOf(d)'
    BY <1>4, <1>9, <2>2, <2>11, OutKept, Zenon DEF OutInv
  <2>12. console' \in Seq(OutChar)
    BY <1>9, Zenon DEF OutInv
  <2> QED BY <1>4, <2>2, <2>10, <2>11, <2>12, Zenon DEF OutInv
<1> QED BY <1>5, <1>8, <1>9, Zenon

\* vcprintf() prints what is left in the buffer and returns.
LEMMA ReturnInv ==
  ASSUME CprintfAssumption, OutInv, NEW e \in Envs, Return(e)
  PROVE  OutInv'
<1>1. BUFSIZE \in Nat /\ BUFSIZE > 1
  BY DEF CprintfAssumption
<1>2. << >> \in Seq(OutChar) /\ Len(<< >>) = 0
  OBVIOUS
<1>3. /\ line' = line /\ len' = len /\ todo' = todo /\ sys_cputs(print_buf[e]) /\ todo[e] = 0
      /\ print_buf' = [print_buf EXCEPT ![e] = << >>] /\ busy' = [busy EXCEPT ![e] = FALSE]
  BY Zenon DEF Return
<1>4. /\ print_buf' \in [Envs -> Seq(OutChar)] /\ print_buf'[e] = << >> /\ Len(print_buf'[e]) = 0
      /\ \A d \in Envs : d # e => print_buf'[d] = print_buf[d]
  BY <1>2, <1>3, Zenon DEF OutInv
<1>5. busy' \in [Envs -> BOOLEAN] /\ \A d \in Envs : d # e => busy'[d] = busy[d]
  BY <1>3, Zenon DEF OutInv
<1>6. /\ OutOf(e) /\ line[e] \in Nat /\ len[e] \in Nat
      /\ Len(print_buf[e]) \in Nat /\ print_buf[e] \in Seq(OutChar)
      /\ Shown(e) = len[e] - todo[e] - Len(print_buf[e])
  BY DEF OutInv, OutOf, ProgressOf, Shown
<1>7. Continues(e, print_buf[e], Shown(e))
  BY <1>6, Zenon DEF Continues, OutOf, BufferOf
<1>8. Shown(e)' = Shown(e) + Len(print_buf[e]) /\ Shown(e)' = len[e]
  BY <1>3, <1>4, <1>6 DEF Shown
<1>9. OrderOf(e, console)' /\ GaplessOf(e, console)' /\ EndOf(e, console, line[e], Shown(e))'
  <2>1. Joined(console', print_buf[e])
    BY <1>3, Zenon DEF sys_cputs, Joined
  <2> QED BY <1>3, <1>7, <1>8, <2>1, PrintOwn, Zenon
<1>10. TogetherOf(e)'
  <2>1. \/ Len(print_buf[e]) = 0
        \/ len[e] <= BUFSIZE - 1 =>
             \A i \in 1 .. Len(console) : EnvOf(console[i]) = e => LineOf(console[i]) # line[e]
    BY <1>6, Zenon DEF OutOf, LateOf
  <2> QED BY <1>3, <1>7, <2>1, PrintTogether, Zenon
<1>11. ProgressOf(e)' /\ BufferOf(e)' /\ LateOf(e)'
  BY <1>1, <1>2, <1>3, <1>4, <1>6, <1>8 DEF ProgressOf, BufferOf, LateOf
<1>12. OutOf(e)'
  BY <1>9, <1>10, <1>11, Zenon DEF OutOf
<1>13. ASSUME NEW d \in Envs, d # e PROVE OutOf(d)'
  BY <1>3, <1>4, <1>5, <1>7, <1>13, PrintOther, Zenon
<1>14. console' \in Seq(OutChar)
  BY <1>3, <1>6, Parts, Zenon DEF OutInv, sys_cputs
<1>15. /\ line' \in [Envs -> Nat] /\ len' \in [Envs -> Nat] /\ todo' \in [Envs -> Nat]
  BY <1>3, Zenon DEF OutInv
<1> QED BY <1>4, <1>5, <1>12, <1>13, <1>14, <1>15, Zenon DEF OutInv

\* Every step keeps the invariant.
LEMMA ONext ==
  ASSUME CprintfAssumption, OutInv, [NextPrint]_varsPrint
  PROVE  OutInv'
<1>1. CASE UNCHANGED varsPrint
  <2>1. ASSUME NEW d \in Envs PROVE OutOf(d)'
    BY <1>1, OutKept, Zenon DEF OutInv, varsPrint
  <2> QED BY <1>1, <2>1, Zenon DEF OutInv, varsPrint
<1> QED BY <1>1, VcprintfInv, PutchInv, ReturnInv, Zenon DEF NextPrint

\* With the characters of the buffer, the output of an environment is in order and
\* without a gap, and ends with the last character that putch() was given.
LEMMA OutputInOrder ==
  ASSUME OutInv, NEW e \in Envs, NEW s, Joined(s, print_buf[e])
  PROVE  /\ OrderOf(e, s) /\ GaplessOf(e, s) /\ EndOf(e, s, line[e], len[e] - todo[e])
         /\ s \in Seq(OutChar)
<1>1. OutOf(e) /\ print_buf[e] \in Seq(OutChar)
  BY Zenon DEF OutInv
<1>2. Continues(e, print_buf[e], Shown(e))
  BY <1>1, Zenon DEF Continues, OutOf, BufferOf
<1>3. Shown(e) + Len(print_buf[e]) = len[e] - todo[e]
  BY <1>1 DEF OutOf, ProgressOf, Shown
<1>4. s \in Seq(OutChar)
  BY <1>1, Parts, Zenon DEF OutInv, Joined
<1> QED BY <1>2, <1>3, <1>4, PrintOwn, Zenon

\* The last character of an output in order
LEMMA LastOfOutput ==
  ASSUME NEW e, NEW s \in Seq(OutChar), NEW l \in Nat, NEW n \in Nat, n > 0,
         OrderOf(e, s), EndOf(e, s, l, n)
  PROVE  \E j \in 1 .. Len(s) : /\ EnvOf(s[j]) = e /\ LineOf(s[j]) = l /\ NumberOf(s[j]) = n
                                /\ \A i \in 1 .. Len(s) : EnvOf(s[i]) = e => i <= j
<1>1. PICK j \in 1 .. Len(s) : EnvOf(s[j]) = e /\ LineOf(s[j]) = l /\ NumberOf(s[j]) = n
  BY Zenon DEF EndOf
<1>2. ASSUME NEW i \in 1 .. Len(s), EnvOf(s[i]) = e, ~(i <= j) PROVE FALSE
  <2>1. Len(s) \in Nat /\ j < i
    BY <1>2
  <2>2. \/ l < LineOf(s[i])
        \/ l = LineOf(s[i]) /\ n < NumberOf(s[i])
    BY <1>1, <1>2, <2>1, Zenon DEF OrderOf
  <2>3. LineOf(s[i]) < l \/ (LineOf(s[i]) = l /\ NumberOf(s[i]) <= n)
    BY <1>2, Zenon DEF EndOf
  <2>4. LineOf(s[i]) \in Nat /\ NumberOf(s[i]) \in Nat
    <3>1. s[i] \in OutChar
      OBVIOUS
    <3> QED BY <3>1, CharFields, Zenon
  <2> QED BY <2>2, <2>3, <2>4
<1> QED BY <1>1, <1>2, Zenon

\* What NothingLost says of an environment's output s and the places of its characters
LostNothing(e, s, own) ==
  /\ \A i, j \in own : i < j => Before(s[i], s[j])
  /\ \A j \in own : s[j].k > 1 =>
       \E i \in own : i < j /\ s[i].line = s[j].line /\ s[i].k = s[j].k - 1
  /\ busy[e] /\ todo[e] < len[e] =>
       \E j \in own : /\ s[j].line = line[e] /\ s[j].k = len[e] - todo[e]
                      /\ \A i \in own : i <= j

\* The invariant implies that nothing is lost
LEMMA NothingIsLost ==
  ASSUME OutInv, NEW e \in Envs, NEW s, NEW own,
         Joined(s, print_buf[e]), own = {j \in DOMAIN s : s[j].env = e}
  PROVE  LostNothing(e, s, own)
<1>1. /\ OrderOf(e, s) /\ GaplessOf(e, s) /\ EndOf(e, s, line[e], len[e] - todo[e])
      /\ s \in Seq(OutChar)
  BY OutputInOrder, Zenon
<1>2. DOMAIN s = 1 .. Len(s)
  BY <1>1
<1>3. \A i : i \in own <=> i \in 1 .. Len(s) /\ EnvOf(s[i]) = e
  BY <1>2, Zenon DEF EnvOf
<1>4. ASSUME NEW i \in own, NEW j \in own, i < j PROVE Before(s[i], s[j])
  <2>1. \/ LineOf(s[i]) < LineOf(s[j])
        \/ LineOf(s[i]) = LineOf(s[j]) /\ NumberOf(s[i]) < NumberOf(s[j])
    BY <1>1, <1>3, <1>4, Zenon DEF OrderOf
  <2> QED BY <2>1, Zenon DEF Before, LineOf, NumberOf
<1>5. ASSUME NEW j \in own, s[j].k > 1
      PROVE  \E i \in own : i < j /\ s[i].line = s[j].line /\ s[i].k = s[j].k - 1
  <2>1. NumberOf(s[j]) > 1
    BY <1>5, Zenon DEF NumberOf
  <2>2. PICK i \in 1 .. Len(s) : /\ i < j /\ EnvOf(s[i]) = e /\ LineOf(s[i]) = LineOf(s[j])
                                 /\ NumberOf(s[i]) = NumberOf(s[j]) - 1
    BY <1>1, <1>3, <2>1, Zenon DEF GaplessOf
  <2> QED BY <1>3, <2>2, Zenon DEF LineOf, NumberOf
<1>6. ASSUME todo[e] < len[e]
      PROVE  \E j \in own : /\ s[j].line = line[e] /\ s[j].k = len[e] - todo[e]
                            /\ \A i \in own : i <= j
  <2>1. PICK n \in Nat : n = len[e] - todo[e] /\ n > 0
    BY <1>6 DEF OutInv, OutOf, ProgressOf
  <2>2. PICK l \in Nat : l = line[e]
    BY Zenon DEF OutInv
  <2>3. \E j \in 1 .. Len(s) :
          /\ EnvOf(s[j]) = e /\ LineOf(s[j]) = l /\ NumberOf(s[j]) = n
          /\ \A i \in 1 .. Len(s) : EnvOf(s[i]) = e => i <= j
    BY <1>1, <2>1, <2>2, LastOfOutput
  <2> QED BY <1>3, <2>1, <2>2, <2>3, Zenon DEF LineOf, NumberOf
<1> QED BY <1>4, <1>5, <1>6, Zenon DEF LostNothing

\* and that short lines stand together.
LEMMA ShortLinesAreWhole == OutInv => ShortLinesWhole
<1> SUFFICES ASSUME OutInv, NEW i \in DOMAIN console, NEW j \in DOMAIN console, i < j,
                    console[i].env = console[j].env, console[i].line = console[j].line,
                    len[console[i].env] <= BUFSIZE - 1, console[i].line = line[console[i].env],
                    NEW k \in i .. j
             PROVE  console[k].env = console[i].env
  BY Zenon DEF ShortLinesWhole, Whole
<1>1. DOMAIN console = 1 .. Len(console) /\ Len(console) \in Nat
  BY DEF OutInv
<1>2. k \in 1 .. Len(console) /\ i <= k /\ k <= j
  BY <1>1
<1>3. PICK e : e = EnvOf(console[i])
  BY Zenon
<1>4. e \in Envs
  <2>1. console[i] \in OutChar
    BY <1>1 DEF OutInv
  <2> QED BY <1>3, <2>1, CharFields, Zenon
<1>5. TogetherOf(e)
  BY <1>4, Zenon DEF OutInv, OutOf
<1>6. /\ EnvOf(console[j]) = e /\ LineOf(console[i]) = line[e] /\ LineOf(console[j]) = line[e]
      /\ len[e] <= BUFSIZE - 1
  BY <1>3, Zenon DEF EnvOf, LineOf
<1>7. EnvOf(console[k]) = e
  BY <1>1, <1>2, <1>3, <1>5, <1>6, Zenon DEF TogetherOf
<1> QED BY <1>3, <1>7, Zenon DEF EnvOf

\* What environments print with cprintf(), whatever the size of the buffer and the
\* length of the lines, is shown once, in order and without a gap, but for what is
\* still in their buffers; and the characters of a line that fits in the buffer stand
\* together, however the environments are preempted between two calls of putch().
THEOREM OutputIsWhole == ASSUME CprintfAssumption PROVE SpecPrint => []OutputWhole
<1>1. InitPrint => OutInv
  BY OInit, Zenon
<1>2. OutInv /\ [NextPrint]_varsPrint => OutInv'
  BY ONext, Zenon
<1>3. OutInv => OutputWhole
  <2> SUFFICES ASSUME OutInv PROVE NothingLost
    BY ShortLinesAreWhole, Zenon DEF OutputWhole
  <2>1. ASSUME NEW e \in Envs
        PROVE  LostNothing(e, console \o print_buf[e],
                 {j \in DOMAIN (console \o print_buf[e]) : (console \o print_buf[e])[j].env = e})
    BY NothingIsLost, Zenon DEF Joined
  <2> QED BY <2>1, Zenon DEF NothingLost, LostNothing
<1> QED BY <1>1, <1>2, <1>3, PTL DEF SpecPrint

-----------------------------------------------------------------------------
\* The remainder of a number less than twice the divisor.
LEMMA ModTwice ==
  ASSUME NEW n \in Nat \ {0}, NEW a \in Nat, a < 2 * n
  PROVE  a % n = IF a < n THEN a ELSE a - n
<1>1. a % n \in 0 .. n - 1 /\ a = n * (a \div n) + (a % n) /\ a \div n \in Int
  OBVIOUS
<1>2. CASE a < n
  OBVIOUS
<1>3. CASE a >= n
  BY <1>1, <1>3
<1> QED BY <1>2, <1>3

\* Fewer characters wait than the buffer has slots.
Bounded == MAXBACKLOG < CONSBUFSIZE

\* The positions stay in the buffer and the backlog within its bound.
IInv == TypeOK /\ Backlog <= MAXBACKLOG

\* The distance of the two positions, and the slot at a distance, without remainders.
Ahead(r, w) == IF r <= w THEN w - r ELSE w + CONSBUFSIZE - r
At(r, k)    == IF r + k - 1 < CONSBUFSIZE THEN r + k - 1 ELSE r + k - 1 - CONSBUFSIZE

\* They are the remainders that the positions are told by.
LEMMA Remainders ==
  ASSUME ConsoleAssumption, NEW r \in Slots, NEW w \in Slots
  PROVE  /\ (w + CONSBUFSIZE - r) % CONSBUFSIZE = Ahead(r, w)
         /\ Ahead(r, w) \in 0 .. CONSBUFSIZE - 1
         /\ \A k \in 1 .. Ahead(r, w) : (r + k - 1) % CONSBUFSIZE = At(r, k)
<1> DEFINE n == CONSBUFSIZE
<1>1. /\ n \in Nat \ {0} /\ r \in Nat /\ r < n /\ w \in Nat /\ w < n
  BY DEF ConsoleAssumption, Slots
<1>2. \A a \in Nat : a < 2 * n => a % n = IF a < n THEN a ELSE a - n
  BY <1>1, ModTwice, Zenon
<1>3. (w + n - r) % n = Ahead(r, w) /\ Ahead(r, w) \in 0 .. n - 1
  <2>1. PICK a \in Nat : a = w + n - r /\ a < 2 * n
    BY <1>1
  <2>2. a % n = IF a < n THEN a ELSE a - n
    BY <1>2, <2>1, Zenon
  <2>3. (w + n - r) % n = a % n
    BY <2>1, Zenon
  <2>4. Ahead(r, w) = (IF a < n THEN a ELSE a - n) /\ Ahead(r, w) \in 0 .. n - 1
    BY <1>1, <2>1 DEF Ahead
  <2> QED BY <2>2, <2>3, <2>4, Zenon
<1>4. ASSUME NEW k \in 1 .. Ahead(r, w)
      PROVE  (r + k - 1) % n = At(r, k)
  <2>1. PICK a \in Nat : a = r + k - 1 /\ a < 2 * n
    BY <1>1, <1>3
  <2>2. a % n = IF a < n THEN a ELSE a - n
    BY <1>2, <2>1, Zenon
  <2>3. (r + k - 1) % n = a % n
    BY <2>1, Zenon
  <2>4. At(r, k) = IF a < n THEN a ELSE a - n
    BY <1>1, <2>1 DEF At
  <2> QED BY <2>2, <2>3, <2>4, Zenon
<1> QED BY <1>3, <1>4, Zenon

\* The characters between two positions of a buffer.
Between(r, w, b) == [k \in 1 .. Ahead(r, w) |-> b[At(r, k)]]

\* What waits before a step.
LEMMA Positions ==
  ASSUME ConsoleAssumption, rpos \in Slots, wpos \in Slots
  PROVE  Waiting = Ahead(rpos, wpos) /\ Stashed = Between(rpos, wpos, buf)
<1>1. Waiting = Ahead(rpos, wpos)
  BY Remainders, Zenon DEF Waiting
<1> QED BY <1>1, Remainders, Zenon DEF Stashed, Between

\* What waits after it.
LEMMA PositionsAfter ==
  ASSUME ConsoleAssumption, rpos' \in Slots, wpos' \in Slots
  PROVE  Waiting' = Ahead(rpos', wpos') /\ Stashed' = Between(rpos', wpos', buf')
<1>1. Waiting' = Ahead(rpos', wpos')
  BY Remainders, Zenon DEF Waiting
<1> QED BY <1>1, Remainders, Zenon DEF Stashed, Between

\* The positions after a character more is stashed, or one is taken.
LEMMA Moves ==
  ASSUME ConsoleAssumption, NEW r \in Slots, NEW w \in Slots
  PROVE  /\ Advance(w) \in Slots
         /\ Ahead(r, w) + 1 < CONSBUFSIZE => Ahead(r, Advance(w)) = Ahead(r, w) + 1
         /\ r # w => Ahead(Advance(r), w) = Ahead(r, w) - 1
         /\ r # w <=> Ahead(r, w) # 0
         /\ At(r, 1) = r
         /\ \A k \in 1 .. Ahead(r, w) : At(r, k) \in Slots \ {w}
         /\ At(r, Ahead(r, w) + 1) = w
         /\ \A k \in 1 .. Ahead(r, w) : At(Advance(r), k) = At(r, k + 1)
BY DEF ConsoleAssumption, Slots, Advance, Ahead, At

\* Initially nothing is there.
LEMMA InitIInv == ASSUME ConsoleAssumption PROVE Init => IInv
<1> SUFFICES ASSUME Init PROVE IInv
  BY Zenon
<1>1. TypeOK
  BY DEF Init, TypeOK, Slots, Devices, ConsoleAssumption
<1>2. Waiting = 0
  BY <1>1, Positions DEF Init, Ahead, TypeOK
<1>3. Len(device["serial"]) = 0 /\ Len(device["kbd"]) = 0
  BY Zenon DEF Init, Devices
<1> QED BY <1>1, <1>2, <1>3 DEF IInv, Backlog, ConsoleAssumption

\* A character written at the write position is appended to those that wait.
LEMMA StashAppends ==
  ASSUME ConsoleAssumption, NEW r \in Slots, NEW w \in Slots,
         Ahead(r, w) + 1 < CONSBUFSIZE,
         NEW b \in [Slots -> Chars \cup {0}], NEW x \in Chars
  PROVE  /\ Ahead(r, Advance(w)) = Ahead(r, w) + 1
         /\ Between(r, Advance(w), [b EXCEPT ![w] = x]) = Append(Between(r, w, b), x)
<1> DEFINE n  == Ahead(r, w)
           b2 == [b EXCEPT ![w] = x]
           s  == Between(r, w, b)
           s2 == Between(r, Advance(w), b2)
<1>1. n \in Nat /\ Ahead(r, Advance(w)) = n + 1
  BY Moves, Remainders
<1>2. \A k \in 1 .. n : At(r, k) \in Slots \ {w}
  BY Moves, Zenon
<1>3. At(r, n + 1) = w
  BY Moves, Zenon
<1>4. s \in Seq(Chars \cup {0}) /\ Len(s) = n /\ \A k \in 1 .. n : s[k] = b[At(r, k)]
  <2>1. n \in Nat
    BY <1>1, Zenon
  <2>2. \A k \in 1 .. n : b[At(r, k)] \in Chars \cup {0}
    BY <1>2, Zenon
  <2>3. s = [k \in 1 .. n |-> b[At(r, k)]]
    BY Zenon DEF Between
  <2> HIDE DEF n, s
  <2>4. s \in Seq(Chars \cup {0})
    BY <2>1, <2>2, <2>3
  <2> QED BY <2>1, <2>3, <2>4
<1>5. s2 = [k \in 1 .. n + 1 |-> b2[At(r, k)]]
  BY <1>1, Zenon DEF Between
<1>6. /\ \A k \in 1 .. n : b2[At(r, k)] = s[k]
      /\ b2[At(r, n + 1)] = x
  BY <1>2, <1>3, <1>4, Zenon
<1> HIDE DEF n, b2, s, s2
<1>7. s2 = Append(s, x)
  <2>1. /\ Append(s, x) \in Seq(Chars \cup {0}) /\ Len(Append(s, x)) = n + 1
        /\ \A k \in 1 .. n : Append(s, x)[k] = s[k]
        /\ Append(s, x)[n + 1] = x
    BY <1>1, <1>4, Appended
  <2>2. \A k \in 1 .. n + 1 : b2[At(r, k)] = Append(s, x)[k]
    BY <1>1, <1>6, <2>1
  <2>3. \A k \in 1 .. n + 1 : Append(s, x)[k] \in Chars \cup {0}
    BY <1>1, <2>1
  <2>4. s2 \in Seq(Chars \cup {0}) /\ Len(s2) = n + 1
    <3>1. PICK m \in Nat : m = n + 1
      BY <1>1
    <3>2. s2 = [k \in 1 .. m |-> b2[At(r, k)]] /\ \A k \in 1 .. m : b2[At(r, k)] \in Chars \cup {0}
      BY <1>5, <2>2, <2>3, <3>1, Zenon
    <3>3. s2 \in Seq(Chars \cup {0})
      BY <3>2
    <3> QED BY <3>1, <3>2, <3>3
  <2>5. \A k \in 1 .. Len(s2) : s2[k] = Append(s, x)[k]
    BY <1>5, <2>2, <2>4, Zenon
  <2> QED BY <2>1, <2>4, <2>5, SameElements, Zenon
<1> QED BY <1>1, <1>7, Zenon DEF n, b2, s, s2

\* The character at the read position is the first of those that wait, and the
\* position after it has the others.
LEMMA TakeRemoves ==
  ASSUME ConsoleAssumption, NEW r \in Slots, NEW w \in Slots, r # w,
         NEW b \in [Slots -> Chars \cup {0}]
  PROVE  /\ Ahead(Advance(r), w) = Ahead(r, w) - 1
         /\ Between(r, w, b) # << >>
         /\ Head(Between(r, w, b)) = b[r]
         /\ Between(Advance(r), w, b) = Tail(Between(r, w, b))
<1> DEFINE n  == Ahead(r, w)
           s  == Between(r, w, b)
           s2 == Between(Advance(r), w, b)
<1>1. n \in Nat \ {0} /\ Ahead(Advance(r), w) = n - 1
  BY Moves, Remainders
<1>2. \A k \in 1 .. n : At(r, k) \in Slots
  BY Moves, Zenon
<1>3. At(r, 1) = r /\ \A k \in 1 .. n : At(Advance(r), k) = At(r, k + 1)
  BY Moves
<1>4. s \in Seq(Chars \cup {0}) /\ Len(s) = n /\ \A k \in 1 .. n : s[k] = b[At(r, k)]
  <2>1. n \in Nat
    BY <1>1, Zenon
  <2>2. \A k \in 1 .. n : b[At(r, k)] \in Chars \cup {0}
    BY <1>2, Zenon
  <2>3. s = [k \in 1 .. n |-> b[At(r, k)]]
    BY Zenon DEF Between
  <2> HIDE DEF n, s
  <2>4. s \in Seq(Chars \cup {0})
    BY <2>1, <2>2, <2>3
  <2> QED BY <2>1, <2>3, <2>4
<1>5. s2 = [k \in 1 .. n - 1 |-> b[At(Advance(r), k)]]
  BY <1>1, Zenon DEF Between
<1>6. \A k \in 1 .. n - 1 : b[At(Advance(r), k)] = s[k + 1]
  BY <1>1, <1>3, <1>4
<1> HIDE DEF n, s, s2
<1>7. s # << >> /\ Head(s) = b[r]
  BY <1>1, <1>3, <1>4
<1>8. s2 = Tail(s)
  <2>1. /\ Tail(s) \in Seq(Chars \cup {0}) /\ Len(Tail(s)) = n - 1
        /\ \A k \in 1 .. n - 1 : Tail(s)[k] = s[k + 1]
    BY <1>1, <1>4, <1>7, Taken, Zenon
  <2>2. \A k \in 1 .. n - 1 : b[At(Advance(r), k)] = Tail(s)[k]
    BY <1>6, <2>1, Zenon
  <2>3. \A k \in 1 .. n - 1 : Tail(s)[k] \in Chars \cup {0}
    BY <1>1, <2>1
  <2>4. s2 \in Seq(Chars \cup {0}) /\ Len(s2) = n - 1
    <3>1. PICK m \in Nat : m = n - 1
      BY <1>1
    <3>2. /\ s2 = [k \in 1 .. m |-> b[At(Advance(r), k)]]
          /\ \A k \in 1 .. m : b[At(Advance(r), k)] \in Chars \cup {0}
      BY <1>5, <2>2, <2>3, <3>1, Zenon
    <3>3. s2 \in Seq(Chars \cup {0})
      BY <3>2
    <3> QED BY <3>1, <3>2, <3>3
  <2>5. \A k \in 1 .. Len(s2) : s2[k] = Tail(s)[k]
    BY <1>5, <2>2, <2>4, Zenon
  <2> QED BY <2>1, <2>4, <2>5, SameElements, Zenon
<1> QED BY <1>1, <1>7, <1>8, Zenon DEF n, s, s2

-----------------------------------------------------------------------------
\* A step that leaves buffer and positions alone leaves what waits.
LEMMA Still == ASSUME UNCHANGED <<buf, rpos, wpos>> PROVE Waiting' = Waiting /\ Stashed' = Stashed
<1>1. Waiting' = Waiting
  BY Zenon DEF Waiting
<1> QED BY <1>1, Zenon DEF Stashed

\* The backlog is that of the buffer and of the two devices.
LEMMA ListLengths ==
  ASSUME ConsoleAssumption, TypeOK
  PROVE  /\ Waiting \in Nat /\ Backlog \in Nat
         /\ Len(device["serial"]) \in Nat /\ Len(device["kbd"]) \in Nat
         /\ \A d \in Devices : Len(device[d]) \in Nat /\ Waiting + Len(device[d]) <= Backlog
<1>1. Waiting \in Nat
  BY Positions, Remainders DEF TypeOK
<1>2. device["serial"] \in Seq(Chars \cup {0}) /\ device["kbd"] \in Seq(Chars \cup {0})
  BY Zenon DEF TypeOK, Devices
<1>3. Len(device["serial"]) \in Nat /\ Len(device["kbd"]) \in Nat
  BY <1>2
<1>4. \A d \in Devices : d = "serial" \/ d = "kbd"
  BY Zenon DEF Devices
<1> DEFINE L(d) == Len(device[d])
<1>5. /\ Backlog = Waiting + L("serial") + L("kbd") /\ L("serial") \in Nat /\ L("kbd") \in Nat
  BY <1>3, Zenon DEF Backlog
<1> HIDE DEF L
<1>6. \A d \in Devices : L(d) \in Nat /\ Waiting + L(d) <= Backlog
  BY <1>1, <1>4, <1>5
<1>7. Backlog \in Nat
  BY <1>1, <1>5
<1> QED BY <1>1, <1>3, <1>6, <1>7, Zenon DEF L

\* One device's queue grows or shrinks by one, and the backlog with it.
LEMMA BacklogMoves ==
  ASSUME ConsoleAssumption, TypeOK, NEW d \in Devices, NEW q \in Seq(Chars \cup {0}),
         device' = [device EXCEPT ![d] = q], Waiting' \in Nat
  PROVE  Backlog' = Backlog + (Waiting' - Waiting) + (Len(q) - Len(device[d]))
<1>1. device["serial"] \in Seq(Chars \cup {0}) /\ device["kbd"] \in Seq(Chars \cup {0})
  BY Zenon DEF TypeOK, Devices
<1>2. Len(device["serial"]) \in Nat /\ Len(device["kbd"]) \in Nat /\ Len(q) \in Nat
  BY <1>1
<1>w. Waiting \in Nat
  BY ListLengths, Zenon
<1>3. CASE d = "serial"
  <2>1. device'["serial"] = q /\ device'["kbd"] = device["kbd"]
    BY <1>3, Zenon DEF TypeOK, Devices
  <2>2. PICK l \in Nat, m \in Nat, n \in Nat :
          l = Len(q) /\ m = Len(device["serial"]) /\ n = Len(device["kbd"])
    BY <1>2, Zenon
  <2>3. PICK v \in Nat, w \in Nat : v = Waiting /\ w = Waiting'
    BY <1>w, Zenon
  <2>4. Backlog = v + m + n /\ Backlog' = w + l + n
    BY <2>1, <2>2, <2>3, Zenon DEF Backlog
  <2>5. Backlog' = Backlog + (w - v) + (l - m)
    BY <2>4
  <2> QED BY <1>3, <2>2, <2>3, <2>5, Zenon
<1>4. CASE d = "kbd"
  <2>1. device'["kbd"] = q /\ device'["serial"] = device["serial"]
    BY <1>4, Zenon DEF TypeOK, Devices
  <2>2. PICK l \in Nat, m \in Nat, n \in Nat :
          l = Len(q) /\ m = Len(device["kbd"]) /\ n = Len(device["serial"])
    BY <1>2, Zenon
  <2>3. PICK v \in Nat, w \in Nat : v = Waiting /\ w = Waiting'
    BY <1>w, Zenon
  <2>4. Backlog = v + n + m /\ Backlog' = w + n + l
    BY <2>1, <2>2, <2>3, Zenon DEF Backlog
  <2>5. Backlog' = Backlog + (w - v) + (l - m)
    BY <2>4
  <2> QED BY <1>4, <2>2, <2>3, <2>5, Zenon
<1> QED BY <1>3, <1>4, Zenon DEF Devices

\* A step of the console keeps the invariant, and is a step of the queue or none.
LEMMA Step ==
  ASSUME ConsoleAssumption, Bounded, IInv, Next
  PROVE  /\ IInv'
         /\ \/ Stashed' = Stashed /\ c' = c
            \/ \E x \in Chars : Stashed' = Append(Stashed, x) /\ c' = c
            \/ Stashed # << >> /\ c' = Head(Stashed) /\ Stashed' = Tail(Stashed)
            \/ Stashed = << >> /\ c' = 0 /\ Stashed' = Stashed
<1>1. /\ TypeOK /\ Backlog <= MAXBACKLOG /\ MAXBACKLOG \in Nat /\ CONSBUFSIZE \in Nat \ {0}
      /\ MAXBACKLOG < CONSBUFSIZE
  BY Zenon DEF IInv, ConsoleAssumption, Bounded
<1>2. /\ rpos \in Slots /\ wpos \in Slots /\ buf \in [Slots -> Chars \cup {0}]
      /\ \A d \in Devices : device[d] \in Seq(Chars \cup {0})
  BY <1>1, Zenon DEF TypeOK
<1>3. /\ Waiting \in Nat /\ Backlog \in Nat
      /\ \A d \in Devices : Len(device[d]) \in Nat /\ Waiting + Len(device[d]) <= Backlog
  BY <1>1, ListLengths, Zenon
<1>4. ASSUME NEW d \in Devices, NEW x \in Chars \cup {0}, Arrive(d, x)
      PROVE  IInv' /\ Stashed' = Stashed /\ c' = c
  <2>1. /\ device' = [device EXCEPT ![d] = Append(device[d], x)]
        /\ UNCHANGED <<buf, rpos, wpos, pc, c>> /\ Backlog < MAXBACKLOG
    BY <1>4, Zenon DEF Arrive
  <2>2. Append(device[d], x) \in Seq(Chars \cup {0}) /\ Len(Append(device[d], x)) = Len(device[d]) + 1
    BY <1>2
  <2>3. TypeOK'
    BY <1>1, <2>1, <2>2, Zenon DEF TypeOK
  <2>4. Waiting' = Waiting /\ Stashed' = Stashed
    BY <2>1, Still, Zenon
  <2>5. Backlog' = Backlog + (Waiting - Waiting) + (Len(Append(device[d], x)) - Len(device[d]))
    BY <1>1, <1>3, <2>1, <2>2, <2>4, BacklogMoves, Zenon
  <2>6. Backlog' = Backlog + 1
    BY <1>3, <2>2, <2>5
  <2> QED BY <1>1, <1>3, <2>1, <2>3, <2>4, <2>6 DEF IInv
<1>5. CASE ConsGetc \/ \E d \in Devices : NoData(d)
  <2>1. /\ UNCHANGED <<device, buf, rpos, wpos, c>> /\ pc' \in {"serial", "kbd", "take"}
    BY <1>5, Zenon DEF ConsGetc, NoData
  <2>2. TypeOK'
    BY <1>1, <2>1, Zenon DEF TypeOK, Devices
  <2>3. Waiting' = Waiting /\ Stashed' = Stashed
    BY <2>1, Still, Zenon
  <2> QED BY <1>1, <2>1, <2>2, <2>3, Zenon DEF IInv, Backlog
<1>6. ASSUME NEW d \in Devices, ConsIntr(d)
      PROVE  /\ IInv' /\ c' = c
             /\ Stashed' = Stashed \/ \E x \in Chars : Stashed' = Append(Stashed, x)
  <2> DEFINE x == Head(device[d])
  <2>1. /\ device[d] # << >> /\ device' = [device EXCEPT ![d] = Tail(device[d])]
        /\ UNCHANGED <<rpos, pc, c>>
        /\ \/ x # 0 /\ buf' = [buf EXCEPT ![wpos] = x] /\ wpos' = Advance(wpos)
           \/ UNCHANGED <<buf, wpos>>
    BY <1>6, Zenon DEF ConsIntr, Stores
  <2>2. /\ Tail(device[d]) \in Seq(Chars \cup {0}) /\ Len(Tail(device[d])) = Len(device[d]) - 1
        /\ x \in Chars \cup {0} /\ Len(device[d]) >= 1
    BY <1>2, <2>1
  <2>3. device' \in [Devices -> Seq(Chars \cup {0})]
    BY <1>1, <2>1, <2>2, Zenon DEF TypeOK
  <2>4. ASSUME Waiting' \in Nat
        PROVE  Backlog' = Backlog + (Waiting' - Waiting) - 1
    <3>1. Backlog' = Backlog + (Waiting' - Waiting) + (Len(Tail(device[d])) - Len(device[d]))
      BY <1>1, <2>1, <2>2, <2>4, BacklogMoves, Zenon
    <3>2. Len(Tail(device[d])) - Len(device[d]) = 0 - 1
      BY <1>3, <2>2
    <3>3. ASSUME NEW b \in Nat, NEW w \in Nat, NEW v \in Nat
          PROVE  b + (w - v) + (0 - 1) = b + (w - v) - 1
      BY Z3
    <3>4. Backlog' = Backlog + (Waiting' - Waiting) + (0 - 1)
      BY <3>1, <3>2, Zenon
    <3>5. Backlog + (Waiting' - Waiting) + (0 - 1) = Backlog + (Waiting' - Waiting) - 1
      BY <1>3, <2>4, <3>3, Zenon
    <3> QED BY <3>4, <3>5, Zenon
  <2>5. CASE UNCHANGED <<buf, wpos>>
    <3>1. Waiting' = Waiting /\ Stashed' = Stashed
      BY <2>1, <2>5, Still, Zenon
    <3>2. Backlog' <= MAXBACKLOG
      BY <1>1, <1>3, <2>4, <3>1
    <3> QED BY <1>1, <2>1, <2>3, <2>5, <3>1, <3>2, Zenon DEF IInv, TypeOK
  <2>6. CASE x # 0 /\ buf' = [buf EXCEPT ![wpos] = x] /\ wpos' = Advance(wpos)
    <3>1. x \in Chars
      BY <2>2, <2>6, Zenon
    <3>2. Waiting = Ahead(rpos, wpos) /\ Stashed = Between(rpos, wpos, buf)
      BY <1>2, Positions, Zenon
    <3>3. Waiting + 1 < CONSBUFSIZE
      <4>1. Waiting + Len(device[d]) <= Backlog /\ Len(device[d]) \in Nat /\ Len(device[d]) >= 1
        BY <1>3, <2>2, Zenon
      <4> QED BY <1>1, <1>3, <4>1
    <3> HIDE DEF x
    <3>4. wpos' \in Slots /\ rpos' \in Slots /\ buf' \in [Slots -> Chars \cup {0}]
      BY <1>2, <2>1, <2>6, <3>1, Moves, Zenon
    <3>5. Waiting' = Ahead(rpos', wpos') /\ Stashed' = Between(rpos', wpos', buf')
      BY <3>4, PositionsAfter, Zenon
    <3>6. Waiting' = Waiting + 1 /\ Stashed' = Append(Stashed, x)
      <4>1. Ahead(rpos, wpos) + 1 < CONSBUFSIZE
        BY <3>2, <3>3, Zenon
      <4>2. /\ Ahead(rpos, Advance(wpos)) = Ahead(rpos, wpos) + 1
            /\ Between(rpos, Advance(wpos), [buf EXCEPT ![wpos] = x])
                 = Append(Between(rpos, wpos, buf), x)
        BY <1>2, <3>1, <4>1, StashAppends, Zenon
      <4>3. rpos' = rpos /\ wpos' = Advance(wpos) /\ buf' = [buf EXCEPT ![wpos] = x]
        BY <2>1, <2>6, Zenon
      <4> QED BY <3>2, <3>5, <4>2, <4>3, Zenon
    <3>7. Backlog' = Backlog
      BY <1>3, <2>4, <3>6
    <3> QED BY <1>1, <2>1, <2>3, <3>1, <3>4, <3>6, <3>7, Zenon DEF IInv, TypeOK
  <2> QED BY <2>1, <2>5, <2>6, Zenon
<1>7. ASSUME Take, rpos # wpos
      PROVE  IInv' /\ Stashed # << >> /\ c' = Head(Stashed) /\ Stashed' = Tail(Stashed)
  <2>1. /\ c' = buf[rpos] /\ rpos' = Advance(rpos) /\ pc' = "out"
        /\ UNCHANGED <<device, buf, wpos>>
    BY <1>7, Zenon DEF Take
  <2>2. rpos' \in Slots /\ wpos' \in Slots
    BY <1>2, <2>1, Moves, Zenon
  <2>3. /\ Waiting = Ahead(rpos, wpos) /\ Stashed = Between(rpos, wpos, buf)
        /\ Waiting' = Ahead(rpos', wpos') /\ Stashed' = Between(rpos', wpos', buf')
    BY <1>2, <2>2, Positions, PositionsAfter, Zenon
  <2>4. /\ Waiting' = Waiting - 1 /\ Stashed # << >> /\ Head(Stashed) = buf[rpos]
        /\ Stashed' = Tail(Stashed)
    BY <1>2, <1>7, <2>1, <2>3, TakeRemoves, Zenon
  <2>5. Backlog' = Backlog - 1
    BY <1>3, <2>1, <2>4 DEF Backlog, Devices
  <2>6. Backlog' <= MAXBACKLOG
    BY <1>1, <1>3, <2>5
  <2>7. TypeOK'
    BY <1>1, <1>2, <2>1, <2>2, Zenon DEF TypeOK
  <2> QED BY <2>1, <2>4, <2>6, <2>7, Zenon DEF IInv
<1>8. ASSUME Take, rpos = wpos
      PROVE  IInv' /\ Stashed = << >> /\ c' = 0 /\ Stashed' = Stashed
  <2>1. c' = 0 /\ pc' = "out" /\ UNCHANGED <<device, buf, rpos, wpos>>
    BY <1>8, Zenon DEF Take
  <2>2. Waiting' = Waiting /\ Stashed' = Stashed
    BY <2>1, Still, Zenon
  <2>3. Ahead(rpos, wpos) = 0 /\ Stashed = Between(rpos, wpos, buf)
    BY <1>2, <1>8, Positions, Moves, Zenon
  <2>4. Stashed = << >>
    BY <2>3 DEF Between
  <2> QED BY <1>1, <2>1, <2>2, <2>4, Zenon DEF IInv, TypeOK, Backlog
<1> QED BY <1>4, <1>5, <1>6, <1>7, <1>8, Zenon DEF Next, Getc

\* "return the next input character from the console, or 0 if none waiting": the
\* ring of cons_intr() and cons_getc() is a queue, for any size and across the
\* wrap-around, as long as fewer characters are waiting than it has slots.
THEOREM RingIsQueue ==
  ASSUME ConsoleAssumption, Bounded
  PROVE  Spec => ImplementsFifo
<1>1. IInv /\ [Next]_vars => IInv'
  <2>1. IInv /\ UNCHANGED vars => IInv'
    BY Zenon DEF IInv, TypeOK, Backlog, Waiting, vars
  <2> QED BY <2>1, Step, Zenon
<1>2. Init => IInv
  BY InitIInv, Zenon
<1>3. Init => F!Init
  <2> SUFFICES ASSUME Init PROVE Stashed = << >> /\ c = 0
    BY Zenon DEF F!Init
  <2>1. rpos \in Slots /\ wpos \in Slots /\ rpos = wpos
    BY DEF Init, ConsoleAssumption, Slots
  <2>2. Ahead(rpos, wpos) = 0 /\ Stashed = Between(rpos, wpos, buf)
    BY <2>1, Positions, Moves, Zenon
  <2>3. Stashed = << >>
    BY <2>2 DEF Between
  <2> QED BY <2>3, Zenon DEF Init
<1>4. IInv /\ [Next]_vars => [F!Next]_(F!vars)
  <2>1. IInv /\ UNCHANGED vars => UNCHANGED (F!vars)
    BY Still, Zenon DEF vars, F!vars
  <2>2. IInv /\ Next => F!Next \/ UNCHANGED (F!vars)
    BY Step, Zenon DEF F!Next, F!Put, F!Get, F!vars
  <2> QED BY <2>1, <2>2, Zenon
<1> QED BY <1>1, <1>2, <1>3, <1>4, PTL DEF Spec, ImplementsFifo, F!Spec

-----------------------------------------------------------------------------
\* What the keyboard sends: the escape, and the code of a key that goes down or
\* comes up.
Escape      == [byte |-> E0, key |-> "", up |-> FALSE]
KeyByte(k, up) == [byte |-> Code[k].code + (IF up THEN 128 ELSE 0), key |-> k, up |-> up]

Sendable ==
  {Escape} \cup {KeyByte(k, FALSE) : k \in DOMAIN Code}
           \cup {KeyByte(k, TRUE) : k \in DOMAIN Code}

\* The table and the fields, by name
CodeOf(k) == Code[k].code
HasE0(k)  == Code[k].e0
KeyOf(x)  == x.key
IsUp(x)   == x.up
ByteOf(x) == x.byte

\* A byte is the escape; a byte follows an escape.
IsEscape(x)  == KeyOf(x) = ""
IsEscaped(x) == KeyOf(x) \in DOMAIN Code /\ HasE0(KeyOf(x))

\* An escape was sent, or read, just before the i-th byte of the queue.
Escaped(i) == IF i = 1 THEN "E0ESC" \in shift ELSE IsEscape(queue[i - 1])

ByteOK(i) ==
  /\ Escaped(i) <=> IsEscaped(queue[i])
  /\ IsEscape(queue[i]) => i < Len(queue)

QueueInv ==
  /\ queue \in Seq(Sendable)
  /\ \A i \in 1 .. Len(queue) : ByteOK(i)
  /\ Len(queue) = 0 => "E0ESC" \notin shift

KInv == QueueInv /\ FlagMeansDown /\ RebootIsChord

\* The rows of the table
LEMMA CodeRows ==
  ASSUME NEW k \in DOMAIN Code
  PROVE  \/ k = "LShift" /\ CodeOf(k) = 42 /\ ~HasE0(k)
         \/ k = "RShift" /\ CodeOf(k) = 54 /\ ~HasE0(k)
         \/ k = "LCtl" /\ CodeOf(k) = 29 /\ ~HasE0(k)
         \/ k = "RCtl" /\ CodeOf(k) = 29 /\ HasE0(k)
         \/ k = "LAlt" /\ CodeOf(k) = 56 /\ ~HasE0(k)
         \/ k = "RAlt" /\ CodeOf(k) = 56 /\ HasE0(k)
         \/ k = "Fake" /\ CodeOf(k) = 42 /\ HasE0(k)
         \/ k = "Caps" /\ CodeOf(k) = 58 /\ ~HasE0(k)
         \/ k = "Letter" /\ CodeOf(k) = 30 /\ ~HasE0(k)
         \/ k = "Del" /\ CodeOf(k) = 83 /\ HasE0(k)
         \/ k = "Dot" /\ CodeOf(k) = 83 /\ ~HasE0(k)
<1>1. DOMAIN Code = {"LShift", "RShift", "LCtl", "RCtl", "LAlt", "RAlt", "Fake", "Caps",
                       "Letter", "Del", "Dot"}
  BY Zenon DEF Code
<1>2. CodeOf("LShift") = 42 /\ ~HasE0("LShift")
  BY Zenon DEF Code, CodeOf, HasE0
<1>3. CodeOf("RShift") = 54 /\ ~HasE0("RShift")
  BY Zenon DEF Code, CodeOf, HasE0
<1>4. CodeOf("LCtl") = 29 /\ ~HasE0("LCtl")
  BY Zenon DEF Code, CodeOf, HasE0
<1>5. CodeOf("RCtl") = 29 /\ HasE0("RCtl")
  BY Zenon DEF Code, CodeOf, HasE0
<1>6. CodeOf("LAlt") = 56 /\ ~HasE0("LAlt")
  BY Zenon DEF Code, CodeOf, HasE0
<1>7. CodeOf("RAlt") = 56 /\ HasE0("RAlt")
  BY Zenon DEF Code, CodeOf, HasE0
<1>8. CodeOf("Fake") = 42 /\ HasE0("Fake")
  BY Zenon DEF Code, CodeOf, HasE0
<1>9. CodeOf("Caps") = 58 /\ ~HasE0("Caps")
  BY Zenon DEF Code, CodeOf, HasE0
<1>10. CodeOf("Letter") = 30 /\ ~HasE0("Letter")
  BY Zenon DEF Code, CodeOf, HasE0
<1>11. CodeOf("Del") = 83 /\ HasE0("Del")
  BY Zenon DEF Code, CodeOf, HasE0
<1>12. CodeOf("Dot") = 83 /\ ~HasE0("Dot")
  BY Zenon DEF Code, CodeOf, HasE0
<1> QED BY <1>1, <1>2, <1>3, <1>4, <1>5, <1>6, <1>7, <1>8, <1>9, <1>10, <1>11, <1>12

\* The codes are those of keys that go down: below that of the escape and without
\* the bit that says that a key comes up.
LEMMA CodeRange ==
  ASSUME NEW k \in DOMAIN Code
  PROVE  CodeOf(k) \in 1 .. 127 /\ CodeOf(k) + 128 # 224
BY CodeRows

\* No key is named "".
LEMMA KeysNamed == "" \notin DOMAIN Code
BY CodeRows, Zenon

\* No key is down and nothing is sent at the start.
LEMMA KInit == InitKbd => KInv
BY DEF InitKbd, KInv, QueueInv, FlagMeansDown, RebootIsChord

\* What a byte tells.
LEMMA SentCases ==
  ASSUME NEW x \in Sendable
  PROVE  \/ IsEscape(x) /\ ByteOf(x) = 224
         \/ KeyOf(x) \in DOMAIN Code /\ ~IsUp(x) /\ ByteOf(x) = CodeOf(KeyOf(x))
         \/ KeyOf(x) \in DOMAIN Code /\ IsUp(x) /\ ByteOf(x) = CodeOf(KeyOf(x)) + 128
<1>1. CASE x = Escape
  BY <1>1, Zenon DEF Escape, E0, KeyOf, ByteOf, IsEscape
<1>2. ASSUME NEW k \in DOMAIN Code, x = KeyByte(k, FALSE)
      PROVE  KeyOf(x) \in DOMAIN Code /\ ~IsUp(x) /\ ByteOf(x) = CodeOf(KeyOf(x))
  <2>1. CodeOf(k) + 0 = CodeOf(k)
    BY CodeRange
  <2>2. KeyOf(x) = k /\ ~IsUp(x) /\ ByteOf(x) = CodeOf(k) + 0
    BY <1>2, Zenon DEF KeyByte, CodeOf, KeyOf, IsUp, ByteOf
  <2> QED BY <2>1, <2>2, Zenon
<1>3. ASSUME NEW k \in DOMAIN Code, x = KeyByte(k, TRUE)
      PROVE  KeyOf(x) \in DOMAIN Code /\ IsUp(x) /\ ByteOf(x) = CodeOf(KeyOf(x)) + 128
  BY <1>3, Zenon DEF KeyByte, CodeOf, KeyOf, IsUp, ByteOf
<1> QED BY <1>1, <1>2, <1>3, Zenon DEF Sendable

\* A sequence of two bytes, and of one.
IsPair(t, x, y) == t \in Seq(Sendable) /\ Len(t) = 2 /\ t[1] = x /\ t[2] = y
IsSingle(t, x)  == t \in Seq(Sendable) /\ Len(t) = 1 /\ t[1] = x

\* The bytes of an event.
LEMMA BytesAre ==
  ASSUME NEW k \in DOMAIN Code, NEW up \in BOOLEAN
  PROVE  \/ \E esc, it \in Sendable :
              /\ IsEscape(esc) /\ ~IsEscaped(esc)
              /\ IsEscaped(it) /\ ~IsEscape(it)
              /\ IsPair(Bytes(k, up), esc, it)
         \/ \E it \in Sendable :
              /\ ~IsEscape(it) /\ ~IsEscaped(it)
              /\ IsSingle(Bytes(k, up), it)
<1>1. k # ""
  BY KeysNamed, Zenon
<1>2. "" \notin DOMAIN Code
  BY KeysNamed, Zenon
<1>3. PICK it \in Sendable : it = KeyByte(k, up)
  <2>1. CASE up = TRUE
    BY <2>1, Zenon DEF Sendable
  <2>2. CASE up = FALSE
    BY <2>2, Zenon DEF Sendable
  <2> QED BY <2>1, <2>2, Zenon
<1>4. PICK esc \in Sendable : esc = Escape
  BY Zenon DEF Sendable
<1>5. KeyOf(it) = k
  BY <1>3, Zenon DEF KeyByte, KeyOf
<1>6. KeyOf(esc) = ""
  BY <1>4, Zenon DEF Escape, KeyOf
<1>7. CASE HasE0(k)
  <2>1. Bytes(k, up) = <<Escape>> \o <<KeyByte(k, up)>>
    BY <1>7, Zenon DEF Bytes, HasE0, Escape, KeyByte
  <2>2. IsPair(<<esc>> \o <<it>>, esc, it)
    BY DEF IsPair
  <2>3. IsPair(Bytes(k, up), esc, it)
    BY <1>3, <1>4, <2>1, <2>2, Zenon
  <2> QED BY <1>1, <1>2, <1>5, <1>6, <1>7, <2>3, Zenon DEF IsEscape, IsEscaped
<1>8. CASE ~HasE0(k)
  <2>1. Bytes(k, up) = << >> \o <<KeyByte(k, up)>>
    BY <1>8, Zenon DEF Bytes, HasE0, KeyByte
  <2>2. IsSingle(<< >> \o <<it>>, it)
    BY DEF IsSingle
  <2>3. IsSingle(Bytes(k, up), it)
    BY <1>3, <2>1, <2>2, Zenon
  <2> QED BY <1>1, <1>5, <1>8, <2>3, Zenon DEF IsEscape, IsEscaped
<1> QED BY <1>7, <1>8, Zenon

\* The bytes t are put at the end of the queue.
Queued(t) == queue' = queue \o t

\* A key's bytes, put at the end of the queue: the escape, if there is one, is
\* followed by the code it belongs to, and nothing before them is open.
LEMMA SendPair ==
  ASSUME QueueInv, NEW t, NEW esc \in Sendable, NEW it \in Sendable, IsPair(t, esc, it),
         IsEscape(esc), ~IsEscaped(esc), IsEscaped(it), ~IsEscape(it),
         Queued(t), shift' = shift
  PROVE  QueueInv'
<1>1. PICK n \in Nat : n = Len(queue)
  BY DEF QueueInv
<1>2. IF n = 0 THEN "E0ESC" \notin shift ELSE ~IsEscape(queue[n])
  BY <1>1 DEF QueueInv, ByteOK
<1>3. /\ queue' \in Seq(Sendable) /\ Len(queue') = n + 2
      /\ \A i \in 1 .. n : queue'[i] = queue[i]
      /\ queue'[n + 1] = esc /\ queue'[n + 2] = it
  <2>1. queue \in Seq(Sendable) /\ t \in Seq(Sendable)
    BY Zenon DEF QueueInv, IsPair
  <2>2. /\ queue' \in Seq(Sendable)
        /\ Len(queue') = Len(queue) + Len(t)
        /\ \A i \in 1 .. Len(queue) : queue'[i] = queue[i]
        /\ \A i \in 1 .. Len(t) : queue'[Len(queue) + i] = t[i]
    BY <2>1, Parts DEF Queued
  <2>3. Len(t) = 2 /\ t[1] = esc /\ t[2] = it
    BY Zenon DEF IsPair
  <2> QED BY <1>1, <2>2, <2>3
<1>4. ASSUME NEW i \in 1 .. n PROVE ByteOK(i)'
  <2>1. ByteOK(i)
    BY <1>1, Zenon DEF QueueInv
  <2>2. queue'[i] = queue[i] /\ (i # 1 => queue'[i - 1] = queue[i - 1])
    BY <1>3
  <2>3. Escaped(i)' <=> Escaped(i)
    BY <2>2, Zenon DEF Escaped
  <2>4. i < Len(queue')
    BY <1>3
  <2> QED BY <2>1, <2>2, <2>3, <2>4, Zenon DEF ByteOK
<1>5. ByteOK(n + 1)'
  BY <1>2, <1>3 DEF ByteOK, Escaped
<1>6. ByteOK(n + 2)'
  <2>1. n + 2 # 1 /\ (n + 2) - 1 = n + 1
    OBVIOUS
  <2> QED BY <1>3, <2>1, Zenon DEF ByteOK, Escaped
<1>7. \A i \in 1 .. n + 2 : i \in 1 .. n \/ i = n + 1 \/ i = n + 2
  OBVIOUS
<1>8. \A i \in 1 .. Len(queue') : ByteOK(i)'
  BY <1>3, <1>4, <1>5, <1>6, <1>7, Zenon
<1>9. Len(queue') # 0
  BY <1>3
<1> QED BY <1>3, <1>8, <1>9, Zenon DEF QueueInv

\* The same for a key without an escape.
LEMMA SendSingle ==
  ASSUME QueueInv, NEW t, NEW it \in Sendable, IsSingle(t, it),
         ~IsEscape(it), ~IsEscaped(it),
         Queued(t), shift' = shift
  PROVE  QueueInv'
<1>1. PICK n \in Nat : n = Len(queue)
  BY DEF QueueInv
<1>2. IF n = 0 THEN "E0ESC" \notin shift ELSE ~IsEscape(queue[n])
  BY <1>1 DEF QueueInv, ByteOK
<1>3. /\ queue' \in Seq(Sendable) /\ Len(queue') = n + 1
      /\ \A i \in 1 .. n : queue'[i] = queue[i]
      /\ queue'[n + 1] = it
  <2>1. queue \in Seq(Sendable) /\ t \in Seq(Sendable)
    BY Zenon DEF QueueInv, IsSingle
  <2>2. /\ queue' \in Seq(Sendable)
        /\ Len(queue') = Len(queue) + Len(t)
        /\ \A i \in 1 .. Len(queue) : queue'[i] = queue[i]
        /\ \A i \in 1 .. Len(t) : queue'[Len(queue) + i] = t[i]
    BY <2>1, Parts DEF Queued
  <2>3. Len(t) = 1 /\ t[1] = it
    BY Zenon DEF IsSingle
  <2> QED BY <1>1, <2>2, <2>3
<1>4. ASSUME NEW i \in 1 .. n PROVE ByteOK(i)'
  <2>1. ByteOK(i)
    BY <1>1, Zenon DEF QueueInv
  <2>2. queue'[i] = queue[i] /\ (i # 1 => queue'[i - 1] = queue[i - 1])
    BY <1>3
  <2>3. Escaped(i)' <=> Escaped(i)
    BY <2>2, Zenon DEF Escaped
  <2>4. i < Len(queue')
    BY <1>3
  <2> QED BY <2>1, <2>2, <2>3, <2>4, Zenon DEF ByteOK
<1>5. ByteOK(n + 1)'
  BY <1>2, <1>3 DEF ByteOK, Escaped
<1>6. \A i \in 1 .. n + 1 : i \in 1 .. n \/ i = n + 1
  OBVIOUS
<1>7. \A i \in 1 .. Len(queue') : ByteOK(i)'
  BY <1>3, <1>4, <1>5, <1>6, Zenon
<1>8. Len(queue') # 0
  BY <1>3
<1> QED BY <1>3, <1>7, <1>8, Zenon DEF QueueInv

\* The first byte is read: the flag is set just when it was an escape.
LEMMA ReadInv ==
  ASSUME QueueInv, queue # << >>, queue' = Tail(queue),
         "E0ESC" \in shift' <=> IsEscape(queue[1])
  PROVE  QueueInv'
<1>1. PICK n \in Nat \ {0} : n = Len(queue)
  BY DEF QueueInv
<1>2. /\ queue' \in Seq(Sendable) /\ Len(queue') = n - 1
      /\ \A i \in 1 .. n - 1 : queue'[i] = queue[i + 1]
  BY <1>1 DEF QueueInv
<1>3. ASSUME NEW i \in 1 .. n - 1 PROVE ByteOK(i)'
  <2>1. ByteOK(i + 1)
    BY <1>1 DEF QueueInv
  <2>2. Escaped(i)' <=> Escaped(i + 1)
    BY <1>1, <1>2 DEF Escaped
  <2> QED BY <1>1, <1>2, <2>1, <2>2 DEF ByteOK
<1>4. ASSUME Len(queue') = 0 PROVE "E0ESC" \notin shift'
  <2>2. n = 1
    BY <1>2, <1>4
  <2>3. ByteOK(1)
    BY <1>1 DEF QueueInv
  <2> QED BY <1>1, <2>2, <2>3 DEF ByteOK
<1> QED BY <1>2, <1>3, <1>4, Zenon DEF QueueInv

\* The rows of shiftcode[].
LEMMA ShiftCodes ==
  ASSUME NEW d \in Nat
  PROVE  /\ "SHIFT" \in shiftcode(d) <=> d \in {42, 54}
         /\ "CTL" \in shiftcode(d) <=> d \in {29, 157}
         /\ "ALT" \in shiftcode(d) <=> d \in {56, 184}
         /\ "E0ESC" \notin shiftcode(d)
BY DEF shiftcode

\* What the bookkeeping and the driver find at the head of the queue.
LEMMA HeadIs ==
  ASSUME QueueInv, queue # << >>
  PROVE  \E x \in Sendable :
           /\ x = queue[1] /\ x = Head(queue) /\ Byte = ByteOf(x)
           /\ "E0ESC" \in shift <=> IsEscaped(x)
<1>1. 1 \in 1 .. Len(queue) /\ queue[1] \in Sendable /\ Head(queue) = queue[1]
  BY DEF QueueInv
<1>2. ByteOK(1)
  BY <1>1, Zenon DEF QueueInv
<1>3. "E0ESC" \in shift <=> IsEscaped(queue[1])
  BY <1>2, Zenon DEF ByteOK, Escaped
<1>4. Byte = ByteOf(queue[1])
  BY <1>1, Zenon DEF Byte, ByteOf
<1> QED BY <1>1, <1>3, <1>4, Zenon

\* The escape byte.
LEMMA EscapeInv ==
  ASSUME KInv, ProcEscape
  PROVE  KInv'
<1>1. PICK x \in Sendable :
        /\ x = queue[1] /\ x = Head(queue) /\ Byte = ByteOf(x)
        /\ "E0ESC" \in shift <=> IsEscaped(x)
  BY HeadIs, Zenon DEF KInv, ProcEscape
<1>2. ByteOf(x) = 224
  BY <1>1, Zenon DEF ProcEscape, E0
<1>3. IsEscape(x)
  BY <1>2, SentCases, CodeRange
<1>4. queue' = Tail(queue) /\ down' = down /\ rebooted' = rebooted
  BY <1>1, <1>3, Zenon DEF ProcEscape, Read, KeyOf, IsEscape
<1>5. IsEscape(queue[1])
  BY <1>1, <1>3, Zenon
<1>6. shift' = shift \cup {"E0ESC"}
  BY Zenon DEF ProcEscape
<1>7. QueueInv'
  BY <1>4, <1>5, <1>6, ReadInv, Zenon DEF KInv, ProcEscape
<1>8. FlagMeansDown' /\ RebootIsChord'
  BY <1>4, <1>6, Zenon DEF KInv, FlagMeansDown, RebootIsChord
<1> QED BY <1>7, <1>8, Zenon DEF KInv

\* A key comes up: the index into shiftcode[] is its own, with or without an
\* escape, so its flag goes with it.
LEMMA UpInv ==
  ASSUME KInv, ProcUp
  PROVE  KInv'
<1>1. PICK x \in Sendable :
        /\ x = queue[1] /\ x = Head(queue) /\ Byte = ByteOf(x)
        /\ "E0ESC" \in shift <=> IsEscaped(x)
  BY HeadIs, Zenon DEF KInv, ProcUp
<1>2. ByteOf(x) # 224 /\ ByteOf(x) >= 128
  BY <1>1, Zenon DEF ProcUp, E0
<1>3. KeyOf(x) \in DOMAIN Code /\ IsUp(x) /\ ByteOf(x) = CodeOf(KeyOf(x)) + 128
  BY <1>2, SentCases, CodeRange
<1>4. PICK k \in DOMAIN Code : k = KeyOf(x)
  BY <1>3, Zenon
<1>5. CodeOf(k) \in 1 .. 127
  BY CodeRange, Zenon
<1>6. queue' = Tail(queue) /\ down' = down \ {k} /\ rebooted' = rebooted
  BY <1>1, <1>3, <1>4, KeysNamed, Zenon DEF ProcUp, Read, KeyOf, IsUp
<1>7. PICK d \in Nat : /\ d = UpCode
                       /\ d = IF HasE0(k) THEN CodeOf(k) + 128 ELSE CodeOf(k)
  <2>1. CASE HasE0(k)
    BY <1>1, <1>3, <1>4, <1>5, <2>1 DEF UpCode, IsEscaped
  <2>2. CASE ~HasE0(k)
    <3>1. (CodeOf(k) + 128) % 128 = CodeOf(k)
      BY <1>5
    <3> QED BY <1>1, <1>3, <1>4, <1>5, <2>2, <3>1 DEF UpCode, IsEscaped
  <2> QED BY <2>1, <2>2, Zenon
<1>8. shift' = shift \ (shiftcode(d) \cup {"E0ESC"})
  BY <1>7, Zenon DEF ProcUp
<1>9. QueueInv'
  <2>1. ~IsEscape(queue[1])
    BY <1>1, <1>4, KeysNamed, Zenon DEF IsEscape
  <2> QED BY <1>6, <1>8, <2>1, ReadInv, Zenon DEF KInv, ProcUp
<1>10. /\ k \in {"LShift", "RShift"} => d \in {42, 54}
       /\ k \in {"LCtl", "RCtl"} => d \in {29, 157}
       /\ k \in {"LAlt", "RAlt"} => d \in {56, 184}
  BY <1>7, CodeRows
<1>11. /\ "SHIFT" \in shift' => "SHIFT" \in shift /\ k \notin {"LShift", "RShift"}
       /\ "CTL" \in shift' => "CTL" \in shift /\ k \notin {"LCtl", "RCtl"}
       /\ "ALT" \in shift' => "ALT" \in shift /\ k \notin {"LAlt", "RAlt"}
  BY <1>8, <1>10, ShiftCodes
<1>12. FlagMeansDown' /\ RebootIsChord'
  BY <1>6, <1>11, Zenon DEF KInv, FlagMeansDown, RebootIsChord
<1> QED BY <1>9, <1>12, Zenon DEF KInv

\* A key goes down: a flag is set for a key of its own, and the character that
\* reboots is the one of Delete, not of the key that shares its code.
LEMMA DownInv ==
  ASSUME KInv, ProcDown
  PROVE  KInv'
<1>1. PICK x \in Sendable :
        /\ x = queue[1] /\ x = Head(queue) /\ Byte = ByteOf(x)
        /\ "E0ESC" \in shift <=> IsEscaped(x)
  BY HeadIs, Zenon DEF KInv, ProcDown
<1>2. ByteOf(x) < 128
  BY <1>1, Zenon DEF ProcDown
<1>3. KeyOf(x) \in DOMAIN Code /\ ~IsUp(x) /\ ByteOf(x) = CodeOf(KeyOf(x))
  BY <1>2, SentCases, CodeRange
<1>4. PICK k \in DOMAIN Code : k = KeyOf(x)
  BY <1>3, Zenon
<1>5. CodeOf(k) \in 1 .. 127
  BY CodeRange, Zenon
<1>6. queue' = Tail(queue) /\ down' = down \cup {k}
  BY <1>1, <1>3, <1>4, KeysNamed, Zenon DEF ProcDown, Read, KeyOf, IsUp
<1>7. PICK d \in Nat : /\ d = DownCode
                       /\ d = IF HasE0(k) THEN CodeOf(k) + 128 ELSE CodeOf(k)
  BY <1>1, <1>3, <1>4, <1>5 DEF DownCode, IsEscaped
<1>8. /\ "E0ESC" \notin shift'
      /\ \A f \in {"SHIFT", "CTL", "ALT"} : f \in shift' => f \in shift \/ f \in shiftcode(d)
  <2>1. shift' = Flags
    BY Zenon DEF ProcDown
  <2>2. togglecode(d) \subseteq {"CAPSLOCK"} /\ "E0ESC" \notin shiftcode(d)
    BY ShiftCodes, Zenon DEF togglecode
  <2>3. \A f \in shift' : f \in shift \ {"E0ESC"} \/ f \in shiftcode(d) \/ f \in togglecode(d)
    BY <1>7, <2>1, Zenon DEF Flags
  <2> QED BY <2>2, <2>3, Zenon
<1>9. QueueInv'
  <2>1. ~IsEscape(queue[1])
    BY <1>1, <1>4, KeysNamed, Zenon DEF IsEscape
  <2> QED BY <1>6, <1>8, <2>1, ReadInv, Zenon DEF KInv, ProcDown
<1>10. /\ d \in {42, 54} => k \in {"LShift", "RShift"}
       /\ d \in {29, 157} => k \in {"LCtl", "RCtl"}
       /\ d \in {56, 184} => k \in {"LAlt", "RAlt"}
       /\ d = 211 => k = "Del"
  BY <1>7, CodeRows
<1>11. FlagMeansDown'
  <2>1. /\ "SHIFT" \in shift' => "SHIFT" \in shift \/ k \in {"LShift", "RShift"}
        /\ "CTL" \in shift' => "CTL" \in shift \/ k \in {"LCtl", "RCtl"}
        /\ "ALT" \in shift' => "ALT" \in shift \/ k \in {"LAlt", "RAlt"}
    BY <1>8, <1>10, ShiftCodes
  <2> QED BY <1>6, <2>1, Zenon DEF KInv, FlagMeansDown
<1>12. RebootIsChord'
  <2>1. CASE Reboots(shift', charcode(shift', d))
    <3>1. d = 211
      BY <2>1, Zenon DEF Reboots, charcode
    <3>2. "CTL" \in shift' /\ "ALT" \in shift'
      BY <2>1, Zenon DEF Reboots
    <3>3. rebooted' = down'
      BY <1>7, <2>1, Zenon DEF ProcDown
    <3> QED BY <1>6, <1>10, <1>11, <3>1, <3>2, <3>3 DEF FlagMeansDown, RebootIsChord
  <2>2. CASE ~Reboots(shift', charcode(shift', d))
    <3>1. rebooted' = rebooted
      BY <1>7, <2>2, Zenon DEF ProcDown
    <3> QED BY <3>1, Zenon DEF KInv, RebootIsChord
  <2> QED BY <2>1, <2>2, Zenon
<1> QED BY <1>9, <1>11, <1>12, Zenon DEF KInv

\* Every step keeps the invariant.
LEMMA KNext ==
  ASSUME KeyboardAssumption, KInv, [NextKbd]_varsKbd
  PROVE  KInv'
<1>1. Keys \subseteq DOMAIN Code
  BY Zenon DEF KeyboardAssumption
<1>2. ASSUME NEW k \in Keys, Press(k) \/ Release(k)
      PROVE  KInv'
  <2>1. shift' = shift /\ down' = down /\ rebooted' = rebooted
    BY <1>2, Zenon DEF Press, Release
  <2>2. QueueInv'
    <3>1. PICK up \in BOOLEAN : queue' = queue \o Bytes(k, up)
      BY <1>2, Zenon DEF Press, Release
    <3>2. QueueInv
      BY Zenon DEF KInv
    <3> QED BY <1>1, <2>1, <3>1, <3>2, BytesAre, SendPair, SendSingle, Zenon DEF Queued
  <2> QED BY <2>1, <2>2, Zenon DEF KInv, FlagMeansDown, RebootIsChord
<1>3. CASE UNCHANGED varsKbd
  BY <1>3, Zenon DEF varsKbd, KInv, QueueInv, ByteOK, Escaped, FlagMeansDown, RebootIsChord
<1> QED BY <1>2, <1>3, EscapeInv, UpInv, DownInv, Zenon DEF NextKbd

\* The invariant implies that an escape flag is followed by its code.
LEMMA KImplies == KInv => KeysTracked
<1> SUFFICES ASSUME KInv PROVE EscapeIsFresh
  BY Zenon DEF KInv, KeysTracked
<1> SUFFICES ASSUME "E0ESC" \in shift, queue # << >> PROVE Head(queue).key # ""
  BY Zenon DEF EscapeIsFresh
<1>1. PICK x \in Sendable : x = Head(queue) /\ IsEscaped(x)
  BY HeadIs, Zenon DEF KInv
<1> QED BY <1>1, KeysNamed, Zenon DEF IsEscaped, KeyOf

\* Whatever keys go down and come up and however long their codes wait, kbd_proc_data()
\* sees the escape flag only just before the code that was escaped, takes a shift key
\* to be down only as long as the keys that set the flag say so, and reboots only on
\* Ctrl-Alt-Del.
THEOREM KeysAreTracked == ASSUME KeyboardAssumption PROVE SpecKbd => []KeysTracked
<1>1. InitKbd => KInv
  BY KInit, Zenon
<1>2. KInv /\ [NextKbd]_varsKbd => KInv'
  BY KNext, Zenon
<1> QED BY <1>1, <1>2, KImplies, PTL DEF SpecKbd

=============================================================================
