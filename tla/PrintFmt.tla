------------------------------ MODULE PrintFmt ------------------------------
(***************************************************************************)
(* vprintfmt() (lib/printfmt.c), the formatter of the kernel and of user   *)
(* programs, one character of the format per step.  A character is a       *)
(* string, "NUL" ends the format, and every argument that a format takes   *)
(* is num, or str for %s.  Numbers have W bits.                            *)
(***************************************************************************)
EXTENDS Integers, Sequences, SequencesExt

CONSTANTS
  W,
  Alphabet, MAXLEN,  \* formats: "%" and up to MAXLEN more characters
  Nums, Strs,        \* arguments
  MAXERROR

NULL == <<"NULL">>
NUL  == "NUL"

VARIABLES
  fmt, num, str,
  pos,               \* the next character of fmt
  pc,                \* "text", "escape" (at the label reswitch) or "done"
  padc, width, precision, lflag, altflag,
  out                \* what putch() has been given

vars == <<fmt, num, str, pos, pc, padc, width, precision, lflag, altflag, out>>

Init ==
  /\ \E n \in 0 .. MAXLEN : \E s \in [1 .. n -> Alphabet] : fmt = <<"%">> \o s \o <<NUL>>
  /\ num \in Nums /\ str \in Strs
  /\ pos = 1 /\ pc = "text"
  /\ padc = " " /\ width = -1 /\ precision = -1 /\ lflag = 0 /\ altflag = FALSE
  /\ out = << >>

-----------------------------------------------------------------------------
Digit == <<"0", "1", "2", "3", "4", "5", "6", "7", "8", "9", "a", "b", "c", "d", "e", "f">>
Decimal == {Digit[k] : k \in 1 .. 10}
Value(ch) == (CHOOSE k \in 1 .. 10 : Digit[k] = ch) - 1

Fill(n, ch) == [k \in 1 .. n |-> ch]

\* printnum() recurses on the digits, counting the width down, and pads before
\* the first one.
printnum(n, base, w, pad) ==
  LET digits[k \in 0 .. n] ==
        IF k >= base THEN Append(digits[k \div base], Digit[1 + (k % base)]) ELSE <<Digit[k + 1]>>
  IN  Fill(w - Len(digits[n]), pad) \o digits[n]

\* getuint(), getint()
Unsigned == num % 2^W

ch == fmt[pos]
At(c) == pc = "escape" /\ ch = c

\* An ordinary character, or the end.
Text ==
  /\ pc = "text" /\ ch \notin {"%", NUL}
  /\ out' = Append(out, ch)
  /\ pos' = pos + 1
  /\ UNCHANGED <<fmt, num, str, pc, padc, width, precision, lflag, altflag>>

End ==
  /\ pc = "text" /\ ch = NUL
  /\ pc' = "done"
  /\ UNCHANGED <<fmt, num, str, pos, padc, width, precision, lflag, altflag, out>>

Escape ==
  /\ pc = "text" /\ ch = "%"
  /\ padc' = " " /\ width' = -1 /\ precision' = -1 /\ lflag' = 0 /\ altflag' = FALSE
  /\ pos' = pos + 1 /\ pc' = "escape"
  /\ UNCHANGED <<fmt, num, str, out>>

\* Flags
PadFlag ==
  /\ At("-") \/ At("0")
  /\ padc' = ch
  /\ pos' = pos + 1
  /\ UNCHANGED <<fmt, num, str, pc, width, precision, lflag, altflag, out>>

\* process_precision
ProcessPrecision(n) ==
  IF width < 0 THEN width' = n /\ precision' = -1 ELSE precision' = n /\ UNCHANGED width

\* The position after the digits that start at p.
AfterDigits(p) == CHOOSE q \in p .. Len(fmt) : fmt[q] \notin Decimal /\ \A k \in p .. q - 1 : fmt[k] \in Decimal

Number ==
  /\ pc = "escape" /\ ch \in Decimal \ {"0"}
  /\ LET q == AfterDigits(pos)
         value[k \in pos .. q] == IF k = pos THEN 0 ELSE value[k - 1] * 10 + Value(fmt[k - 1])
     IN  ProcessPrecision(value[q]) /\ pos' = q
  /\ UNCHANGED <<fmt, num, str, pc, padc, lflag, altflag, out>>

Star ==
  /\ At("*")
  /\ ProcessPrecision(num)
  /\ pos' = pos + 1
  /\ UNCHANGED <<fmt, num, str, pc, padc, lflag, altflag, out>>

Dot ==
  /\ At(".")
  /\ width' = IF width < 0 THEN 0 ELSE width
  /\ pos' = pos + 1
  /\ UNCHANGED <<fmt, num, str, pc, padc, precision, lflag, altflag, out>>

Sharp ==
  /\ At("#")
  /\ altflag' = TRUE
  /\ pos' = pos + 1
  /\ UNCHANGED <<fmt, num, str, pc, padc, width, precision, lflag, out>>

Long ==
  /\ At("l")
  /\ lflag' = lflag + 1
  /\ pos' = pos + 1
  /\ UNCHANGED <<fmt, num, str, pc, padc, width, precision, altflag, out>>

\* A conversion writes its text, and the scan of ordinary text goes on.
Emit(c, text) ==
  /\ At(c)
  /\ out' = out \o text
  /\ pos' = pos + 1 /\ pc' = "text"
  /\ UNCHANGED <<fmt, num, str, padc, width, precision, lflag, altflag>>

\* %s
Shown(s) ==
  LET cut == IF precision >= 0 /\ precision < Len(s) THEN SubSeq(s, 1, precision) ELSE s
  IN  [k \in DOMAIN cut |-> IF altflag /\ cut[k] = "BEL" THEN "?" ELSE cut[k]]

PadsLeft == width > 0 /\ padc # "-"

StringText ==
  LET s == IF str = NULL THEN <<"(", "n", "u", "l", "l", ")">> ELSE str
      gap == width - Len(Shown(s))
  IN  IF PadsLeft THEN Fill(gap, padc) \o Shown(s) ELSE Shown(s) \o Fill(gap, " ")

\* Mutant: the sign is lost.
SignedText_NoSign == printnum(IF num < 0 THEN -num ELSE num, 10, width, padc)

\* %d
SignedText ==
  IF num < 0 THEN <<"-">> \o printnum(-num, 10, width, padc) ELSE printnum(num, 10, width, padc)

\* %e
ErrorText ==
  LET err == IF num < 0 THEN -num ELSE num
  IN  IF err >= MAXERROR \/ err = 0
      THEN <<"e", "r", "r", "o", "r", " ">> \o printnum(err, 10, -1, " ")
      ELSE <<"message", Digit[err + 1]>>

\* The position after the last "%" before this one.
Rewound == 1 + CHOOSE p \in 1 .. pos - 1 : fmt[p] = "%" /\ \A k \in p + 1 .. pos - 1 : fmt[k] # "%"

\* An unknown escape is printed as it stands.
Unknown ==
  /\ pc = "escape"
  /\ ch \notin Decimal \cup {"-", "*", ".", "#", "l", "c", "e", "s", "d", "u", "o", "p", "x", "%"}
  /\ out' = Append(out, "%")
  /\ pos' = Rewound /\ pc' = "text"
  /\ UNCHANGED <<fmt, num, str, padc, width, precision, lflag, altflag>>

Next ==
  \/ Text \/ End \/ Escape
  \/ PadFlag \/ Number \/ Star \/ Dot \/ Sharp \/ Long
  \/ Emit("c", <<"arg">>)
  \/ Emit("e", ErrorText)
  \/ Emit("s", StringText)
  \/ Emit("d", SignedText)
  \/ Emit("u", printnum(Unsigned, 10, width, padc))
  \/ Emit("o", printnum(Unsigned, 8, width, padc))
  \/ Emit("p", <<"0", "x">> \o printnum(Unsigned, 16, width, padc))
  \/ Emit("x", printnum(Unsigned, 16, width, padc))
  \/ Emit("%", <<"%">>)
  \/ Unknown

Spec == Init /\ [][Next]_vars

-----------------------------------------------------------------------------
\* Types; the format is never read past its end, also when it ends in the
\* middle of an escape.
TypeOK ==
  /\ pos \in 1 .. Len(fmt)
  /\ pc \in {"text", "escape", "done"}
  /\ lflag \in 0 .. MAXLEN

\* A format with one "%" and nothing after it that ends an escape is printed as
\* it stands.
Conversions == {"c", "e", "s", "d", "u", "o", "p", "x", "%"}

UnknownIsLiteral ==
  pc = "done" /\ (\A k \in 2 .. Len(fmt) : fmt[k] \notin Conversions) => out = Front(fmt)

\* strtol() of a text: blanks, a sign, and then digits as far as they go.
strtol(text, base) ==
  LET AtEnd(k, set) == CHOOSE q \in k .. Len(text) + 1 :
                         /\ \A m \in k .. q - 1 : text[m] \in set
                         /\ q <= Len(text) => text[q] \notin set
      sign  == AtEnd(1, {" "})
      neg   == sign <= Len(text) /\ text[sign] = "-"
      first == IF neg THEN sign + 1 ELSE sign
      end   == AtEnd(first, {Digit[k] : k \in 1 .. base})
      val[k \in first .. end] ==
        IF k = first THEN 0
        ELSE val[k - 1] * base + (CHOOSE d \in 1 .. 16 : Digit[d] = text[k - 1]) - 1
  IN  IF neg THEN -val[end] ELSE val[end]

Emitted == SubSeq(out', Len(out) + 1, Len(out'))

\* vprintfmt() writes the sign before printnum() pads: "%3d" of -7 is "-  7", which
\* strtol() reads as 0.
SignApart == Emitted[1] = "-" /\ " " \in ToSet(Emitted)

\* A number that is printed with blanks or zeros before it, or none, is read back
\* as the same number by strtol(), unless its sign stands apart: the digits, their
\* order, the sign and the padding are right.
ReadsBack ==
  [][/\ At("d") /\ padc # "-" /\ ~SignApart => strtol(Emitted, 10) = num
     /\ At("u") /\ padc # "-" => strtol(Emitted, 10) = Unsigned
     /\ At("x") /\ padc # "-" => strtol(Emitted, 16) = Unsigned
     /\ At("o") /\ padc # "-" => strtol(Emitted, 8) = Unsigned]_vars

\* A string is as wide as the format says, or as long as it is: padded on the
\* side that the flag says.
StringWidth ==
  [][At("s") /\ str # NULL =>
       LET n == IF precision >= 0 /\ precision < Len(str) THEN precision ELSE Len(str)
       IN  /\ Len(Emitted) = IF width > n THEN width ELSE n
           /\ padc = "-" => SubSeq(Emitted, 1, n) = Shown(str)]_vars

\* "flag to pad on the right" (vprintfmt()): with it, a number starts with its
\* first digit or its sign.
PadsRight ==
  [][At("u") /\ padc = "-" => Emitted[1] \in Decimal]_vars

\* "a field width [is] supported for the numeric formats": a number that fits is
\* as wide as the format says.
NumberWidth ==
  [][At("d") /\ width >= 3 => Len(Emitted) = width]_vars
=============================================================================
