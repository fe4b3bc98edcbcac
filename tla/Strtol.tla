------------------------------- MODULE Strtol -------------------------------
(***************************************************************************)
(* strtol() (lib/string.c), one character per step.  A long has W bits and *)
(* wraps round: the code says that it does not detect overflow.            *)
(***************************************************************************)
EXTENDS Integers, Sequences, SequencesExt, FiniteSetsExt

CONSTANTS
  W,
  Texts,    \* characters of texts, among blanks, signs, 0, 7, 9, a, A and x
  LENGTH,   \* most characters of a text
  Bases     \* bases that callers give

VARIABLES
  line,             \* the text; its end is read as "NUL"
  base0,            \* the base that the caller gives
  s, neg, base, val,
  at

vars == <<line, base0, s, neg, base, val, at>>

Init ==
  /\ line \in BoundedSeq(Texts, LENGTH) /\ base0 \in Bases
  /\ s = 1 /\ neg = FALSE /\ base = base0 /\ val = 0
  /\ at = "blank"

-----------------------------------------------------------------------------
Char(k) == IF k <= Len(line) THEN line[k] ELSE "NUL"

Wrap(x) == ((x + 2 ^ (W - 1)) % 2 ^ W) - 2 ^ (W - 1)

Blank ==
  /\ at = "blank"
  /\ \/ Char(s) \in {" ", "tab"} /\ s' = s + 1 /\ UNCHANGED at
     \/ Char(s) \notin {" ", "tab"} /\ at' = "sign" /\ UNCHANGED s
  /\ UNCHANGED <<line, base0, neg, base, val>>

Sign ==
  /\ at = "sign"
  /\ s' = IF Char(s) \in {"+", "-"} THEN s + 1 ELSE s
  /\ neg' = (Char(s) = "-")
  /\ at' = "prefix"
  /\ UNCHANGED <<line, base0, base, val>>

Hex   == base \in {0, 16} /\ Char(s) = "0" /\ Char(s + 1) = "x"
Octal == ~Hex /\ base = 0 /\ Char(s) = "0"

Prefix ==
  /\ at = "prefix"
  /\ \/ Hex /\ s' = s + 2 /\ base' = 16
     \/ Octal /\ s' = s + 1 /\ base' = 8
     \/ ~Hex /\ ~Octal /\ s' = s /\ base' = IF base = 0 THEN 10 ELSE base
  /\ at' = "digits"
  /\ UNCHANGED <<line, base0, neg, val>>

\* The code takes the letters of both cases for digits; "A" stands for the upper ones.
dig(ch) ==
  CASE ch = "0" -> 0 [] ch = "7" -> 7 [] ch = "9" -> 9
    [] ch \in {"a", "A"} -> 10 [] ch = "x" -> 33
    [] OTHER -> 36

IsDigit(ch, b) == dig(ch) < b

Digits ==
  /\ at = "digits"
  /\ \/ IsDigit(Char(s), base) /\ s' = s + 1 /\ val' = Wrap(val * base + dig(Char(s))) /\ UNCHANGED at
     \/ ~IsDigit(Char(s), base) /\ at' = "done" /\ UNCHANGED <<s, val>>
  /\ UNCHANGED <<line, base0, neg, base>>

Next == Blank \/ Sign \/ Prefix \/ Digits

Spec == Init /\ [][Next]_vars

result == IF neg THEN Wrap(-val) ELSE val

-----------------------------------------------------------------------------
(* The reference: the text is blanks, a sign, a prefix and digits, each as *)
(* long as can be.                                                         *)
-----------------------------------------------------------------------------
\* First position from k on that is not in the set
Past(k, set) == Min({j \in k .. Len(line) + 1 : Char(j) \notin set})

Radix(k) ==
  CASE base0 \in {0, 16} /\ Char(k) = "0" /\ Char(k + 1) = "x" -> 16
    [] base0 = 0 /\ Char(k) = "0" /\ Char(k + 1) # "x"         -> 8
    [] base0 = 0 /\ Char(k) # "0"                              -> 10
    [] OTHER                                                   -> base0

Value(digits, b) == MapThenSumSet(LAMBDA j : dig(digits[j]) * b ^ (Len(digits) - j), 1 .. Len(digits))

\* strtol() returns the value of the text in the base that it or the caller says,
\* as far as a long can hold it, and leaves *endptr at the first character that
\* is no part of the number.
ParsesNumber ==
  at = "done" =>
    LET sign  == Past(1, {" ", "tab"})
        first == IF Char(sign) \in {"+", "-"} THEN sign + 1 ELSE sign
        b     == Radix(first)
        start == IF b = 16 /\ Char(first) = "0" /\ Char(first + 1) = "x" THEN first + 2 ELSE first
        end   == Past(start, {ch \in Texts : IsDigit(ch, b)})
        v     == Value(SubSeq(line, start, end - 1), b)
    IN  /\ s = end
        /\ result = Wrap(IF Char(sign) = "-" THEN -v ELSE v)
=============================================================================
