------------------------------ MODULE Keyboard ------------------------------
(***************************************************************************)
(* kbd_proc_data() (kern/console.c): from the scan codes of a keyboard to  *)
(* characters.  The keyboard sends a code when a key goes down (again and  *)
(* again while it stays down) and the code with its top bit set when it    *)
(* comes up; some keys send 0xE0 first.  The driver keeps the state of the *)
(* modifier keys in "shift".                                               *)
(*                                                                         *)
(* Of the tables shiftcode, togglecode and charcode there are the rows of  *)
(* a few keys: both of each modifier, the lock, a letter, Delete, and two  *)
(* codes that differ from one of these by the 0xE0 only: the fake shift,   *)
(* and the key of the numeric pad that shares Delete's code.               *)
(***************************************************************************)
EXTENDS Naturals, Sequences, FiniteSets

CONSTANTS
  Keys,    \* the keys in use, a subset of DOMAIN Code
  MAXHELD, \* bound on the number of keys that are down
  MAXQUEUE \* bound on the codes that wait to be read

E0 == 224    \* 0xE0

\* What the keys send: the code and whether 0xE0 comes first.
Code ==
  [LShift |-> [code |-> 42, e0 |-> FALSE],    \* 0x2A
   RShift |-> [code |-> 54, e0 |-> FALSE],    \* 0x36
   LCtl   |-> [code |-> 29, e0 |-> FALSE],    \* 0x1D
   RCtl   |-> [code |-> 29, e0 |-> TRUE],
   LAlt   |-> [code |-> 56, e0 |-> FALSE],    \* 0x38
   RAlt   |-> [code |-> 56, e0 |-> TRUE],
   Fake   |-> [code |-> 42, e0 |-> TRUE],     \* sent around some keys
   Caps   |-> [code |-> 58, e0 |-> FALSE],    \* 0x3A
   Letter |-> [code |-> 30, e0 |-> FALSE],    \* 0x1E
   Del    |-> [code |-> 83, e0 |-> TRUE],     \* 0x53
   Dot    |-> [code |-> 83, e0 |-> FALSE]]

\* What the constants must satisfy.
KeyboardAssumption ==
  Keys \subseteq DOMAIN Code /\ MAXHELD \in Nat /\ MAXQUEUE \in Nat

VARIABLES
  queue,    \* codes the keyboard has sent: the byte, and the key it ends or ""
  down,     \* keys that are down, as far as the codes read so far tell
  pressed,  \* keys that are down (the two differ by what is in the queue)
  shift,    \* the driver's flags
  kbd_c,    \* the last character it returned, 0 if none
  rebooted  \* keys that were down when it rebooted the machine, or {}

varsKbd == <<queue, down, pressed, shift, kbd_c, rebooted>>

InitKbd ==
  /\ queue = << >>
  /\ down = {}
  /\ pressed = {}
  /\ shift = {}
  /\ kbd_c = "0"
  /\ rebooted = {}

-----------------------------------------------------------------------------
\* The keyboard

\* The bytes of an event; the last one names the key it is about.
Bytes(k, up) ==
  (IF Code[k].e0 THEN << [byte |-> E0, key |-> "", up |-> FALSE] >> ELSE << >>)
  \o << [byte |-> Code[k].code + (IF up THEN 128 ELSE 0), key |-> k, up |-> up] >>

\* A key goes down, or repeats.
Press(k) ==
  /\ Len(queue) < MAXQUEUE /\ Cardinality(pressed \cup {k}) <= MAXHELD
  /\ pressed' = pressed \cup {k}
  /\ queue' = queue \o Bytes(k, FALSE)
  /\ UNCHANGED <<down, shift, kbd_c, rebooted>>

\* A key comes up.
Release(k) ==
  /\ Len(queue) < MAXQUEUE /\ k \in pressed
  /\ pressed' = pressed \ {k}
  /\ queue' = queue \o Bytes(k, TRUE)
  /\ UNCHANGED <<down, shift, kbd_c, rebooted>>

-----------------------------------------------------------------------------
\* kbd_proc_data()

\* The tables, by code; a code with the top bit set stands for 0xE0 and code.
shiftcode(d) ==
  CASE d \in {42, 54}  -> {"SHIFT"}
    [] d \in {29, 157} -> {"CTL"}
    [] d \in {56, 184} -> {"ALT"}
    [] OTHER           -> {}

togglecode(d) == IF d = 58 THEN {"CAPSLOCK"} ELSE {}

charcode(flags, d) ==
  CASE d = 211 -> "KEY_DEL"
    [] d = 83  -> IF "CTL" \in flags THEN "0" ELSE "."
    [] d = 30  -> IF "CTL" \in flags THEN "^A" ELSE IF "SHIFT" \in flags THEN "A" ELSE "a"
    [] OTHER   -> "0"

\* CAPSLOCK swaps the cases.
Swapped(x) == IF x = "a" THEN "A" ELSE IF x = "A" THEN "a" ELSE x

Byte == Head(queue).byte

\* The bookkeeping of the keyboard's side for the byte that is read.
Read ==
  /\ queue' = Tail(queue)
  /\ down' = IF Head(queue).key = "" THEN down
             ELSE IF Head(queue).up THEN down \ {Head(queue).key}
             ELSE down \cup {Head(queue).key}
  /\ UNCHANGED pressed

\* The escape byte.
ProcEscape ==
  /\ queue # << >> /\ Byte = E0
  /\ shift' = shift \cup {"E0ESC"}
  /\ kbd_c' = "0"
  /\ Read
  /\ UNCHANGED rebooted

\* Mutant: the top bit stays.
UpCode_Raw == Byte

\* The table index for a key that comes up.
UpCode == IF "E0ESC" \in shift THEN Byte ELSE Byte % 128

\* A key comes up.
ProcUp ==
  /\ queue # << >> /\ Byte # E0 /\ Byte >= 128
  /\ shift' = shift \ (shiftcode(UpCode) \cup {"E0ESC"})
  /\ kbd_c' = "0"
  /\ Read
  /\ UNCHANGED rebooted

\* The table index for a key that goes down.
DownCode == IF "E0ESC" \in shift THEN Byte + 128 ELSE Byte

\* The flags after a key went down.
Flags ==
  LET on == (shift \ {"E0ESC"}) \cup shiftcode(DownCode)
      t  == togglecode(DownCode)
  IN  (on \ t) \cup (t \ on)

\* Ctrl-Alt-Del
Reboots(flags, x) == {"CTL", "ALT"} \subseteq flags /\ x = "KEY_DEL"

\* A key goes down.
ProcDown ==
  /\ queue # << >> /\ Byte < 128
  /\ shift' = Flags
  /\ LET x == charcode(shift', DownCode)
     IN  /\ kbd_c' = IF "CAPSLOCK" \in shift' THEN Swapped(x) ELSE x
         /\ Read
         /\ rebooted' = IF Reboots(shift', x) THEN down' ELSE rebooted

-----------------------------------------------------------------------------
NextKbd ==
  \/ \E k \in Keys : Press(k) \/ Release(k)
  \/ ProcEscape \/ ProcUp \/ ProcDown

SpecKbd == InitKbd /\ [][NextKbd]_varsKbd

-----------------------------------------------------------------------------
\* A modifier's flag is only set while one of its keys is down: no sequence of
\* codes, with or without 0xE0, leaves one behind.  (The converse does not hold:
\* of two shift keys the first to come up clears the flag.)
FlagMeansDown ==
  /\ "SHIFT" \in shift => down \cap {"LShift", "RShift"} # {}
  /\ "CTL"   \in shift => down \cap {"LCtl", "RCtl"} # {}
  /\ "ALT"   \in shift => down \cap {"LAlt", "RAlt"} # {}

\* The escape flag stands for the byte before: it is set just when a key's code
\* is still missing.
EscapeIsFresh ==
  "E0ESC" \in shift /\ queue # << >> => Head(queue).key # ""

\* The machine is rebooted by Ctrl-Alt-Del only: some Ctrl, some Alt and the
\* Delete key are down together, whatever was pressed and released before.
RebootIsChord ==
  rebooted # {} =>
    /\ rebooted \cap {"LCtl", "RCtl"} # {}
    /\ rebooted \cap {"LAlt", "RAlt"} # {}
    /\ "Del" \in rebooted

\* What kbd_proc_data() believes of the keys agrees with the keys.
KeysTracked == FlagMeansDown /\ EscapeIsFresh /\ RebootIsChord
=============================================================================
