------------------------------ MODULE UserMem -------------------------------
(***************************************************************************)
(* user_mem_check() (kern/pmap.c): may an environment access the addresses *)
(* va .. va+len-1?  sys_cputs() and page_fault_handler() ask through       *)
(* user_mem_assert(), which destroys the environment if the answer is no.  *)
(*                                                                         *)
(* Addresses are machine words: sums are taken modulo WORD (2^32).  What   *)
(* pgdir_walk() and the permission test say of a page is the set "allowed" *)
(* of page numbers.                                                        *)
(***************************************************************************)
EXTENDS Naturals

CONSTANTS
  WORD,    \* number of addresses
  PGSIZE,  \* bytes in a page
  ULIM     \* first address that no environment may access

\* What the constants must satisfy.
UserMemAssumption ==
  /\ PGSIZE \in Nat \ {0}
  /\ WORD \in Nat /\ WORD % PGSIZE = 0
  /\ ULIM \in 0 .. WORD - 1 /\ ULIM % PGSIZE = 0

Addrs == 0 .. WORD - 1

VARIABLES
  allowed,              \* pages whose entries carry the permissions asked for
  va, len,              \* the arguments
  va_cnt, iterate_len,  \* the loop variables
  result,               \* "none" in the loop, then "ok" or "fault"
  user_mem_check_addr,  \* what the message names as the bad address
  env                   \* "alive", or "destroyed" by user_mem_assert()

varsCheck == <<allowed, va, len, va_cnt, iterate_len, result, user_mem_check_addr, env>>

Page(a)      == a \div PGSIZE
ROUNDDOWN(a) == a - (a % PGSIZE)
Pages        == {Page(a) : a \in Addrs}

\* The three reasons for the loop to give up at va_cnt: above ULIM, no page
\* table, permissions missing.
Rejected(a) == a >= ULIM \/ Page(a) \notin allowed

InitCheck ==
  /\ allowed \in SUBSET Pages
  /\ va \in Addrs
  /\ len \in Addrs
  /\ va_cnt = va
  /\ iterate_len = len
  /\ result = "none"
  /\ user_mem_check_addr = 0
  /\ env = "alive"

\* The address that is reported.
BadAddr == IF iterate_len = len THEN va ELSE ROUNDDOWN(va_cnt)

\* An iteration that gives up.
Fail ==
  /\ result = "none"
  /\ Rejected(va_cnt)
  /\ result' = "fault"
  /\ user_mem_check_addr' = BadAddr
  /\ UNCHANGED <<allowed, va, len, va_cnt, iterate_len, env>>

\* Mutant: the loop stops at a range's last full page.
Goes_Short(a) == a + PGSIZE < (va + len) % WORD

\* The condition of the do-while loop.
Goes(a) == a < (va + len) % WORD

\* What remains of iterate_len after an iteration.
Left(n) == IF n < PGSIZE THEN n ELSE n - PGSIZE

\* An iteration that accepts the page of va_cnt and moves on.
Accept ==
  /\ result = "none"
  /\ ~ Rejected(va_cnt)
  /\ va_cnt' = (va_cnt + (IF iterate_len < PGSIZE THEN iterate_len ELSE PGSIZE)) % WORD
  /\ iterate_len' = Left(iterate_len)
  /\ result' = IF Goes(va_cnt') THEN "none" ELSE "ok"
  /\ UNCHANGED <<allowed, va, len, user_mem_check_addr, env>>

\* user_mem_assert() acts on the answer.
Assert ==
  /\ result = "fault" /\ env = "alive"
  /\ env' = "destroyed"
  /\ UNCHANGED <<allowed, va, len, va_cnt, iterate_len, result, user_mem_check_addr>>

NextCheck == Fail \/ Accept \/ Assert

SpecCheck == InitCheck /\ [][NextCheck]_varsCheck

-----------------------------------------------------------------------------
\* Types.
TypeOKCheck ==
  /\ allowed \subseteq Pages
  /\ {va, len, va_cnt, iterate_len, user_mem_check_addr} \subseteq Addrs
  /\ result \in {"none", "ok", "fault"}
  /\ env \in {"alive", "destroyed"}

\* The range that was asked for, if it does not run past the last address.
Proper == va + len < WORD
Asked  == {a \in Addrs : va <= a /\ a < va + len}

\* "You must test every page that contains any of that range": the answer 0
\* means that every address of the range may be accessed.
RangeChecked ==
  result = "ok" => Proper /\ \A a \in Asked : ~ Rejected(a)

\* It does mean that for a range that starts on a page boundary, whatever its
\* length, and for one that stays inside one page.
AlignedRangeChecked ==
  result = "ok" /\ Proper /\ (va % PGSIZE = 0 \/ (len > 0 /\ Page(va) = Page(va + len - 1))) =>
    \A a \in Asked : ~ Rejected(a)

\* "If there is an error, set the 'user_mem_check_addr' variable to the first
\* erroneous virtual address": the address reported is bad, lies in the range
\* (or is va, for an empty range), and everything before it is good.
FirstBadReported ==
  result = "fault" /\ Proper =>
    /\ Rejected(user_mem_check_addr)
    /\ user_mem_check_addr \in Asked \cup {va}
    /\ \A a \in Asked : a < user_mem_check_addr => ~ Rejected(a)

\* user_mem_check() answers right, for the ranges of AlignedRangeChecked if the
\* answer is yes, and for all ranges if it is no.
AnswerRight == AlignedRangeChecked /\ FirstBadReported
=============================================================================
