----------------------------- MODULE MCLibrary ------------------------------
(***************************************************************************)
(* Functions that loop over their arguments, model-checked together:       *)
(* vprintfmt() (PrintFmt), vsnprintf() (Snprintf), memmove(), memset() and *)
(* strlcpy() (MemMove), the other string functions (Strings), strtol()     *)
(* (Strtol), stab_binsearch() (Kdebug), debuginfo_eip() (Debuginfo),       *)
(* user_mem_check() (UserMem) and the kernel monitor's command line        *)
(* (Monitor).  A behaviour is a call of one of them, or the monitor's      *)
(* loop; the others stay at the start of a call.                           *)
(***************************************************************************)
EXTENDS UserMem, Kdebug

CONSTANTS
  W, Alphabet, MAXLEN, MAXERROR,
  SIZE, Chars, StrChars,
  Letters, BUFFER,
  Texts, Bases,
  UNITS,
  Symbols, LENGTH, MAXARGS

VARIABLES
  part,  \* the function that is called
  fmt, num, str, pos, fmt_pc, padc, width, precision, lflag, altflag, out,
  text, buf_n, null, bytes, buf, ebuf, cnt, buf_ret, buf_pc,
  op, dst, src, n, before, mem, d, s, left, unit, step, mem_pc,
  call, str_a, str_b, str_n, str_c, str_before, str_mem, str_p, str_q, str_left, str_ret, str_pc,
  number, base0, num_s, neg, base, val, num_at,
  program, eip, table, fails, strings, want, lfile, rfile, lfun, rfun, info, ret, at,
  info_addr, info_goal, info_first, info_last, info_left, info_right, info_l, info_r, info_m, info_any, info_search,
  line, cells, ptr, argc, argv, run, said, mon

fmtVars  == <<fmt, num, str, pos, fmt_pc, padc, width, precision, lflag, altflag, out>>
bufVars  == <<text, buf_n, null, bytes, buf, ebuf, cnt, buf_ret, buf_pc>>
memVars  == <<op, dst, src, n, before, mem, d, s, left, unit, step, mem_pc>>
strVars  == <<call, str_a, str_b, str_n, str_c, str_before, str_mem, str_p, str_q, str_left, str_ret, str_pc>>
numVars  == <<number, base0, num_s, neg, base, val, num_at>>
seekVars == <<info_addr, info_goal, info_first, info_last, info_left, info_right, info_l, info_r, info_m, info_any, info_search>>
infoVars == <<program, eip, table, fails, strings, want, lfile, rfile, lfun, rfun, info, ret, at, seekVars>>
monVars  == <<line, cells, ptr, argc, argv, run, said, mon>>
vars     == <<part, fmtVars, bufVars, memVars, strVars, numVars, varsSearch, infoVars, varsCheck, monVars>>

\* An assembly file and two functions
Shapes ==
  {[asm |-> TRUE,  args |-> 0, lines |-> {0, 2}, included |-> {}],
   [asm |-> FALSE, args |-> 0, lines |-> {0, 2}, included |-> {2}],
   [asm |-> FALSE, args |-> 2, lines |-> {0, 2}, included |-> {0}]}

F == INSTANCE PrintFmt WITH Nums <- {-16, -7, 0, 15}, Strs <- {<<"NULL">>, <<"q", "BEL">>}, pc <- fmt_pc
B == INSTANCE Snprintf WITH LENGTH <- BUFFER - 1, n <- buf_n, ret <- buf_ret, pc <- buf_pc
M == INSTANCE MemMove  WITH WORD <- 2, pc <- mem_pc
S == INSTANCE Strings  WITH
       SIZE <- SIZE - 2, Chars <- StrChars, a <- str_a, b <- str_b, n <- str_n, c <- str_c,
       before <- str_before, mem <- str_mem, p <- str_p, q <- str_q, left <- str_left,
       ret <- str_ret, pc <- str_pc
T == INSTANCE Strtol   WITH LENGTH <- MAXLEN, line <- number, s <- num_s, at <- num_at
D == INSTANCE Debuginfo WITH BASE <- 20, SIZE <- 4, stabs <- table,
       addr <- info_addr, goal <- info_goal, first <- info_first, last <- info_last,
       region_left <- info_left, region_right <- info_right, l <- info_l, r <- info_r, m <- info_m,
       any_matches <- info_any, search <- info_search
C == INSTANCE Monitor  WITH commands <- <<<<"h">>, <<"k", "h">>>>

ASSUME LibraryAssumption ==
  /\ M!MemMoveAssumption /\ KdebugAssumption /\ D!DebuginfoAssumption
  /\ UserMemAssumption /\ C!MonitorAssumption

-----------------------------------------------------------------------------
NoStabs == [j \in 0 .. N - 1 |-> [match |-> FALSE, value |-> 1]]

\* A function that is not called, before one call of it.
FIdle == fmt = <<"%", "NUL">> /\ num = 0 /\ str = <<"NULL">> /\ F!Init
BIdle == text = <<>> /\ buf_n = 0 /\ null = TRUE /\ B!Init
MIdle == op = "memset" /\ dst = 0 /\ n = 0 /\ M!Init
SIdle == call = "strlen" /\ str_a = 1 /\ str_before = [x \in S!Addr |-> 0] /\ S!Init
TIdle == number = <<>> /\ base0 = 10 /\ T!Init
KIdle == stabs = NoStabs /\ goal = 1 /\ first = 0 /\ last = 0 /\ InitSearch
UIdle == allowed = {} /\ va = 0 /\ len = 0 /\ InitCheck
DIdle ==
  /\ program = <<>> /\ eip = 0 /\ table = <<>> /\ fails = "none" /\ strings = "whole" /\ want = "SO"
  /\ lfile = 0 /\ rfile = 0 /\ lfun = 0 /\ rfun = 0 /\ info = D!NoInfo(0) /\ ret = 0 /\ at = "idle"
  /\ info_addr = 0 /\ info_goal = 0 /\ info_first = 0 /\ info_last = 0 /\ info_left = 0 /\ info_right = 0
  /\ info_l = 0 /\ info_r = 0 /\ info_m = 0 /\ info_any = FALSE /\ info_search = "done"

Init ==
  \/ part = "printfmt"  /\ F!Init /\ BIdle /\ MIdle /\ SIdle /\ TIdle /\ KIdle /\ DIdle /\ UIdle /\ C!Init
  \/ part = "snprintf"  /\ FIdle /\ B!Init /\ MIdle /\ SIdle /\ TIdle /\ KIdle /\ DIdle /\ UIdle /\ C!Init
  \/ part = "memmove"   /\ FIdle /\ BIdle /\ M!Init /\ SIdle /\ TIdle /\ KIdle /\ DIdle /\ UIdle /\ C!Init
  \/ part = "string"    /\ FIdle /\ BIdle /\ MIdle /\ S!Init /\ TIdle /\ KIdle /\ DIdle /\ UIdle /\ C!Init
  \/ part = "strtol"    /\ FIdle /\ BIdle /\ MIdle /\ SIdle /\ T!Init /\ KIdle /\ DIdle /\ UIdle /\ C!Init
  \/ part = "binsearch" /\ FIdle /\ BIdle /\ MIdle /\ SIdle /\ TIdle /\ InitSearch /\ DIdle /\ UIdle /\ C!Init
  \/ part = "debuginfo" /\ FIdle /\ BIdle /\ MIdle /\ SIdle /\ TIdle /\ KIdle /\ D!Init /\ UIdle /\ C!Init
  \/ part = "user_mem"  /\ FIdle /\ BIdle /\ MIdle /\ SIdle /\ TIdle /\ KIdle /\ DIdle /\ InitCheck /\ C!Init
  \/ part = "monitor"   /\ FIdle /\ BIdle /\ MIdle /\ SIdle /\ TIdle /\ KIdle /\ DIdle /\ UIdle /\ C!Init

Next ==
  \/ part = "printfmt"  /\ F!Next /\ UNCHANGED <<part, bufVars, memVars, strVars, numVars, varsSearch, infoVars, varsCheck, monVars>>
  \/ part = "snprintf"  /\ B!Next /\ UNCHANGED <<part, fmtVars, memVars, strVars, numVars, varsSearch, infoVars, varsCheck, monVars>>
  \/ part = "memmove"   /\ M!Next /\ UNCHANGED <<part, fmtVars, bufVars, strVars, numVars, varsSearch, infoVars, varsCheck, monVars>>
  \/ part = "string"    /\ S!Next /\ UNCHANGED <<part, fmtVars, bufVars, memVars, numVars, varsSearch, infoVars, varsCheck, monVars>>
  \/ part = "strtol"    /\ T!Next /\ UNCHANGED <<part, fmtVars, bufVars, memVars, strVars, varsSearch, infoVars, varsCheck, monVars>>
  \/ part = "binsearch" /\ NextSearch /\ UNCHANGED <<part, fmtVars, bufVars, memVars, strVars, numVars, infoVars, varsCheck, monVars>>
  \/ part = "debuginfo" /\ D!Next /\ UNCHANGED <<part, fmtVars, bufVars, memVars, strVars, numVars, varsSearch, varsCheck, monVars>>
  \/ part = "user_mem"  /\ NextCheck /\ UNCHANGED <<part, fmtVars, bufVars, memVars, strVars, numVars, varsSearch, infoVars, monVars>>
  \/ part = "monitor"   /\ C!Next /\ UNCHANGED <<part, fmtVars, bufVars, memVars, strVars, numVars, varsSearch, infoVars, varsCheck>>

\* A function that can take a step takes it.
FairSpec == Init /\ [][Next]_vars /\ WF_vars(Next)

-----------------------------------------------------------------------------
\* See PrintFmt: a printed number reads back as the argument.
ReadsBack == F!ReadsBack

\* See MemMove, Strings, Strtol, Snprintf, Monitor and Debuginfo: the string functions
\* do what they promise to their destination, however the regions overlap, and nothing
\* to the rest of memory, and return what they are to; a buffer gets as much of a text
\* as fits, with its end; the monitor's command line is cut into its words in place;
\* debuginfo_eip()'s three searches find the file, the function and the line.
ResultsRight ==
  /\ M!RegionsRight /\ S!StringsRight /\ T!ParsesNumber /\ B!BufferRight /\ C!CommandRight
  /\ part = "debuginfo" => D!InfoRight

Returned ==
  CASE part = "printfmt"  -> fmt_pc = "done"
    [] part = "snprintf"  -> buf_pc = "done"
    [] part = "memmove"   -> mem_pc = "done"
    [] part = "string"    -> str_pc = "done"
    [] part = "strtol"    -> num_at = "done"
    [] part = "binsearch" -> search = "done"
    [] part = "debuginfo" -> at = "done"
    [] part = "user_mem"  -> result = "ok" \/ env = "destroyed"
    [] part = "monitor"   -> mon = "prompt"

\* Every call returns: vprintfmt(), which goes back in the format after an unknown
\* conversion, the string functions, stab_binsearch(), which moves the address it
\* looks for, and user_mem_check(), after which a bad environment is destroyed;
\* and the monitor always comes back to its prompt.
CallsReturn == []<>Returned
=============================================================================
