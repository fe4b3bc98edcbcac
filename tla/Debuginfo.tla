----------------------------- MODULE Debuginfo ------------------------------
(***************************************************************************)
(* debuginfo_eip() (kern/kdebug.c): three searches of Kdebug, each inside  *)
(* the region that the one before it found, on the stabs of whole          *)
(* programs.  These are laid out the way the compiler and the assembler    *)
(* emit them: a source file has an N_SO at its start and one at its end; a *)
(* function has its N_FUN, an N_PSYM for each argument and N_SLINEs        *)
(* relative to it, with an N_SOL where the lines change file; an assembly  *)
(* file has N_SLINEs at absolute addresses and no N_FUN.  A name stands    *)
(* for the string up to its colon.                                         *)
(***************************************************************************)
EXTENDS Integers, Sequences, SequencesExt, FiniteSets, FiniteSetsExt

CONSTANTS
  BASE,       \* address of the first instruction
  SIZE,       \* bytes of a unit: a function, or an assembly file
  UNITS,      \* most units in a program
  Shapes      \* units: [asm, args: how many, lines: where lines start,
              \* included: the lines that are in an included file]

\* What the constants must satisfy.  Lines are more than a byte apart.
DebuginfoAssumption ==
  /\ BASE \in Nat \ {0} /\ SIZE \in Nat \ {0, 1} /\ UNITS \in Nat \ {0}
  /\ \A u \in Shapes :
       /\ 0 \in u.lines /\ u.lines \subseteq 0 .. SIZE - 1 /\ u.included \subseteq u.lines
       /\ \A i \in u.lines : i + 1 \notin u.lines
       /\ u.asm => u.args = 0 /\ u.included = {}

VARIABLES
  program, eip,
  stabs,      \* the program's table
  fails,      \* the check that does not hold, "none" if all do; all but
              \* "unterminated" are made for addresses below ULIM only
  strings,    \* "whole", or "short": the names lie past the string table's end
  want,       \* type of stab that is searched for
  lfile, rfile, lfun, rfun,
  info, ret, at,
  addr, goal, first, last, region_left, region_right, l, r, m, any_matches, search

callVars   == <<program, eip, stabs, fails, strings>>
searchVars == <<addr, goal, first, last, region_left, region_right, l, r, m, any_matches, search>>
vars       == <<callVars, want, lfile, rfile, lfun, rfun, info, ret, at, searchVars>>

-----------------------------------------------------------------------------
(* Programs and their stabs.  Unit k takes the addresses from Start(k).    *)
-----------------------------------------------------------------------------
Start(k)    == BASE + SIZE * (k - 1)
Line(k, i)  == 10 * k + i
Unknown     == <<"<unknown>">>
Included    == <<"included">>
Source(f)   == <<"file", f>>
Fun(k)      == <<"function", k>>

Unit == [file : 1 .. UNITS, shape : Shapes]

\* Units of a file follow each other; an assembly file is one unit.
Program == {p \in BoundedSeq(Unit, UNITS) :
              /\ p # <<>> /\ p[1].file = 1
              /\ \A k \in 2 .. Len(p) :
                   \/ p[k].file = p[k - 1].file + 1
                   \/ p[k].file = p[k - 1].file /\ ~p[k].shape.asm /\ ~p[k - 1].shape.asm}

Stab(type, value, desc, name) == [type |-> type, value |-> value, desc |-> desc, name |-> name]

Opens(p, k)  == k = 1 \/ p[k - 1].file # p[k].file
Closes(p, k) == k = Len(p) \/ p[k + 1].file # p[k].file

LineFile(u, i) == IF i \in u.shape.included THEN Included ELSE Source(u.file)

\* The file of the line emitted before line i of unit k
FileBefore(p, k, i) ==
  LET earlier == {j \in p[k].shape.lines : j < i}
  IN  IF earlier # {} THEN LineFile(p[k], Max(earlier))
      ELSE IF Opens(p, k) THEN Source(p[k].file)
      ELSE LineFile(p[k - 1], Max(p[k - 1].shape.lines))

LineStabs(p, k, i) ==
  (IF LineFile(p[k], i) = FileBefore(p, k, i) THEN <<>>
   ELSE <<Stab("SOL", Start(k) + i, 0, LineFile(p[k], i))>>)
  \o <<Stab("SLINE", IF p[k].shape.asm THEN Start(k) + i ELSE i, Line(k, i), Unknown)>>

UnitStabs(p, k) ==
  LET head == <<Stab("SO", Start(k), 0, Source(p[k].file))>>
      fun  == <<Stab("FUN", Start(k), 0, Fun(k))>> \o [a \in 1 .. p[k].shape.args |-> Stab("PSYM", 4 + 4 * a, 0, <<"arg">>)]
      end  == <<Stab("SO", Start(k + 1), 0, <<"">>)>>
  IN  (IF Opens(p, k) THEN head ELSE <<>>)
      \o (IF p[k].shape.asm THEN <<>> ELSE fun)
      \o FlattenSeq([j \in 1 .. Cardinality(p[k].shape.lines) |-> LineStabs(p, k, SetToSortSeq(p[k].shape.lines, <)[j])])
      \o (IF Closes(p, k) THEN end ELSE <<>>)

\* The table; stab 0 is the linker's header.
Table(p) ==
  LET s == <<Stab("UNDF", 0, 0, Unknown)>> \o FlattenSeq([k \in 1 .. Len(p) |-> UnitStabs(p, k)])
  IN  [j \in 0 .. Len(s) - 1 |-> s[j + 1]]

nstabs == Cardinality(DOMAIN stabs)

K == INSTANCE Kdebug WITH
       N <- 1, Values <- {}, Targets <- {},
       stabs <- [j \in DOMAIN stabs |-> [match |-> stabs[j].type = want, value |-> stabs[j].value]]

-----------------------------------------------------------------------------
NoInfo(a) == [file |-> Unknown, line |-> 0, fn_name |-> Unknown, fn_addr |-> a, narg |-> 0]

Init ==
  /\ program \in Program
  /\ eip \in BASE - 1 .. Start(Len(program) + 1) - 1
  /\ stabs = Table(program)
  /\ fails \in {"none", "usd", "stabstr", "stabs", "unterminated"}
  /\ strings \in IF fails = "none" THEN {"whole", "short"} ELSE {"whole"}
  /\ want = "SO"
  /\ lfile = 0 /\ rfile = 0 /\ lfun = 0 /\ rfun = 0
  /\ info = NoInfo(eip) /\ ret = 0 /\ at = "begin"
  /\ addr = 0 /\ goal = 0 /\ first = 0 /\ last = 0 /\ region_left = 0 /\ region_right = 0
  /\ l = 0 /\ r = 0 /\ m = 0 /\ any_matches = FALSE /\ search = "done"

\* stab_binsearch(stabs, &left, &right, type, a) is called.
Search(type, left, right, a) ==
  /\ want' = type
  /\ addr' = a /\ goal' = a
  /\ first' = left /\ last' = right /\ region_left' = left /\ region_right' = right
  /\ l' = left /\ r' = right /\ m' = (left + right) \div 2 /\ any_matches' = FALSE /\ search' = "loop"

Return(code) == at' = "done" /\ ret' = code /\ UNCHANGED <<want, searchVars>>

\* The four checks, then the file.
FindFile ==
  /\ at = "begin"
  /\ \/ fails # "none" /\ Return(-1)
     \/ fails = "none" /\ Search("SO", 0, nstabs - 1, eip) /\ at' = "file" /\ UNCHANGED ret
  /\ UNCHANGED <<callVars, lfile, rfile, lfun, rfun, info>>

\* One turn of the loop of stab_binsearch(), on its own copy of the address
Binsearch == UNCHANGED <<callVars, want, lfile, rfile, lfun, rfun, info, ret, at>> /\ K!NextSearch

Found(what) == at = what /\ search = "done"

FindFun ==
  /\ Found("file")
  /\ lfile' = region_left /\ rfile' = region_right
  /\ \/ region_left = 0 /\ Return(-1)
     \/ region_left # 0 /\ Search("FUN", region_left, region_right, eip) /\ at' = "fun" /\ UNCHANGED ret
  /\ UNCHANGED <<callVars, lfun, rfun, info>>

\* The name of stab j, if it is within the string table
NameAt(j, otherwise) == IF strings = "whole" THEN stabs[j].name ELSE otherwise

\* Mutant: the lines of a function are looked for at the instruction's address.
FindLine_Absolute ==
  /\ Found("fun")
  /\ lfun' = region_left /\ rfun' = region_right
  /\ \/ /\ region_left <= region_right
        /\ info' = [info EXCEPT !.fn_name = NameAt(region_left, @), !.fn_addr = stabs[region_left].value]
        /\ Search("SLINE", region_left, region_right, eip)
     \/ /\ region_left > region_right
        /\ info' = [info EXCEPT !.fn_addr = eip]
        /\ Search("SLINE", lfile, rfile, eip)
  /\ at' = "line"
  /\ UNCHANGED <<callVars, lfile, rfile, ret>>

FindLine ==
  /\ Found("fun")
  /\ lfun' = region_left /\ rfun' = region_right
  /\ \/ /\ region_left <= region_right
        /\ info' = [info EXCEPT !.fn_name = NameAt(region_left, @), !.fn_addr = stabs[region_left].value]
        /\ Search("SLINE", region_left, region_right, eip - stabs[region_left].value)
     \/ /\ region_left > region_right
        /\ info' = [info EXCEPT !.fn_addr = eip]
        /\ Search("SLINE", lfile, rfile, eip)
  /\ at' = "line"
  /\ UNCHANGED <<callVars, lfile, rfile, ret>>

\* Back from the line to an N_SOL, or to an N_SO with an address
FileStabs(lline) ==
  {j \in lfile .. lline :
     \/ stabs[j].type = "SOL"
     \/ stabs[j].type = "SO" /\ stabs[j].value # 0}

\* The N_PSYMs that follow the N_FUN
narg ==
  IF lfun < rfun
  THEN Max({n \in 0 .. rfun - lfun - 1 : \A j \in lfun + 1 .. lfun + n : stabs[j].type = "PSYM"})
  ELSE 0

Finish ==
  /\ Found("line")
  /\ LET lline == region_left
     IN  info' = [info EXCEPT
                    !.line = stabs[lline].desc,
                    !.file = IF FileStabs(lline) = {} THEN @ ELSE NameAt(Max(FileStabs(lline)), @),
                    !.narg = narg]
  /\ Return(0)
  /\ UNCHANGED <<callVars, lfile, rfile, lfun, rfun>>

Next == FindFile \/ Binsearch \/ FindFun \/ FindLine \/ Finish

Spec == Init /\ [][Next]_vars

-----------------------------------------------------------------------------
\* What the program says of eip.
Expected ==
  LET k == 1 + (eip - BASE) \div SIZE
      u == program[k]
      i == Max({j \in u.shape.lines : Start(k) + j <= eip})
  IN  [file    |-> IF strings = "whole" THEN LineFile(u, i) ELSE Unknown,
       line    |-> Line(k, i),
       fn_name |-> IF u.shape.asm \/ strings = "short" THEN Unknown ELSE Fun(k),
       fn_addr |-> IF u.shape.asm THEN eip ELSE Start(k),
       narg    |-> u.shape.args]

\* debuginfo_eip() finds the file, line, function and number of arguments that
\* the program has at the instruction, also where several N_SOs have one address,
\* where lines come from an included file and in an assembly file.  It returns -1
\* for an address before all files, and when a check of the table fails.
InfoRight ==
  at = "done" =>
    IF fails # "none" \/ eip < BASE THEN ret = -1 ELSE ret = 0 /\ info = Expected
=============================================================================
