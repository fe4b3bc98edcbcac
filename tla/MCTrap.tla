------------------------------- MODULE MCTrap -------------------------------
(***************************************************************************)
(* The way from a trap back to the program, model-checked together: the    *)
(* registers' way through the kernel (TrapFrame), a page fault's way       *)
(* through the stacks of the program's own handler (PgFault), and the      *)
(* handler of fork() and its copies (ForkCow).  A behaviour runs one of    *)
(* the three and leaves the others at their start.                         *)
(***************************************************************************)
EXTENDS TrapFrame, PgFault, ForkCow, TLC

VARIABLE part  \* the module that runs

varsMC == <<part, vars, varsUpcall, varsFork>>

ASSUME TrapAssumption == TrapFrameAssumption /\ PgFaultAssumption /\ ForkCowAssumption

\* A program's registers do not tell processors apart.
CpuSymmetry == Permutations(Cpus)

-----------------------------------------------------------------------------
InitMC ==
  /\ Init /\ InitUpcall /\ InitFork
  /\ part \in {"frame", "upcall", "fork"}
  /\ part # "fork" => \A n \in 1 .. N : pt[Root][n].perm = "W"

NextMC ==
  \/ part = "frame"  /\ Next /\ UNCHANGED <<part, varsUpcall, varsFork>>
  \/ part = "upcall" /\ NextUpcall /\ UNCHANGED <<part, vars, varsFork>>
  \/ part = "fork"   /\ NextFork /\ UNCHANGED <<part, vars, varsUpcall>>

SpecMC == InitMC /\ [][NextMC]_varsMC
=============================================================================
