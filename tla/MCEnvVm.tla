------------------------------ MODULE MCEnvVm -------------------------------
(* An instance of EnvVm for TLC. *)
EXTENDS EnvVm, TLC

\* page_alloc() may return any free page.
PageSymmetry == Permutations(Pages)

\* read-write user pages
UserPerms == {{"U", "W"}}
=============================================================================
