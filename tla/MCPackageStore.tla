---------------------------- MODULE MCPackageStore ----------------------------
(* PackageStore on small instances: sets of model values and their symmetry. *)
EXTENDS PackageStore, TLC

AllCommands == {"import", "watch", "list", "withhold", "republish", "sample"}
AllFlags == {"replace", "stage", "sample", "force"}

\* Ids, and CLI processes, are interchangeable.
IdsSymmetry == Permutations(Pids)
IdsProcsSymmetry == IdsSymmetry \cup Permutations(Procs \ Server)
===============================================================================
