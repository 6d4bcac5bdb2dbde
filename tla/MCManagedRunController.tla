----------------------- MODULE MCManagedRunController -----------------------
(* Instantiates ManagedRunController for TLC.  Runs are interchangeable   *)
(* model values, so safety runs may use symmetry over them.               *)
EXTENDS ManagedRunController, TLC

MCRunSymmetry == Permutations(Runs)
====
