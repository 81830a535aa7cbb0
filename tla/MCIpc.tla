------------------------------- MODULE MCIpc -------------------------------
(***************************************************************************)
(* Small instances of modules Ipc and IpcRefinement for TLC.               *)
(***************************************************************************)
EXTENDS IpcRefinement

(* No property tells one process, or one body, from another.               *)
Symmetry == Permutations(Proc) \cup Permutations(Body)

=============================================================================
