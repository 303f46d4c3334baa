------------------------------ MODULE MCAppDir ------------------------------
(* AppDir for TLC. *)
EXTENDS AppDir, TLC

\* Commands, users and passwords are interchangeable.
Symmetric == Permutations(Commands) \cup Permutations(Users) \cup Permutations(Passwords)
=============================================================================
