------------------------------ MODULE MCUsers -------------------------------
(* A bounded instance of Users for TLC: accounts administered from desks.  *)
EXTENDS Users, TLC

DesksAndPasswords == Permutations(Desks) \cup Permutations(Passwords)
=============================================================================
