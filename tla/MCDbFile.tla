------------------------------ MODULE MCDbFile ------------------------------
(***************************************************************************)
(* DbFile for TLC: clients, questions and inodes are interchangeable.      *)
(***************************************************************************)
EXTENDS DbFile, TLC

Interchangeable ==
  Permutations(Clients) \cup Permutations(Questions) \cup Permutations(Inodes)
=============================================================================
