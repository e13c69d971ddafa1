------------------------------ MODULE MCTerminal ------------------------------
(* Terminal on a small instance: two contacts, two names, two groups, and a
   history of two lines.  The look-ups are by any name, so contacts, names and
   groups may each be permuted. *)
EXTENDS Terminal, TLC

Sym == Permutations(Uid) \cup Permutations(Alias) \cup Permutations(Group)
=============================================================================
