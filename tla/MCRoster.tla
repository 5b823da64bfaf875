------------------------------ MODULE MCRoster ------------------------------
(***************************************************************************)
(* Accounts and usernames are interchangeable.                             *)
(***************************************************************************)
EXTENDS Roster, TLC

Symmetry == Permutations(Accounts) \cup Permutations(Usernames)

\* Two requests at a time while two payloads are signed, one once it is three;
\* when the clock stops one fewer.
FewAtOnce ==
  Cardinality(visits) + Len(signed) <= IF clock = MaxTime THEN 3 ELSE 4
=============================================================================
