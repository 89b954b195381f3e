--------------------------- MODULE MCDerivedGraph ---------------------------
(* Small instances of DerivedGraph for TLC. *)
EXTENDS DerivedGraph, TLC

CONSTANTS project, projectForm, fact

\* "atlas" and "atlas-project" are forms of one name; "fact" is a name of its own.
TwoForms == [e \in Entity |-> IF e = projectForm THEN project ELSE e]
\* No key is a form of another one: nothing to consolidate.
NoForms == [e \in Entity |-> e]

Symmetry == Permutations(Mem) \cup Permutations(Text)
=============================================================================
