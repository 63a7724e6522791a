------------------------------ MODULE MCStore ------------------------------
EXTENDS EntityStore

\* A bound on the search, not on the program: the entities that meet in a
\* behaviour are those of one of the Foci.
CONSTANT Foci
InFocus == \E f \in Foci : held \subseteq f
=============================================================================
