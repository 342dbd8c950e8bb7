---------------------------- MODULE MCSharedDefs ----------------------------
EXTENDS SharedDefs, TLC

CONSTANTS c1, c2, c3

\* Two long names shorten to one form, which is also a component's own name.
Collide == [c \in Components |-> <<"A", 2>>]

Symmetry == Permutations(Places)
=============================================================================
