---------------------------- MODULE MCSubserver -----------------------------
\* Subserver with interchangeable clients.
EXTENDS Subserver, TLC

Symmetry == Permutations(Address) \union Permutations(Name)

=============================================================================
