----------------------------- MODULE MCReleases -----------------------------
EXTENDS Releases, TLC

Symmetry == Permutations(Releases) \cup Permutations(Songs)
=============================================================================
