---------------------------- MODULE MCRenderCard ----------------------------
EXTENDS RenderCard, TLC

\* Slots are interchangeable.
Symmetry == Permutations(Slots)
=============================================================================
