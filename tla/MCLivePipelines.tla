----------------------------- MODULE MCLivePipelines -----------------------------
EXTENDS LivePipelines, TLC
Symmetry == Permutations(Sockets) \cup Permutations(Speakers)
================================================================================
