-------------------------------- MODULE MCHub --------------------------------
EXTENDS Hub, TLC

\* Jobs that are all supervised, or all not, can be exchanged.
JobSymmetry == Permutations(Jobs)
=============================================================================
