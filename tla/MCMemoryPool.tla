----------------------------- MODULE MCMemoryPool ------------------------------
EXTENDS MemoryPool, TLC

CONSTANTS mdRead, mdWrite

MCThreads == {mdRead, mdWrite}
MCSymmetry == Permutations(MCThreads)
================================================================================
