-------------------------- MODULE MCAccountPipeline --------------------------
EXTENDS AccountPipeline, TLC

Symmetric == Permutations(Accounts) \cup Permutations(Workers)
=============================================================================
