------------------------------ MODULE MCRetry ------------------------------
EXTENDS RetryInvariant, TLC

CallerSymmetry == Permutations(Callers)
============================================================================
