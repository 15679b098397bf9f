---------------------------- MODULE MCTaskExecution ----------------------------
EXTENDS TaskExecutionClaims, TLC

OneWrite == <<"write">>
ReadRead == <<"read", "read">>
ReadWriteBlocked == <<"read", "write", "blocked">>

Symmetry == Permutations(Workers) \union Permutations(Keys)
=============================================================================
