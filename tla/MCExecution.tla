---------------------------- MODULE MCExecution ----------------------------
EXTENDS ExecutionLifecycle, TLC

\* Officers are interchangeable; not used in the liveness runs.
Sym == Permutations(Officers)
====
