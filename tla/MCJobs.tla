------------------------------- MODULE MCJobs -------------------------------
EXTENDS Jobs

CONSTANTS j1, j2

\* j1 has a single attempt, j2 the retry that the backoff delays.
MCMaxAttempts == [j \in Job |-> IF j = j1 THEN 1 ELSE 2]
=============================================================================
