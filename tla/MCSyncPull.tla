----------------------------- MODULE MCSyncPull -----------------------------
EXTENDS SyncPull, TLC

CONSTANTS r1, r2, r3, r4, expenses, leaves

OneDataset == [r \in Row |-> expenses]
TwoDatasets == [r \in Row |-> IF r \in {r1, r2} THEN expenses ELSE leaves]
=============================================================================
