------------------------------ MODULE MCLedger ------------------------------
EXTENDS Ledger, TLC

CONSTANTS x, y

\* One and two units from account y to account x.
MCNets == {(x :> n) @@ (y :> (0 - n)) : n \in {1, 2}}
=============================================================================
