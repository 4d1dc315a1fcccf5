----------------------------- MODULE MCWorkflow -----------------------------
EXTENDS Workflow, TLC

CONSTANTS u1, u2, u3

\* Two steps that share an approver, one step, and no step at all.  An edit that
\* shortens the chain leaves a step that is open to everybody.
MCChains == {<<{u1, u2}, {u2, u3}>>, <<{u2}>>, <<>>}
=============================================================================
