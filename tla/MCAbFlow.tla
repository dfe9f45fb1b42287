------------------------------ MODULE MCAbFlow ------------------------------
EXTENDS AbFlow

\* Nothing depends on the history of the attempts, only AttemptBudget.
MCView == <<rpmbVars, misc, image, pc, call, flowVars, slot, ret, lost>>
=============================================================================
