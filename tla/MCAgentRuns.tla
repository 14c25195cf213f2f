----------------------------- MODULE MCAgentRuns -----------------------------
EXTENDS AgentRuns, TLC

Symmetry == Permutations(Runs) \cup Permutations(Calls)
=============================================================================
