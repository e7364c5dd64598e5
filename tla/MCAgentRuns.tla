----------------------------- MODULE MCAgentRuns -----------------------------
(* Small instances of AgentRuns: two or three runs of rules that open an     *)
(* issue or not, and ask for Copilot or not.                                 *)
EXTENDS AgentRuns, TLC

CONSTANTS f1, f2, f3

MCRuns == {f1, f2, f3}
MCTwoRuns == {f1, f2}
MCRateLimit == [r \in Rules |-> IF r = "analyze" THEN 2 ELSE IF r = "issue" THEN 1 ELSE 0]
MCSymmetry == Permutations(MCRuns)
MCTwoSymmetry == Permutations(MCTwoRuns)
=============================================================================
