------------------------------ MODULE MCAgents ------------------------------
(* Small instances of what acts by itself or for a user.  The users of all   *)
(* parts are the same two, whom each part may exchange.                      *)
EXTENDS Agents, TLC

CONSTANTS u1, u2, p1, p2, r1

MCUsers == {u1, u2}
Swap == Permutations(MCUsers) \cup Permutations({p1, p2})

\* Agents: two runs of either rule.  A run is dismissed, or loses one of its
\* own rows, only where it is alone; a work item is lost anywhere.
MCRateLimit == [r \in Rules |-> IF r = "analyze" THEN 2 ELSE 0]
Lonely == part = "agents" =>
    \A f, g \in Runs :
        /\ f # g
        /\ dismissal[f].at # "none" \/ \E w \in {"pending", "running", "outcome"} : <<f, w>> \in lost
        => pc[g] = "new"

\* Notifications: two checks and two posts, cooldowns of one and two ticks.
MCPosts == {p1, p2}
MCNotifyRules == {r1}
MCForms == {"create", "save", "toggle", "delete"}
MCConfs == {"short", "long"}
MCCooldownOf == [c \in MCConfs |-> IF c = "short" THEN 1 ELSE 2]

\* The helper: two requests of a chat.
Action(i, p, made, c) == [id |-> i, page |-> p, implemented |-> made, confirm |-> c]
Call(i, t, n) == [id |-> i, target |-> t, inner |-> n, fits |-> TRUE]
Delta(i, p) == [kind |-> "args", index |-> i, part |-> p]
Text == [kind |-> "text"]
Flush == [kind |-> "tool_calls"]
MCActions == {Action("nav", "/logs", TRUE, FALSE), Action("save", "/logs", TRUE, TRUE),
              Action("draw", "/dashboards", TRUE, FALSE)}
MCCalls == <<Call("nav", "none", "none"), Call("save", "none", "/dashboards")>>
MCPivot == Call("draw", "/dashboards", "none")
\* The two calls interleaved, with text between; after a flush a third, cut off.
MCStreams == {<<Delta(1, "head"), Delta(2, "head"), Delta(1, "tail"), Text, Delta(2, "tail"),
                Flush, Delta(1, "head")>>}
MCQuestions == {"injection", "ai_usage"}

\* MCP: a list of at most two keys, of three; one request in a window of two.

MCSpec == AgentInit /\ [][AgentNext /\ Lonely']_everything
=============================================================================
