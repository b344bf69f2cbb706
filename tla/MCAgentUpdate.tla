--------------------------- MODULE MCAgentUpdate ---------------------------
(***************************************************************************)
(* Instances of AgentUpdate for TLC: the installed version is 1, three     *)
(* more versions have packages, and the goal states ask for any of them.   *)
(***************************************************************************)
EXTENDS AgentUpdate

Content(rsm, fromRsm, v, from) ==
    [rsm |-> rsm, fromRsm |-> fromRsm, version |-> v, from |-> from]

(* RSM asks to update to v, from any version.                              *)
Request(v, from) == Content("enabled", TRUE, v, from)

(* Every kind of goal state.                                               *)
AllContents ==
    {Request(1, None), Request(1, 2), Request(2, None), Request(4, None)}
    \cup {Content("enabled", FALSE, 2, None), Content("disabled", FALSE, 2, None),
          Content("unspecified", FALSE, 2, None), Content("incomplete", FALSE, 2, None),
          Content("noFamily", FALSE, 2, None)}

(* Requests of RSM, and leaving RSM.                                       *)
RsmContents ==
    {Request(v, from) : v \in {2, 3}, from \in {None, 3}}
    \cup {Content("disabled", FALSE, 2, None)}

============================================================================
