---------------------------- MODULE MCMcpServers ----------------------------
(***************************************************************************)
(* Instances of McpServers for TLC.                                        *)
(***************************************************************************)
EXTENDS McpServers, TLC

CONSTANTS s1, s2, t1, r1, r2

\* Two servers that list a tool of the same name, or one with a tool.
MCShared == [s \in Server |-> Tool]

\* One operates on a single server, the other on all of them; or one starts and
\* stops a server.
MCTwo == (r1 :> {"start", "add", "restart", "remove", "invoke"})
           @@ (r2 :> {"stop", "start_all", "shutdown"})
MCOne == [r \in Requester |-> {"start", "stop"}]

MCSymmetry == Permutations(Server) \cup Permutations(Client)
                \cup Permutations(Slot)
=============================================================================
