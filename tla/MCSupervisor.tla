---------------------------- MODULE MCSupervisor ----------------------------
(***************************************************************************)
(* Instances of Supervisor for TLC: two executions that share an agent;    *)
(* in the first, the second task depends on the first one.                 *)
(***************************************************************************)
EXTENDS Supervisor, TLC

CONSTANTS x1, x2, t1, t2, t3, a1

MCExecOf  == (t1 :> x1) @@ (t2 :> x1) @@ (t3 :> x2)
MCAgentOf == (t1 :> a1) @@ (t2 :> a1) @@ (t3 :> a1)
MCDeps    == (t1 :> {}) @@ (t2 :> {t1}) @@ (t3 :> {})
=============================================================================
