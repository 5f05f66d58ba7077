----------------------------- MODULE ModelRouting ---------------------------
(***************************************************************************)
(* ModelRouter of llm/routing/router.py: a request is given the model with *)
(* the highest score, which depends on the capabilities that the rule of   *)
(* its task names, on limits of context, cost and latency, and on the      *)
(* latency that requests before it have reported.                          *)
(*                                                                         *)
(* Models are numbered in the order of the configuration.  Scores are      *)
(* doubled, tokens are counted in thousands, costs are in cents, prices in *)
(* cents per thousand tokens and latencies in units of 250 ms, so that all *)
(* of them are integers.                                                   *)
(***************************************************************************)
EXTENDS Integers, FiniteSets

CONSTANTS
  MrEnabled,   \* the models that are enabled
  MrModel,     \* model -> [caps : task -> Nat, context, input, output, base : Nat, local : BOOLEAN]
  MrRule,      \* task -> [maxCost, maxLatency : Nat], 0 where the rule has none
  MrRequest,   \* requests: [task, input, output, lowCost, lowLatency]
  MrMeasured,  \* latencies that are reported
  MrMaxReports \* bound: how many reports are made

ASSUME MrAssumption ==
  /\ MrEnabled \subseteq DOMAIN MrModel /\ IsFiniteSet(MrEnabled) /\ DOMAIN MrModel \subseteq Nat \ {0}
  /\ MrMeasured \subseteq Nat /\ MrMaxReports \in Nat
  /\ MrRule \in [DOMAIN MrRule -> [maxCost : Nat, maxLatency : Nat]]
  /\ \A m \in DOMAIN MrModel :
       MrModel[m] \in [caps : [DOMAIN MrRule -> Nat], context : Nat, input : Nat, output : Nat, base : Nat,
                        local : BOOLEAN]
  /\ MrRequest \subseteq [task : DOMAIN MrRule, input : Nat, output : Nat, lowCost : BOOLEAN, lowLatency : BOOLEAN]

VARIABLES
  mrFallback, \* enable_fallback
  mrLatency, \* latency_ms of each model; 0 and None are both "not measured"
  mrCounts,  \* requests_by_model
  mrResult   \* the last answer of route: request, selected_model (0: it raised), alternatives

mrVars == <<mrFallback, mrLatency, mrCounts, mrResult>>

MrNoResult ==
  [request |-> [task |-> "none", input |-> 0, output |-> 0, lowCost |-> FALSE, lowLatency |-> FALSE],
   selected |-> 0, alternatives |-> {}]

MrInit ==
  /\ mrFallback \in BOOLEAN
  /\ mrLatency = [m \in DOMAIN MrModel |-> 0]
  /\ mrCounts = [m \in DOMAIN MrModel |-> 0]
  /\ mrResult = MrNoResult

\* estimate_cost.
MrCost(m, r) == r.input * MrModel[m].input + r.output * MrModel[m].output

\* estimate_latency: what was measured last, or half a millisecond for every token of
\* the answer above the base of the model.
MrEstimate(m, r) == IF mrLatency[m] # 0 THEN mrLatency[m] ELSE MrModel[m].base + 2 * r.output

MrBonus(x) == IF x > 0 THEN x ELSE 0

\* score_model, without the limits that rule a model out.
MrScore(m, r) ==
  LET rule == MrRule[r.task] IN
  20 * MrModel[m].caps[r.task] + 10
    + (IF r.lowCost \/ rule.maxCost # 0 THEN MrBonus(20 - 2 * MrCost(m, r)) ELSE 0)
    + (IF r.lowLatency \/ rule.maxLatency # 0 THEN MrBonus(20 - MrEstimate(m, r)) ELSE 0)
    + (IF MrModel[m].local THEN 4 ELSE 0)

\* The limits that do not depend on what was measured.
MrFits(m, r) ==
  /\ MrModel[m].context >= r.input
  /\ MrRule[r.task].maxCost # 0 => MrCost(m, r) <= MrRule[r.task].maxCost

MrCanServe(m, r) ==
  MrFits(m, r) /\ (MrRule[r.task].maxLatency # 0 => MrEstimate(m, r) <= MrRule[r.task].maxLatency)

MrScored(r) == {m \in MrEnabled : MrCanServe(m, r)}

\* The order in which sort(reverse=True), which is stable, leaves the models.
MrBefore(m, n, r) == MrScore(m, r) > MrScore(n, r) \/ (MrScore(m, r) = MrScore(n, r) /\ m < n)

\* What is selected: the best of those that can serve the request; without any the
\* first model there is, if fallback is enabled; or route raises.
MrSelected(r) ==
  IF MrScored(r) # {} THEN CHOOSE m \in MrScored(r) : \A n \in MrScored(r) \ {m} : MrBefore(m, n, r)
  ELSE IF mrFallback /\ MrEnabled # {} THEN CHOOSE m \in MrEnabled : \A n \in MrEnabled : m <= n
  ELSE 0

\* The next three.
MrAlternatives(r) ==
  {m \in MrScored(r) : Cardinality({n \in MrScored(r) : MrBefore(n, m, r)}) \in 1..3}

MrRoute(r) ==
  /\ mrResult' = [request |-> r, selected |-> MrSelected(r), alternatives |-> MrAlternatives(r)]
  /\ UNCHANGED <<mrFallback, mrLatency, mrCounts>>

\* record_request: the latency of the last request is all that is kept of it for
\* routing.
MrRecord(m, latency) ==
  /\ mrCounts[m] < MrMaxReports
  /\ mrLatency' = [mrLatency EXCEPT ![m] = latency]
  /\ mrCounts' = [mrCounts EXCEPT ![m] = @ + 1]
  /\ UNCHANGED <<mrFallback, mrResult>>

MrNext ==
  \/ \E r \in MrRequest : MrRoute(r)
  \/ \E m \in DOMAIN MrModel, latency \in MrMeasured : MrRecord(m, latency)
-----------------------------------------------------------------------------
MrTypeOK ==
  /\ mrFallback \in BOOLEAN
  /\ mrLatency \in [DOMAIN MrModel -> MrMeasured \cup {0}]
  /\ mrCounts \in [DOMAIN MrModel -> 0..MrMaxReports]
  /\ mrResult.selected \in MrEnabled \cup {0}
  /\ mrResult.alternatives \subseteq MrEnabled

\* Of the limits of a request, context and cost are kept by every alternative, and by
\* the selected model when there is an alternative.  (A limit of latency is kept as of
\* the measurements of that moment.)  A selected model that does not keep them is the
\* fallback, which is subject to none: then fallback is enabled and, if the rule has no
\* limit of latency, no model keeps them.  route raises only when fallback is disabled
\* or no model is enabled.
MrSound ==
  mrResult # MrNoResult =>
    LET r == mrResult.request
        s == mrResult.selected
    IN
    /\ \A m \in mrResult.alternatives : MrFits(m, r) /\ MrFits(s, r)
    /\ s \notin mrResult.alternatives
    /\ Cardinality(mrResult.alternatives) <= 3
    /\ s # 0 /\ ~MrFits(s, r) =>
         mrFallback /\ (MrRule[r.task].maxLatency = 0 => \A m \in MrEnabled : ~MrFits(m, r))
    /\ s = 0 => ~mrFallback \/ MrEnabled = {}
=============================================================================
