----------------------------- MODULE Assistant -----------------------------
(***************************************************************************)
(* The proposals of the assistant (modules/assistant/src/router.ts), kept  *)
(* in a Map of the process, and the budget of the AI gateway               *)
(* (packages/ai/src/gateway.ts), kept in a ledger that every call reads    *)
(* before and after it.  Requests overlap at each await; the process dies  *)
(* and forgets.  One proposal, one budget.                                 *)
(***************************************************************************)
EXTENDS Naturals, FiniteSets

CONSTANTS
  Requests,      \* requests approve and execute under way
  Callers,       \* calls of the gateway with this budget under way
  Budget,        \* budget.maxCostMicros
  CallCost,      \* what a call costs at most
  MaxApprovals,  \* bound on approvals
  MaxRestarts    \* bound on restarts of the process

ASSUME AssistantAssumption ==
  /\ {CallCost, MaxApprovals, MaxRestarts} \subseteq Nat /\ Budget \in Nat \ {0}
  /\ IsFiniteSet(Callers)

VARIABLES
  proposal,    \* states.get("review-lead")
  request,     \* request -> next await
  approvals, executions,  \* history: times set to approved, to executed
  restarts,
  callPc,      \* call -> next await
  spent        \* ledger.totalCost

proposalVars == <<proposal, request, approvals, executions>>
budgetVars == <<callPc, spent>>
assistantVars == <<proposalVars, budgetVars, restarts>>

AssistantTypeOK ==
  /\ proposal \in {"approval_required", "approved", "executed"}
  /\ request \in [Requests -> {"idle", "policy", "auditApproved", "auditExecuted"}]
  /\ approvals \in 0..MaxApprovals /\ executions \in 0..MaxApprovals
  /\ callPc \in [Callers -> {"idle", "budget", "provider", "record", "check"}]
  /\ spent \in Nat /\ restarts \in 0..MaxRestarts

AssistantInit ==
  /\ proposal = "approval_required" /\ request = [r \in Requests |-> "idle"]
  /\ approvals = 0 /\ executions = 0
  /\ callPc = [c \in Callers |-> "idle"] /\ spent = 0 /\ restarts = 0

RequestTo(r, from, to) == request[r] = from /\ request' = [request EXCEPT ![r] = to]
CallTo(c, from, to) == callPc[c] = from /\ callPc' = [callPc EXCEPT ![c] = to]

-----------------------------------------------------------------------------
(* Proposals.                                                              *)

\* proposals.approve awaits the policy, whose answer it only returns.
AskPolicy(r) ==
  /\ RequestTo(r, "idle", "policy")
  /\ UNCHANGED <<proposal, approvals, executions, budgetVars, restarts>>

\* It approves whatever the state has become, an executed proposal too.
Approve(r) ==
  /\ approvals < MaxApprovals /\ approvals' = approvals + 1
  /\ RequestTo(r, "policy", "auditApproved")
  /\ proposal' = "approved"
  /\ UNCHANGED <<executions, budgetVars, restarts>>

\* The bug: the proposal stays approved while the audit entry is written.
ExecuteUnmarked(r) ==
  /\ proposal = "approved"
  /\ RequestTo(r, "idle", "auditExecuted")
  /\ executions' = executions + 1
  /\ UNCHANGED <<proposal, approvals, budgetVars, restarts>>

\* proposals.execute
Execute(r) ==
  /\ proposal = "approved"
  /\ RequestTo(r, "idle", "auditExecuted")
  /\ proposal' = "executed"
  /\ executions' = executions + 1
  /\ UNCHANGED <<approvals, budgetVars, restarts>>

\* The audit entry is written or fails: the proposal stays as it is.
AuditProposal(r) ==
  /\ RequestTo(r, "auditApproved", "idle") \/ RequestTo(r, "auditExecuted", "idle")
  /\ UNCHANGED <<proposal, approvals, executions, budgetVars, restarts>>

-----------------------------------------------------------------------------
(* The gateway: chat, vision, image and transcribe.                        *)

\* prepare: a call that needs a person, or whose prompt is not approved, ends
\* here.
Prepare(c, mode, approved) ==
  /\ mode # "human_required" /\ approved
  /\ CallTo(c, "idle", "budget")
  /\ UNCHANGED <<proposalVars, spent, restarts>>

\* The bug: the last call may begin at the limit.
AssertBudgetPassed(c) ==
  /\ IF spent > Budget THEN CallTo(c, "budget", "idle") ELSE CallTo(c, "budget", "provider")
  /\ UNCHANGED <<proposalVars, spent, restarts>>

AssertBudgetBefore(c) ==
  /\ IF spent >= Budget THEN CallTo(c, "budget", "idle") ELSE CallTo(c, "budget", "provider")
  /\ UNCHANGED <<proposalVars, spent, restarts>>

\* The provider answers, or throws and nothing is recorded.
CallProvider(c) ==
  /\ CallTo(c, "provider", "record") \/ CallTo(c, "provider", "idle")
  /\ UNCHANGED <<proposalVars, spent, restarts>>

\* finalize: the cost is recorded,
Record(c, cost) ==
  /\ CallTo(c, "record", "check")
  /\ spent' = spent + cost
  /\ UNCHANGED <<proposalVars, restarts>>

\* then the total decides whether the caller sees the answer or an error.
CheckAfter(c) ==
  /\ CallTo(c, "check", "idle")
  /\ UNCHANGED <<proposalVars, spent, restarts>>

-----------------------------------------------------------------------------

Restart ==
  /\ restarts < MaxRestarts /\ restarts' = restarts + 1
  /\ proposal' = "approval_required"
  /\ request' = [r \in Requests |-> "idle"] /\ callPc' = [c \in Callers |-> "idle"]
  /\ UNCHANGED <<approvals, executions, spent>>

AssistantNext ==
  \/ \E r \in Requests : AskPolicy(r) \/ Approve(r) \/ Execute(r) \/ AuditProposal(r)
  \/ \E c \in Callers :
       \/ \E mode \in {"automatic", "suggestion", "human_required"}, approved \in BOOLEAN :
            Prepare(c, mode, approved)
       \/ AssertBudgetBefore(c) \/ CallProvider(c) \/ CheckAfter(c)
       \/ \E cost \in 0..CallCost : Record(c, cost)
  \/ Restart

AssistantSpec == AssistantInit /\ [][AssistantNext]_assistantVars

-----------------------------------------------------------------------------
(* Properties.                                                             *)

\* A proposal is executed once for an approval at most, however the clicks of
\* several people overlap at the awaits and whenever the process restarts.
ExecutedOnce == executions <= approvals

\* Calls under way may pass the budget together, each having read the ledger
\* before the others recorded; but by no more than their own cost, as none
\* begins once the budget is used up.
InFlight == {c \in Callers : callPc[c] \in {"provider", "record"}}
WithinBudget ==
  spent + Cardinality(InFlight) * CallCost < Budget + Cardinality(Callers) * CallCost

\* Both limits of the assistant hold.
AssistantIsBounded == ExecutedOnce /\ WithinBudget
=============================================================================
