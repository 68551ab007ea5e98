--------------------------- MODULE SupervisorPolicy ---------------------------
(***************************************************************************)
(* The supervisor's routing decision: what the decision model may answer,  *)
(* how the engine normalises the answer, and what the hard-coded policy    *)
(* lets the service do with it.  Only the three fields the control flow    *)
(* branches on are kept; the wording of replies, questions and updates is  *)
(* left out.  "" is a field the model did not fill in and "other" is any   *)
(* string the code does not know.                                          *)
(***************************************************************************)
Classifications == {"plan_decision", "execution_approval", "progress_update", "other"}
ReplyPolicies   == {"", "auto_continue", "ask_user", "other"}

Decision == [classification : Classifications,
             shouldReply    : BOOLEAN,
             policy         : ReplyPolicies]

(* An empty reply policy gets the default of its classification, and an    *)
(* execution approval always replies.                                      *)
NormalizeDecision(d) ==
  CASE d.classification = "execution_approval" ->
         [d EXCEPT !.shouldReply = TRUE,
                   !.policy = IF @ = "" THEN "auto_continue" ELSE @]
    [] d.classification = "plan_decision" ->
         [d EXCEPT !.policy = IF @ = "" THEN "ask_user" ELSE @]
    [] OTHER -> d

(* The decisions a handler can see: ModelDecisionEngine returns no other.  *)
NormalDecisions == {NormalizeDecision(d) : d \in Decision}

AutoContinues(d) == d.shouldReply /\ d.policy = "auto_continue"

(* ApplySupervisorPolicy for a request the task points to and that is      *)
(* still pending.  The two flags are never both set: auto_continue and     *)
(* ask_user are different policies.                                        *)
AllowReply(current, d) ==
  current /\ d.classification = "execution_approval" /\ AutoContinues(d)

(* What handlePendingRequest does: a request that may not be answered is   *)
(* escalated, also when the policy said neither.                           *)
RequestVerdict(current, d) ==
  IF AllowReply(current, d) THEN "reply" ELSE "escalate"

(* What handleTurnCompleted does: an unknown classification is turned into *)
(* a plan decision that asks the user; then the reply policy decides.      *)
TurnVerdict(d) ==
  IF d.classification \notin {"plan_decision", "execution_approval"} THEN "escalate"
  ELSE IF AutoContinues(d) THEN "reply"
  ELSE IF d.policy = "ask_user" THEN "escalate"
  ELSE "record"
===============================================================================
