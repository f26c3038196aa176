------------------------------- MODULE MCIntake -------------------------------
(***************************************************************************)
(* Instances of WebhookIntake for TLC: one delivery of any kind, with      *)
(* users who save, reset and delete; or two deliveries of one push.        *)
(***************************************************************************)
EXTENDS WebhookIntake

CONSTANTS r1, main, dev, none, t1, t2

VARIABLE pair

Push(b)    == [kind |-> "push", repo |-> r1, branch |-> b, directive |-> FALSE,
               decodes |-> TRUE]
Comment(b) == [kind |-> "comment", repo |-> r1, branch |-> b, directive |-> TRUE,
               decodes |-> TRUE]
Other      == [kind |-> "other", repo |-> r1, branch |-> main, directive |-> FALSE,
               decodes |-> TRUE]

Form(e)    == [e EXCEPT !.decodes = FALSE]

AllEvents == {Push(main), Push(dev), Comment(dev), Other, Push(1), Form(Push(main))}

Sw(push, comments, filter) == [push |-> push, comments |-> comments, filter |-> filter]

AllSwitches == {Sw(TRUE, TRUE, "default_branch"), Sw(TRUE, FALSE, "custom"),
               Sw(FALSE, TRUE, "all")}

\* With two deliveries: pushes of one branch, nothing deleted, settings saved
\* before, lookups that work.
Paired == /\ \A d \in DOMAIN deliveries' : deliveries'[d].event = Push(main)
          /\ repos'[r1].live /\ (repos'[r1].ver # repos[r1].ver => deliveries = <<>>)
          /\ resets' = 0
          /\ \A d \in DOMAIN deliveries' : ~deliveries'[d].blind

\* One delivery: it is handed out twice, or the server dies; a body that does
\* not decode meets settings that stay as they are.
Alone == /\ Len(deliveries') <= 1
         /\ dups' + crashes' <= 1
         /\ \A d \in DOMAIN deliveries' :
                Decodes(deliveries'[d].event) \/ (repos' = repos /\ resets' = 0)

Bounded == IF pair THEN Paired ELSE Alone

\* The fairness of IntakeFairSpec.
PairSpec ==
    /\ pair \in BOOLEAN /\ IntakeInit
    /\ pair => switch[r1] = Sw(TRUE, TRUE, "default_branch")
    /\ [][IntakeNext /\ Bounded /\ UNCHANGED pair]_<<dbVars, budgetVars, intakeVars, pair>>
    /\ \A t \in Threads : WF_<<dbVars, budgetVars, intakeVars>>(IntakeStep(t))
    /\ \A d \in 1 .. MaxDeliveries :
           WF_<<dbVars, budgetVars, intakeVars>>(\E t \in Threads : Pull(t, d))
=============================================================================
