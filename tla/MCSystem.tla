------------------------------- MODULE MCSystem -------------------------------
(* Instances of CloudSystem for TLC. *)
EXTENDS CloudSystem

CONSTANTS r1, main, dev, none, w1, t1

PushTo(b) == [kind |-> "push", repo |-> r1, branch |-> b, directive |-> FALSE,
              decodes |-> TRUE]

\* Pushes to the developers' branch and to the branch of the first job, which
\* the repository's own prefix makes a branch like any other.
SystemEvents == {PushTo(dev), PushTo(1)}

Filter(f) == [push |-> TRUE, comments |-> TRUE, filter |-> f]

SystemSwitches == {Filter("all"), Filter("default_branch")}

\* A death of the server, or a second delivery.
Bounded == crashes' = 0 \/ Len(deliveries') <= 1

\* The fairness of SystemFairSpec, of steps that Bounded leaves alone.
BoundedSpec ==
    /\ Init /\ [][SystemNext /\ Bounded]_systemVars
    /\ \A w \in Workers : WF_systemVars(WorkerStep(w) /\ UNCHANGED intakeVars)
    /\ \A t \in Threads : WF_systemVars(Intake(t))
=============================================================================
