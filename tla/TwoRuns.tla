------------------------------ MODULE TwoRuns ------------------------------
(***************************************************************************)
(* Two invocations of syslet on one host at the same time, say one from a  *)
(* timer and one by hand.  Nothing keeps them apart (cmd/syslet/main.go    *)
(* takes no lock): each plans from the host as it finds it, in the middle  *)
(* of the other's run, and executes its plan on whatever the other has     *)
(* made of the host since.  Each is a run of Reconcile over the same host. *)
(***************************************************************************)
CONSTANTS
    Container, Volume, Network, Build, Image, Secret, File, Dir, Value, None,
    Inputs, FaultKinds, MaxFaults

VARIABLES
    installed, files, dirs, secrets, images, resource, loaded, status, ran,
    pcA, todoA, goalA, baseA, errsA, resultA,  \* one invocation
    pcB, todoB, goalB, baseB, errsB, resultB,  \* the other
    faults

A == INSTANCE Reconcile WITH pc <- pcA, todo <- todoA, goal <- goalA, base <- baseA,
                             errs <- errsA, result <- resultA
B == INSTANCE Reconcile WITH pc <- pcB, todo <- todoB, goal <- goalB, base <- baseB,
                             errs <- errsB, result <- resultB

\* What Reconcile assumes of the units, the inputs and the bounds.
ASSUME AsInReconcile ==
    /\ A!UnitTypesDisjoint /\ A!MountsDisjoint /\ A!FaultsBounded /\ A!NoneIsFresh
    /\ A!InputsTyped /\ A!InputsWhole

host == <<installed, files, dirs, secrets, images, resource, loaded, status, ran>>
runA == <<pcA, todoA, goalA, baseA, errsA, resultA>>
runB == <<pcB, todoB, goalB, baseB, errsB, resultB>>
vars == <<host, runA, runB, faults>>

PlanA == (\E in \in Inputs : A!Plan(in) \/ A!Refuse(in)) /\ UNCHANGED runB
PlanB == (\E in \in Inputs : B!Plan(in) \/ B!Refuse(in)) /\ UNCHANGED runA
ApplyA == A!ApplyStep /\ UNCHANGED runB
ApplyB == B!ApplyStep /\ UNCHANGED runA

\* What happens to the host while they run.  The death of one of them leaves the
\* other a host that Reconcile has runs start from anyway.
Reboot == A!Reboot /\ B!Ends
ContainerExit(c) == A!ContainerExit(c) /\ UNCHANGED runB
AutoRestart(c) == A!AutoRestart(c) /\ UNCHANGED runB

Init == A!Init /\ B!Init
Next ==
    \/ PlanA \/ PlanB \/ ApplyA \/ ApplyB \/ Reboot
    \/ \E c \in Container : ContainerExit(c) \/ AutoRestart(c)

Spec == Init /\ [][Next]_vars

\* Both go on until they end, systemd retries, and the operator keeps applying.
FairSpec ==
    /\ Spec
    /\ WF_vars(ApplyA) /\ WF_vars(ApplyB) /\ WF_vars(PlanA) /\ WF_vars(PlanB)
    /\ \A c \in Container : WF_vars(AutoRestart(c))

-----------------------------------------------------------------------------
BothOk == pcA = "idle" /\ pcB = "idle" /\ resultA = "ok" /\ resultB = "ok"

\* However two invocations that both succeed interleave, and whatever specs the
\* runs before them had: if they had the same specs, the unit files, the files and
\* the secrets are those of the specs.  The one that planned last has seen
\* everything the runs with other specs did.  Specs that drop a container other
\* specs lock are the exception: its lock may hold back, from the plan that comes
\* last, what it refers to, and a delete that was planned before then takes it.
SameSpecsSettle == BothOk /\ goalA = goalB => A!OnDisk(goalA)

\* A container both invocations want running comes to run, although each stops it
\* for its own restart at its own time.
WantedByBothComesUp ==
    \A c \in Container :
        A!Wanted(c) /\ B!Wanted(c) ~> (A!Active(c) \/ ~(A!Wanted(c) /\ B!Wanted(c)))
=============================================================================
