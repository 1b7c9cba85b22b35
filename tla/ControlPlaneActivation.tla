----------------------- MODULE ControlPlaneActivation -----------------------
(***************************************************************************)
(* The control plane implements the registry's promise (Activation).       *)
(* Leases and attempts disappear, an operation that is queued or running   *)
(* is pending, a published token counts for the operation made under it,   *)
(* and the selected version stands for the operation it came from.         *)
(***************************************************************************)
EXTENDS ControlPlane

ActivationOf(op) ==
    IF op.status \in Unfinished THEN "PENDING" ELSE op.status

Activations == [c \in Candidate |-> [o \in Operation |-> ActivationOf(operation[c][o])]]

PublishedOperations ==
    {x \in Candidate \X Operation :
        operation[x[1]][x[2]].status # "NONE" /\ Token(x[1], x[2]) \in published}

Serving ==
    [c \in Candidate |->
        IF selected[c] = 0 THEN 0
        ELSE (CHOOSE v \in version[c] : v.number = selected[c]).operation]

Promise == INSTANCE Activation
           WITH activation <- Activations, external <- PublishedOperations,
                serving <- Serving

\* Behind every interleaving of commands, leases, crashes and lost answers the
\* candidate asks for one activation at a time, a candidate is only served by an
\* activation the external registry published, and a success is never undone
\* (docs/adrs/0001-asynchronous-promotion.md).
ImplementsActivation == Promise!Spec
=============================================================================
