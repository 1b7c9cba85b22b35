----------------------------- MODULE Activation -----------------------------
(***************************************************************************)
(* What the registry side of the control plane promises, whatever leases,  *)
(* attempts, evaluations and lost answers lie behind it: a candidate asks  *)
(* for one activation at a time, it is served only by one the external     *)
(* registry has really published, and a success is final.                  *)
(* docs/adrs/0001-asynchronous-promotion.md states the decision.           *)
(***************************************************************************)
EXTENDS Integers

CONSTANTS
    Candidate,
    Operation    \* activations are numbered from 1

VARIABLES
    activation,  \* what became of each requested activation
    external,    \* the activations the external registry has published
    serving      \* the activation new production runs select; 0 when none

avars == << activation, external, serving >>

State == {"NONE", "PENDING", "FAILED", "SUCCEEDED"}

Init ==
    /\ activation = [c \in Candidate |-> [o \in Operation |-> "NONE"]]
    /\ external = {}
    /\ serving = [c \in Candidate |-> 0]

\* Promotion asks for an activation; the candidate has no other open one.
Request(c, o) ==
    /\ activation[c][o] = "NONE"
    /\ \A i \in Operation : activation[c][i] \in {"NONE", "SUCCEEDED"}
    /\ activation' = [activation EXCEPT ![c][o] = "PENDING"]
    /\ UNCHANGED << external, serving >>

\* The registry publishes a requested activation, perhaps long after the
\* control plane gave it up, and possibly without anybody learning of it.
Release(c, o) ==
    /\ activation[c][o] # "NONE"
    /\ external' = external \cup {<< c, o >>}
    /\ UNCHANGED << activation, serving >>

\* Some pending activations end in a failure a reviewer may retry.
Reject(S) ==
    /\ \A x \in S : activation[x[1]][x[2]] = "PENDING"
    /\ activation' = [c \in Candidate |-> [o \in Operation |->
                         IF << c, o >> \in S THEN "FAILED" ELSE activation[c][o]]]
    /\ UNCHANGED << external, serving >>

\* An explicit retry revives the same activation.
Revive(c, o) ==
    /\ activation[c][o] = "FAILED"
    /\ activation' = [activation EXCEPT ![c][o] = "PENDING"]
    /\ UNCHANGED << external, serving >>

\* Confirmed success: the candidate is now served by this activation.
Activate(c, o) ==
    /\ activation[c][o] = "PENDING"
    /\ << c, o >> \in external
    /\ activation' = [activation EXCEPT ![c][o] = "SUCCEEDED"]
    /\ serving' = [serving EXCEPT ![c] = o]
    /\ UNCHANGED external

Next ==
    \/ \E c \in Candidate, o \in Operation :
          Request(c, o) \/ Release(c, o) \/ Revive(c, o) \/ Activate(c, o)
    \/ \E S \in SUBSET (Candidate \X Operation) : Reject(S)

Spec == Init /\ [][Next]_avars
=============================================================================
