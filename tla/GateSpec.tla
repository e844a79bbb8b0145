------------------------------ MODULE GateSpec ------------------------------
(* What service/backfillgate.go promises of each named chain: "at most one     *)
(* execution per chain at any time; triggers during execution or within the    *)
(* window merge into one deferred run", and "the first trigger after quiet     *)
(* runs immediately".                                                          *)
CONSTANT Chains

VARIABLES
    running,    \* chains with an execution in progress
    wanted,     \* chains with a trigger that no execution has answered yet
    window      \* chains whose throttle window is open

vars == <<running, wanted, window>>

Init == running = {} /\ wanted = {} /\ window = {}

Start(c) ==
    /\ c \notin running \cup window
    /\ running' = running \cup {c}
    /\ window' = window \cup {c}

\* After quiet a trigger is an execution.
TriggerRuns(c) == c \notin wanted /\ Start(c) /\ wanted' = wanted

\* Otherwise it joins the one deferred run.
TriggerWaits(c) ==
    /\ c \in running \cup window \cup wanted
    /\ wanted' = wanted \cup {c}
    /\ UNCHANGED <<running, window>>

DeferredRuns(c) == c \in wanted /\ Start(c) /\ wanted' = wanted \ {c}

Ends(c) == c \in running /\ running' = running \ {c} /\ UNCHANGED <<wanted, window>>

WindowCloses(c) == c \in window /\ window' = window \ {c} /\ UNCHANGED <<running, wanted>>

Next == \E c \in Chains :
    TriggerRuns(c) \/ TriggerWaits(c) \/ DeferredRuns(c) \/ Ends(c) \/ WindowCloses(c)

Spec == Init /\ [][Next]_vars

Fairness == \A c \in Chains :
    WF_vars(DeferredRuns(c)) /\ WF_vars(Ends(c)) /\ WF_vars(WindowCloses(c))

FairSpec == Spec /\ Fairness
=============================================================================
