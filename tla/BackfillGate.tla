---------------------------- MODULE BackfillGate ----------------------------
(* backfillGate (service/backfillgate.go): the throttle in front of the heavy  *)
(* post-batch and ML-recovery chains.  One action is one critical section of   *)
(* g.mu, or the return of a chain's function.                                  *)
(*                                                                             *)
(* Time: a chain's window is open from lastRun for g.min.  Every timer is set  *)
(* for the end of the window, or for now when the window is already over, so   *)
(* an armed timer may fire at any moment at which the window is closed.  The   *)
(* timer field stays set until firePending's critical section clears it.       *)
EXTENDS Integers

CONSTANT Chains

VARIABLES
    withinWindow,   \* chains with now - lastRun < min
    inFlight,       \* gatedChain.inFlight
    timer,          \* chains with gatedChain.timer # nil
    pendingFn,      \* chains with gatedChain.pendingFn # nil
    executing,      \* per chain: goroutines inside fn
    completing      \* per chain: goroutines past fn, before complete's section

flags == <<withinWindow, inFlight, timer, pendingFn>>
vars  == <<flags, executing, completing>>

Init ==
    /\ withinWindow = {} /\ inFlight = {} /\ timer = {} /\ pendingFn = {}
    /\ executing = [c \in Chains |-> 0]
    /\ completing = [c \in Chains |-> 0]

-----------------------------------------------------------------------------
\* Mutant: the running execution is not looked at.
MustMergeIgnoresFlight(c) == c \in timer \cup withinWindow

\* Mutant: the armed timer is not looked at.
MustMergeIgnoresTimer(c) == c \in inFlight \cup withinWindow

MustMerge(c) == c \in inFlight \cup timer \cup withinWindow

ArmsOnMerge(c) == c \in withinWindow \ (timer \cup inFlight)

\* The merging branch of Run: only the latest fn is kept.
RunMerges(c) ==
    /\ MustMerge(c)
    /\ pendingFn' = pendingFn \cup {c}
    /\ timer' = IF ArmsOnMerge(c) THEN timer \cup {c} ELSE timer
    /\ UNCHANGED <<withinWindow, inFlight, executing, completing>>

\* lastRun = now, inFlight = true, and fn starts once the mutex is released.
StartsRun(c) ==
    /\ withinWindow' = withinWindow \cup {c}
    /\ inFlight' = inFlight \cup {c}
    /\ executing' = [executing EXCEPT ![c] = @ + 1]

RunLeads(c) ==
    /\ ~MustMerge(c)
    /\ StartsRun(c)
    /\ UNCHANGED <<timer, pendingFn, completing>>

\* Mutant: the end of one execution is signalled without one.
FnReturnsAgain(c) ==
    /\ executing' = [executing EXCEPT ![c] = @ - 1]
    /\ completing' = [completing EXCEPT ![c] = @ + 1]
    /\ UNCHANGED flags

FnReturns(c) ==
    /\ executing[c] > 0
    /\ executing' = [executing EXCEPT ![c] = @ - 1]
    /\ completing' = [completing EXCEPT ![c] = @ + 1]
    /\ UNCHANGED flags

\* Mutant: complete leaves the pending run to the next trigger.
CompleteForgets(c) ==
    /\ completing[c] > 0
    /\ completing' = [completing EXCEPT ![c] = @ - 1]
    /\ inFlight' = inFlight \ {c}
    /\ UNCHANGED <<withinWindow, timer, pendingFn, executing>>

\* complete arms the timer for a trigger that merged during the execution.
Complete(c) ==
    /\ completing[c] > 0
    /\ completing' = [completing EXCEPT ![c] = @ - 1]
    /\ inFlight' = inFlight \ {c}
    /\ timer' = IF c \in pendingFn THEN timer \cup {c} ELSE timer
    /\ UNCHANGED <<withinWindow, pendingFn, executing>>

\* The two early returns of firePending are kept as the ELSE branch.
FirePending(c) ==
    /\ c \in timer \ withinWindow
    /\ timer' = timer \ {c}
    /\ IF c \in pendingFn \ inFlight
       THEN pendingFn' = pendingFn \ {c} /\ StartsRun(c)
       ELSE UNCHANGED <<pendingFn, withinWindow, inFlight, executing>>
    /\ UNCHANGED completing

WindowPasses(c) ==
    /\ c \in withinWindow
    /\ withinWindow' = withinWindow \ {c}
    /\ UNCHANGED <<inFlight, timer, pendingFn, executing, completing>>

ChainStep(c) ==
    RunMerges(c) \/ RunLeads(c) \/ FnReturns(c) \/ Complete(c) \/ FirePending(c) \/ WindowPasses(c)

Next == \E c \in Chains : ChainStep(c)

Spec == Init /\ [][Next]_vars

\* Executions end, timers fire and time passes; nothing forces a trigger.
Fairness == \A c \in Chains :
    WF_vars(FnReturns(c)) /\ WF_vars(Complete(c)) /\ WF_vars(FirePending(c)) /\ WF_vars(WindowPasses(c))

FairSpec == Spec /\ Fairness

-----------------------------------------------------------------------------
(* Properties.                                                                 *)

TypeOK ==
    /\ withinWindow \subseteq Chains /\ inFlight \subseteq Chains
    /\ timer \subseteq Chains /\ pendingFn \subseteq Chains
    /\ executing \in [Chains -> Nat]
    /\ completing \in [Chains -> Nat]

\* "At most one execution per chain at any time", an execution that has returned
\* but not completed included; inFlight is exactly its flag.
AtMostOneExecution ==
    \A c \in Chains :
        /\ executing[c] + completing[c] <= 1
        /\ c \in inFlight <=> executing[c] + completing[c] = 1

\* firePending: "shouldn't occur, since Run and complete never arm a timer while
\* inFlight is true".  A timer means a pending run and no running one, so the
\* defensive branches are never taken; and a pending run is never forgotten:
\* either its timer is armed or an execution will arm it.
PendingIsScheduled ==
    /\ \A c \in timer : c \in pendingFn \ inFlight
    /\ \A c \in pendingFn : c \in timer \cup inFlight

\* The gate implements its promise, triggers answered included.
Abstract == INSTANCE GateSpec WITH running <- inFlight, wanted <- pendingFn, window <- withinWindow

RefinesGate == Abstract!FairSpec
=============================================================================
