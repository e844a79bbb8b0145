-------------------------------- MODULE Watchdog --------------------------------
(* The ML watchdog (service/mlwatchdog.go) restarts a container that runs and     *)
(* does not answer; the embedder's poll (Embedder.tick) starts the recovery chain *)
(* each time the backend has become ready again.                                  *)
EXTENDS Naturals

CONSTANTS
    FailLimit,      \* mlWatchdogFailLimit (12 ticks)
    CooldownTicks,  \* mlWatchdogCooldown in ticks (20)
    MaxMlEvents,    \* bound on wedges, stops and starts of the container
    MaxDockerErrors

ASSUME LimitsArePositive == FailLimit \in Nat \ {0} /\ CooldownTicks \in Nat

VARIABLES
    ml,         \* the container: "up" (answers), "wedged", or "stopped" (or never installed)
    probe,      \* the watchdog's tick: step, and what it read
    fails,      \* consecutive failed probes
    since,      \* ticks since lastRestart, up to CooldownTicks
    lastReady,  \* of the embedder's poll
    backlog,    \* work left undone because the backend was away: "none", "unseen" (left in
                \* an absence no poll has seen) or "left" (the next ready poll takes it up)
    mlEvents, dockerErrors

wdVars == <<ml, probe, fails, since, lastReady, backlog, mlEvents, dockerErrors>>

WdInit ==
    /\ ml = "stopped" /\ probe = "wait" /\ fails = 0 /\ since = CooldownTicks
    /\ lastReady = FALSE /\ backlog = "left" /\ mlEvents = 0 /\ dockerErrors = 0

Least(a, b) == IF a <= b THEN a ELSE b

----------------------------------------------------------------------------------
(* Tick.                                                                          *)

\* ready() and the counter; the early returns.
TickProbes ==
    /\ probe = "wait"
    /\ LET missed == fails + 1 IN
       /\ fails' = IF ml = "up" THEN 0 ELSE Least(missed, FailLimit)
       /\ probe' = IF ml # "up" /\ missed >= FailLimit /\ since >= CooldownTicks THEN "inspect" ELSE "wait"
    /\ since' = Least(since + 1, CooldownTicks)
    /\ UNCHANGED <<ml, lastReady, backlog, mlEvents, dockerErrors>>

\* docker inspect fails: the counter stays where it is.
InspectFails ==
    /\ probe = "inspect" /\ dockerErrors < MaxDockerErrors
    /\ dockerErrors' = dockerErrors + 1 /\ probe' = "wait"
    /\ UNCHANGED <<ml, fails, since, lastReady, backlog, mlEvents>>

\* Either way the counter starts again; a running container is restarted.
InspectAnswers ==
    /\ probe = "inspect"
    /\ fails' = 0
    /\ probe' = IF ml = "stopped" THEN "wait" ELSE "restart"
    /\ since' = IF ml = "stopped" THEN since ELSE 0
    /\ UNCHANGED <<ml, lastReady, backlog, mlEvents, dockerErrors>>

\* docker restart also starts what was stopped since the inspection.
RestartAnswers ==
    /\ probe = "restart" /\ probe' = "wait"
    /\ \/ ml' = "up" /\ UNCHANGED dockerErrors
       \/ dockerErrors < MaxDockerErrors /\ dockerErrors' = dockerErrors + 1 /\ UNCHANGED ml
    /\ UNCHANGED <<fails, since, lastReady, backlog, mlEvents>>

----------------------------------------------------------------------------------
\* What a poll makes of the work left undone: a false-to-true transition starts the chain.
AfterPoll ==
    CASE ml = "up" /\ ~lastReady          -> "none"
      [] ml # "up" /\ backlog = "unseen" -> "left"
      [] OTHER                            -> backlog

\* Mutant: the poll remembers only that the backend was ready once.
PollOnce ==
    /\ lastReady' = (lastReady \/ ml = "up") /\ backlog' = AfterPoll
    /\ UNCHANGED <<ml, probe, fails, since, mlEvents, dockerErrors>>

\* Embedder.tick: the recovery chain clears the backlog (its passes are Vectors, Texts
\* and Captions).
Poll ==
    /\ lastReady' = (ml = "up") /\ backlog' = AfterPoll
    /\ UNCHANGED <<ml, probe, fails, since, mlEvents, dockerErrors>>

\* The container wedges, is stopped or started by hand.
MlEvent(to) ==
    /\ mlEvents < MaxMlEvents /\ mlEvents' = mlEvents + 1 /\ ml # to
    /\ ml' = to
    /\ UNCHANGED <<probe, fails, since, lastReady, backlog, dockerErrors>>

\* A photo indexed while the backend is away stays without its vector, so does one that a
\* pass of the chain could not finish.  While the poll still believes that the backend is
\* there, only a poll before it is back makes this a backlog of the recovery chain.
LeftWithoutMl ==
    /\ ml # "up" /\ backlog = "none"
    /\ backlog' = IF lastReady THEN "unseen" ELSE "left"
    /\ UNCHANGED <<ml, probe, fails, since, lastReady, mlEvents, dockerErrors>>

WdRuns(g) ==
    \/ g = "watchdog" /\ (TickProbes \/ InspectFails \/ InspectAnswers \/ RestartAnswers)
    \/ g = "poll"     /\ Poll

WdGoroutines == {"watchdog", "poll"}

WdNext == (\E g \in WdGoroutines : WdRuns(g)) \/ LeftWithoutMl \/ \E to \in {"up", "wedged", "stopped"} : MlEvent(to)

WdSpec == WdInit /\ [][WdNext]_wdVars /\ \A g \in WdGoroutines : WF_wdVars(WdRuns(g))

----------------------------------------------------------------------------------
WdTypeOK ==
    /\ ml \in {"up", "wedged", "stopped"} /\ probe \in {"wait", "inspect", "restart"}
    /\ fails \in 0..FailLimit /\ since \in 0..CooldownTicks
    /\ lastReady \in BOOLEAN /\ backlog \in {"none", "unseen", "left"}

\* A backend that wedges is in the end replaced by one that answers, whatever docker
\* said at first; and once it stays, the work of every absence that a poll saw is caught
\* up.  The work of an absence that falls between two polls starts no recovery: it waits
\* for the end of another batch, the next absence or the next start.
WedgedRecovers ==
    /\ <>[](ml # "wedged")
    /\ <>[](ml = "up") => <>[](lastReady /\ backlog # "left")
==================================================================================
