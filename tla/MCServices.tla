----------------------------- MODULE MCServices -----------------------------
(***************************************************************************)
(* Three services of the worker that share no state, in one run: one of    *)
(* them moves, chosen at the start, and the others stay as they began.     *)
(***************************************************************************)
EXTENDS BrowserTabs, DiscordGateway, WorkerScheduler

VARIABLE part

Mode(block, setup, require) == [block |-> block, setup |-> setup, require |-> require]
SomeModes == {Mode(FALSE, FALSE, FALSE), Mode(TRUE, FALSE, TRUE), Mode(FALSE, TRUE, FALSE)}

Field(kind, n) == [kind |-> kind, n |-> n]
SomeMinutes == {Field("every", 0), Field("step", 7), Field("step", 15), Field("step", 60),
                Field("step", 0), Field("at", 0), Field("at", 30), Field("at", 59),
                Field("bad", 0)}
SomeStarts == {120 * minute + half : minute \in {0, 1, 29, 30, 59}, half \in {0, 1, 118, 119}}

vars == <<part, bvars, dvars, svars>>

\* A part that does not move begins in one of its initial states.
Init ==
    /\ part \in {"browser", "discord", "scheduler"}
    /\ BrowserInit /\ DiscordInit /\ SchedulerInit
    /\ IF part = "browser" THEN profile \in {"absent", "authenticated"} ELSE profile = "blank"
    /\ part # "scheduler" =>
        config = [mode |-> "once", minute |-> Field("every", 0)] /\ now = 0

Next ==
    /\ UNCHANGED part
    /\ \/ part = "browser" /\ BrowserNext /\ UNCHANGED <<dvars, svars>>
       \/ part = "discord" /\ DiscordNext /\ UNCHANGED <<bvars, svars>>
       \/ part = "scheduler" /\ SchedulerNext /\ UNCHANGED <<bvars, dvars>>

\* The fairness of DiscordFairSpec.
Spec ==
    /\ Init /\ [][Next]_vars
    /\ WF_vars(part = "discord" /\ Advance /\ UNCHANGED <<part, bvars, svars>>)

\* What the modules' own type invariants say.
TypeOK == BrowserTypeOK /\ DiscordTypeOK /\ SchedulerTypeOK

\* BotSettles, of the runs in which the bot moves: it ends once it is told to,
\* and until then every lost connection is followed by another that receives.
BotSettlesHere == part = "discord" => BotSettles

=========================================================================
