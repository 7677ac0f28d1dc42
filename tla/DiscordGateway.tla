--------------------------- MODULE DiscordGateway ---------------------------
(***************************************************************************)
(* The Discord bot: the thread that connects, receives and handles one     *)
(* event at a time (discord/online.py), its heartbeat threads, which share *)
(* the socket with it, and the planning and execution of a message with    *)
(* the follow-ups that stand for an earlier one (discord/ai_worker.py).    *)
(*                                                                         *)
(* What a plan's actions do is left to the modules of the worker.  Events  *)
(* that change nothing, such as a bot's own messages, are left out.        *)
(***************************************************************************)
EXTENDS Naturals, Sequences

CONSTANTS
    Channels,     \* channel ids
    Requests,     \* messages that are no follow-up
    MaxActions,   \* bound: actions of one plan
    MaxMessages,  \* bound: messages handled
    MaxFaults     \* bound: disconnections, failed connections and failed sends

Nothing == "nothing"
Again == "again"             \* any text that _is_followup_command accepts

ASSUME DiscordAssumption ==
    /\ {Nothing, Again} \cap Requests = {} /\ Nothing \notin Channels
    /\ MaxActions \in Nat /\ MaxMessages \in Nat /\ MaxFaults \in Nat

VARIABLES
    running,        \* self.running
    main,           \* where the main thread stands
    ws,             \* self.ws: none yet, open, or closed
    beats,          \* heartbeat threads alive
    lapsed,         \* whether a heartbeat raised on an open socket since the last greeting
    last_requests,  \* DiscordAIWorker.last_requests
    message,        \* the message being handled
    todo,           \* actions of its plan not yet executed
    log,            \* history: what was said, what it stood for, whether it was carried out
    interrupts      \* faults so far

dvars == <<running, main, ws, beats, lapsed, last_requests, message, todo, log, interrupts>>
connection == <<running, ws, beats, lapsed, interrupts>>
conversation == <<last_requests, message, todo, log>>

NoMessage == [channel |-> Nothing, said |-> Nothing, does |-> Nothing]
Texts == Requests \cup {Again}

DiscordInit ==
    /\ running = TRUE /\ main = "connect" /\ ws = "none" /\ beats = 0 /\ lapsed = FALSE
    /\ interrupts = 0
    /\ last_requests = [c \in Channels |-> Nothing]
    /\ message = NoMessage /\ todo = 0 /\ log = <<>>

-------------------------------------------------------------------------
Fault == interrupts < MaxFaults /\ interrupts' = interrupts + 1

\* The head of either loop: run_forever's, or the one of _connect_once, whose
\* end lets run_forever see the same flag.
ContinueAnyway(where) == main' = where                             \* mutant
Continue(where) == main' = IF running THEN where ELSE "stopped"

\* An exception of _connect_once: five seconds, then another connection.  The
\* socket stays where it is, open or not.
ConnectFails ==
    /\ main = "connect" /\ Fault /\ main' = "sleep"
    /\ UNCHANGED <<running, ws, beats, lapsed, conversation>>

ConnectOpens ==
    /\ main = "connect" /\ ws' = "open" /\ main' = "hello"
    /\ UNCHANGED <<running, beats, lapsed, interrupts, conversation>>

\* The heartbeat thread starts once the new socket is in place.
\* Mutant: the bot starts one thread, with its first connection.
HelloBeatsOnce ==
    /\ main = "hello" /\ ws = "open"
    /\ beats' = (IF interrupts = 0 THEN 1 ELSE beats) /\ lapsed' = FALSE /\ main' = "identify"
    /\ UNCHANGED <<running, ws, interrupts, conversation>>
HelloArrives ==
    /\ main = "hello" /\ ws = "open"
    /\ beats' = beats + 1 /\ lapsed' = FALSE /\ main' = "identify"
    /\ UNCHANGED <<running, ws, interrupts, conversation>>

Identify ==
    /\ main = "identify" /\ ws = "open"
    /\ Continue("receive")
    /\ UNCHANGED <<connection, conversation>>

\* recv and send raise on a closed socket.
SocketRaises ==
    /\ main \in {"hello", "identify", "receive"} /\ ws = "closed"
    /\ main' = "sleep"
    /\ UNCHANGED <<connection, conversation>>

\* Opcodes 7 and 9; the old socket is not closed.
ReconnectAsked ==
    /\ main = "receive" /\ ws = "open" /\ Fault /\ main' = "sleep"
    /\ UNCHANGED <<running, ws, beats, lapsed, conversation>>

Wake ==
    /\ main = "sleep" /\ Continue("connect")
    /\ UNCHANGED <<connection, conversation>>

\* A heartbeat thread sends on whatever self.ws is then, and ends when that
\* raises or the bot does not run any more.
BeatEnds ==
    /\ beats > 0 /\ (ws = "closed" \/ ~running)
    /\ beats' = beats - 1
    /\ UNCHANGED <<running, main, ws, lapsed, interrupts, conversation>>

\* A send raises on an open socket, as by the timeout it shares with recv: the
\* thread ends, and the main thread does not hear of it.
BeatRaises ==
    /\ beats > 0 /\ ws = "open" /\ running /\ Fault
    /\ beats' = beats - 1 /\ lapsed' = TRUE
    /\ UNCHANGED <<running, main, ws, conversation>>

\* The network, or Discord, closes the socket.
SocketCloses ==
    /\ ws = "open" /\ main # "stopped" /\ Fault /\ ws' = "closed"
    /\ UNCHANGED <<running, main, beats, lapsed, conversation>>

\* SIGINT or SIGTERM.
Shutdown ==
    /\ running /\ running' = FALSE
    /\ ws' = IF ws = "none" THEN "none" ELSE "closed"
    /\ UNCHANGED <<main, beats, lapsed, interrupts, conversation>>

-------------------------------------------------------------------------
\* Mutant: one request remembered for all channels.
ResolveAnywhere(channel, said) ==
    LET others == {c \in Channels : last_requests[c] # Nothing}
    IN  IF said = Again /\ others # {} THEN last_requests[CHOOSE c \in others : TRUE] ELSE said
\* _resolve_followup_message; every event of a guild names its channel.
Resolve(channel, said) ==
    IF said = Again /\ last_requests[channel] # Nothing
    THEN last_requests[channel] ELSE said

Receive(channel, said) ==
    /\ main = "receive" /\ ws = "open" /\ Len(log) < MaxMessages
    /\ message' = [channel |-> channel, said |-> said, does |-> Resolve(channel, said)]
    /\ main' = "plan"
    /\ UNCHANGED <<connection, last_requests, todo, log>>

\* The handler ends, with an answer or an exception the loop catches.
Ends(done) ==
    /\ log' = Append(log, [channel |-> message.channel, said |-> message.said,
                           does |-> message.does, done |-> done])
    /\ message' = NoMessage /\ todo' = 0
    /\ Continue("receive")

\* _plan: a capability that matches, or OpenClaw's plan.
Plans(n) ==
    /\ main = "plan" /\ todo' = n /\ main' = "execute"
    /\ UNCHANGED <<connection, last_requests, message, log>>

\* RuntimeError is answered; an answer of OpenClaw that is no JSON at all, or a
\* capability that cannot be listed, raises through respond.
PlanFails ==
    /\ main = "plan" /\ Ends(FALSE)
    /\ UNCHANGED <<connection, last_requests>>

ExecuteAnyway ==                                                   \* mutant
    /\ main = "execute" /\ todo' = todo - 1
    /\ UNCHANGED <<connection, main, last_requests, message, log>>
\* One action: invalid, failed or done, the next one follows.
Execute ==
    /\ main = "execute" /\ todo > 0 /\ todo' = todo - 1
    /\ UNCHANGED <<connection, main, last_requests, message, log>>

\* Its record in the audit log or the memory file raises.
ExecuteRaises ==
    /\ main = "execute" /\ todo > 0 /\ Ends(FALSE)
    /\ UNCHANGED <<connection, last_requests>>

\* A message that stands for itself is remembered before it is answered.
Remember ==
    IF message.does # Again
    THEN [last_requests EXCEPT ![message.channel] = message.does] ELSE last_requests
Finish ==
    /\ main = "execute" /\ todo = 0
    /\ last_requests' = Remember
    /\ Ends(TRUE)
    /\ UNCHANGED connection

Advance ==
    \/ ConnectOpens \/ HelloArrives \/ Identify \/ SocketRaises \/ Wake
    \/ \E n \in 0 .. MaxActions : Plans(n)
    \/ PlanFails \/ Execute \/ ExecuteRaises \/ Finish

DiscordNext ==
    \/ Advance \/ ConnectFails \/ ReconnectAsked \/ BeatEnds \/ BeatRaises \/ SocketCloses \/ Shutdown
    \/ \E channel \in Channels, said \in Texts : Receive(channel, said)

DiscordSpec == DiscordInit /\ [][DiscordNext]_dvars

\* The main thread goes on: a connection is answered or refused, Discord greets,
\* and requests, planner and commands have timeouts.
DiscordFairSpec == DiscordSpec /\ WF_dvars(Advance)

-------------------------------------------------------------------------
DiscordTypeOK ==
    /\ running \in BOOLEAN /\ lapsed \in BOOLEAN /\ ws \in {"none", "open", "closed"}
    /\ main \in {"connect", "hello", "identify", "receive", "sleep", "plan", "execute", "stopped"}
    /\ beats \in Nat /\ interrupts \in 0 .. MaxFaults
    /\ last_requests \in [Channels -> Requests \cup {Nothing}]
    /\ message \in [channel : Channels \cup {Nothing}, said : Texts \cup {Nothing},
                    does : Texts \cup {Nothing}]
    /\ todo \in 0 .. MaxActions
    /\ log \in Seq([channel : Channels, said : Texts, does : Texts, done : BOOLEAN])

\* An open connection past its greeting always has a heartbeat thread, also
\* after reconnects in which old threads died on the old socket or went over to
\* the new one: Discord would drop it otherwise.  Only a send that raised on that
\* open connection ends its heartbeat.
HeartbeatPresent ==
    running /\ ws = "open" /\ main \in {"identify", "receive", "plan", "execute"} /\ ~lapsed
        => beats > 0

\* A follow-up executes what its own channel asked for last among the requests
\* that were carried out, never another channel's, never one whose planning
\* failed or whose execution broke off, and no older one.
Stands(i, j) == j < i /\ log[j].channel = log[i].channel /\ log[j].done
RepeatsOwnRequest ==
    \A i \in DOMAIN log : log[i].said = Again /\ log[i].does # Again =>
        \E j \in DOMAIN log :
            /\ Stands(i, j) /\ log[j].said = log[i].does
            /\ \A k \in DOMAIN log :
                Stands(i, k) /\ k > j => log[k].does \in {Again, log[i].does}

\* The bot ends once it is told to, wherever it is; until then every lost
\* connection is followed by another that receives.
BotSettles ==
    /\ ~running ~> main = "stopped"
    /\ running ~> (main = "receive" \/ ~running)

=========================================================================
