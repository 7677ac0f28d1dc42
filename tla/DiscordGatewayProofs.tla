------------------------ MODULE DiscordGatewayProofs ------------------------
(***************************************************************************)
(* What holds of the Discord bot for any channels, requests, messages and  *)
(* faults.                                                                 *)
(***************************************************************************)
EXTENDS DiscordGateway, TLAPS

LogEntries == [channel : Channels, said : Texts, does : Texts, done : BOOLEAN]

\* The message at hand stands for what its channel's last request makes of it.
AtHand ==
    main \in {"plan", "execute"} =>
        /\ message.channel \in Channels /\ message.said \in Texts
        /\ message.does = Resolve(message.channel, message.said)

LEMMA ResolveType ==
    ASSUME DiscordTypeOK, NEW channel \in Channels, NEW said \in Texts
    PROVE  Resolve(channel, said) \in Texts
BY DEF DiscordTypeOK, Resolve, Texts

LEMMA EndsTypes ==
    ASSUME DiscordTypeOK, AtHand, main \in {"plan", "execute"}, NEW done \in BOOLEAN, Ends(done)
    PROVE  /\ log' = Append(log, [channel |-> message.channel, said |-> message.said,
                                  does |-> message.does, done |-> done])
           /\ log' \in Seq(LogEntries)
           /\ message' \in [channel : Channels \cup {Nothing}, said : Texts \cup {Nothing},
                            does : Texts \cup {Nothing}]
           /\ todo' \in 0 .. MaxActions /\ main' \in {"receive", "stopped"}
<1>1. log \in Seq(LogEntries)
  BY DEF DiscordTypeOK, LogEntries
<1>2. [channel |-> message.channel, said |-> message.said, does |-> message.does, done |-> done]
        \in LogEntries
  BY ResolveType DEF AtHand, LogEntries
<1>3. message' = NoMessage /\ NoMessage \in [channel : Channels \cup {Nothing}, said : Texts \cup {Nothing},
                            does : Texts \cup {Nothing}]
  BY DEF Ends, NoMessage
<1>4. todo' \in 0 .. MaxActions
  BY DiscordAssumption DEF Ends
<1> QED
  BY <1>1, <1>2, <1>3, <1>4 DEF Ends, Continue

\* The state is well typed after every step, and the message resolved.
LEMMA DiscordTypesKept ==
    ASSUME DiscordTypeOK, AtHand, [DiscordNext]_dvars PROVE DiscordTypeOK' /\ AtHand'
<1> USE DiscordAssumption DEF connection, conversation, Fault
<1>1. CASE \/ ConnectFails \/ ConnectOpens \/ HelloArrives \/ Identify \/ SocketRaises
           \/ ReconnectAsked \/ Wake \/ BeatEnds \/ BeatRaises \/ SocketCloses \/ Shutdown
  <2>1. UNCHANGED conversation
    BY <1>1 DEF ConnectFails, ConnectOpens, HelloArrives, Identify, SocketRaises,
                ReconnectAsked, Wake, BeatEnds, BeatRaises, SocketCloses, Shutdown
  <2>2. main' = main \/ main' \in {"hello", "identify", "receive", "sleep", "connect", "stopped"}
    BY <1>1 DEF ConnectFails, ConnectOpens, HelloArrives, Identify, SocketRaises,
                ReconnectAsked, Wake, BeatEnds, BeatRaises, SocketCloses, Shutdown, Continue
  <2>3. AtHand'
    BY <2>1, <2>2 DEF AtHand, Resolve
  <2>4. running' \in BOOLEAN /\ ws' \in {"none", "open", "closed"}
    BY <1>1 DEF ConnectFails, ConnectOpens, HelloArrives, Identify, SocketRaises, ReconnectAsked,
                Wake, BeatEnds, BeatRaises, SocketCloses, Shutdown, DiscordTypeOK
  <2>5. lapsed' \in BOOLEAN
    BY <1>1 DEF ConnectFails, ConnectOpens, HelloArrives, Identify, SocketRaises, ReconnectAsked,
                Wake, BeatEnds, BeatRaises, SocketCloses, Shutdown, DiscordTypeOK
  <2>6. beats' \in Nat
    <3>1. beats \in Nat /\ (beats' = beats \/ beats' = beats + 1 \/ (beats > 0 /\ beats' = beats - 1))
      BY <1>1 DEF ConnectFails, ConnectOpens, HelloArrives, Identify, SocketRaises, ReconnectAsked,
                  Wake, BeatEnds, BeatRaises, SocketCloses, Shutdown, DiscordTypeOK
    <3> QED
      BY <3>1
  <2>7. interrupts' \in 0 .. MaxFaults
    <3>1. /\ interrupts \in 0 .. MaxFaults
          /\ interrupts' = interrupts \/ (interrupts < MaxFaults /\ interrupts' = interrupts + 1)
      BY <1>1 DEF ConnectFails, ConnectOpens, HelloArrives, Identify, SocketRaises, ReconnectAsked,
                  Wake, BeatEnds, BeatRaises, SocketCloses, Shutdown, DiscordTypeOK
    <3> QED
      BY <3>1
  <2>8. DiscordTypeOK'
    BY <2>1, <2>2, <2>4, <2>5, <2>6, <2>7 DEF DiscordTypeOK
  <2> QED
    BY <2>3, <2>8
<1>2. ASSUME NEW channel \in Channels, NEW said \in Texts, Receive(channel, said)
      PROVE  DiscordTypeOK' /\ AtHand'
  <2>1. /\ message'.channel = channel /\ message'.said = said
        /\ message'.does = Resolve(channel, said)
    BY <1>2 DEF Receive
  <2>2. AtHand'
    BY <1>2, <2>1 DEF Receive, AtHand, Resolve
  <2>3. message' \in [channel : Channels \cup {Nothing}, said : Texts \cup {Nothing},
                      does : Texts \cup {Nothing}]
    BY <1>2, ResolveType DEF Receive
  <2>4. DiscordTypeOK'
    BY <1>2, <2>3 DEF Receive, DiscordTypeOK
  <2> QED
    BY <2>2, <2>4
<1>3. ASSUME NEW n \in 0 .. MaxActions, Plans(n) PROVE DiscordTypeOK' /\ AtHand'
  BY <1>3 DEF Plans, DiscordTypeOK, AtHand, Resolve
<1>4. CASE Execute
  BY <1>4 DEF Execute, DiscordTypeOK, AtHand, Resolve
<1>5. CASE PlanFails \/ ExecuteRaises
  <2>1. main \in {"plan", "execute"} /\ Ends(FALSE) /\ UNCHANGED <<connection, last_requests>>
    BY <1>5 DEF PlanFails, ExecuteRaises
  <2> QED
    BY <2>1, EndsTypes DEF DiscordTypeOK, AtHand, LogEntries
<1>6. CASE Finish
  <2>1. main = "execute" /\ Ends(TRUE) /\ UNCHANGED connection /\ last_requests' = Remember
    BY <1>6 DEF Finish
  <2>2. last_requests' \in [Channels -> Requests \cup {Nothing}]
    BY <2>1, ResolveType DEF Remember, DiscordTypeOK, AtHand, Texts
  <2> QED
    BY <2>1, <2>2, EndsTypes DEF DiscordTypeOK, AtHand, LogEntries
<1>7. CASE UNCHANGED dvars
  BY <1>7 DEF dvars, DiscordTypeOK, AtHand, Resolve
<1> QED
  BY <1>1, <1>2, <1>3, <1>4, <1>5, <1>6, <1>7 DEF DiscordNext, Advance

LEMMA DiscordTypes == DiscordSpec => [](DiscordTypeOK /\ AtHand)
<1>1. DiscordInit => DiscordTypeOK /\ AtHand
  <2> SUFFICES ASSUME DiscordInit PROVE DiscordTypeOK /\ AtHand
    OBVIOUS
  <2>1. /\ last_requests \in [Channels -> Requests \cup {Nothing}]
        /\ log \in Seq([channel : Channels, said : Texts, does : Texts, done : BOOLEAN])
    BY DEF DiscordInit
  <2>2. /\ message \in [channel : Channels \cup {Nothing}, said : Texts \cup {Nothing},
                        does : Texts \cup {Nothing}]
        /\ todo \in 0 .. MaxActions /\ beats \in Nat /\ interrupts \in 0 .. MaxFaults
    BY DiscordAssumption DEF DiscordInit, NoMessage
  <2> QED
    BY <2>1, <2>2 DEF DiscordInit, DiscordTypeOK, AtHand
<1>2. (DiscordTypeOK /\ AtHand) /\ [DiscordNext]_dvars => (DiscordTypeOK /\ AtHand)'
  BY DiscordTypesKept
<1> QED
  BY <1>1, <1>2, PTL DEF DiscordSpec

\* Every variable of the bot keeps its type.
THEOREM DiscordTypeCorrect == DiscordSpec => []DiscordTypeOK
BY DiscordTypes, PTL

-------------------------------------------------------------------------
LEMMA HeartbeatKept ==
    ASSUME DiscordTypeOK, HeartbeatPresent, [DiscordNext]_dvars PROVE HeartbeatPresent'
<1> USE DEF HeartbeatPresent, connection, conversation, DiscordTypeOK
<1>1. CASE ConnectFails \/ ConnectOpens \/ HelloArrives \/ Identify \/ SocketRaises
  <2>1. CASE HelloArrives
    BY <2>1 DEF HelloArrives
  <2>2. CASE ConnectFails \/ ConnectOpens \/ Identify \/ SocketRaises
    BY <2>2 DEF ConnectFails, ConnectOpens, Identify, SocketRaises, Continue
  <2> QED
    BY <1>1, <2>1, <2>2
<1>2. CASE ReconnectAsked \/ Wake \/ BeatEnds \/ BeatRaises \/ SocketCloses \/ Shutdown
  <2>1. CASE Shutdown
    BY <2>1 DEF Shutdown
  <2>2. CASE BeatEnds \/ BeatRaises
    BY <2>2 DEF BeatEnds, BeatRaises
  <2>3. CASE ReconnectAsked \/ Wake \/ SocketCloses
    BY <2>3 DEF ReconnectAsked, Wake, SocketCloses, Continue
  <2> QED
    BY <1>2, <2>1, <2>2, <2>3
<1>3. CASE \E channel \in Channels, said \in Texts : Receive(channel, said)
  BY <1>3 DEF Receive
<1>4. CASE (\E n \in 0 .. MaxActions : Plans(n)) \/ Execute
  BY <1>4 DEF Plans, Execute
<1>5. CASE PlanFails \/ ExecuteRaises \/ Finish
  BY <1>5 DEF PlanFails, ExecuteRaises, Finish, Ends, Continue
<1>6. CASE UNCHANGED dvars
  BY <1>6 DEF dvars
<1> QED
  BY <1>1, <1>2, <1>3, <1>4, <1>5, <1>6 DEF DiscordNext, Advance

\* A greeted connection on which no heartbeat raised keeps a heartbeat thread
\* through every reconnect.
THEOREM DiscordHeartbeatPresent == DiscordSpec => []HeartbeatPresent
<1>1. DiscordInit => HeartbeatPresent
  BY DEF DiscordInit, HeartbeatPresent
<1> QED
  BY <1>1, HeartbeatKept, DiscordTypeCorrect, PTL DEF DiscordSpec

-------------------------------------------------------------------------
\* What a follow-up stands for.

\* A remembered request was said in its channel and carried out, and nothing
\* else has been carried out there since, but for repetitions of it.
Remembered(c) ==
    last_requests[c] # Nothing =>
        \E j \in DOMAIN log :
            /\ log[j].channel = c /\ log[j].done /\ log[j].said = last_requests[c]
            /\ \A k \in DOMAIN log :
                k > j /\ log[k].channel = c /\ log[k].done => log[k].does \in {Again, last_requests[c]}

OwnRequests == RepeatsOwnRequest /\ \A c \in Channels : Remembered(c)

\* An entry that is appended leaves the entries before it as they were.
LEMMA Appended ==
    ASSUME DiscordTypeOK, NEW e, log' = Append(log, e)
    PROVE  /\ DOMAIN log' = DOMAIN log \cup {Len(log) + 1} /\ Len(log) \in Nat
           /\ DOMAIN log = 1 .. Len(log)
           /\ log'[Len(log) + 1] = e /\ \A j \in DOMAIN log : log'[j] = log[j]
BY DEF DiscordTypeOK

LEMMA RepeatsKept ==
    ASSUME DiscordTypeOK, AtHand, OwnRequests, main \in {"plan", "execute"},
           NEW done \in BOOLEAN, Ends(done)
    PROVE  RepeatsOwnRequest'
<1> DEFINE entry == [channel |-> message.channel, said |-> message.said,
                     does |-> message.does, done |-> done]
           n == Len(log) + 1
<1>1. log' = Append(log, entry)
  BY DEF Ends
<1>2. /\ DOMAIN log' = DOMAIN log \cup {n} /\ n \in Nat
      /\ \A j \in DOMAIN log : j \in Nat /\ j < n /\ log'[j] = log[j]
      /\ log'[n] = entry
  BY <1>1, Appended
<1> HIDE DEF n
<1>3. ASSUME NEW i \in DOMAIN log, log[i].said = Again, log[i].does # Again
      PROVE  \E j \in DOMAIN log' :
                /\ j < i /\ log'[j].channel = log'[i].channel /\ log'[j].done
                /\ log'[j].said = log'[i].does
                /\ \A k \in DOMAIN log' :
                    k < i /\ log'[k].channel = log'[i].channel /\ log'[k].done /\ k > j
                        => log'[k].does \in {Again, log'[i].does}
  <2>1. PICK j \in DOMAIN log :
            /\ j < i /\ log[j].channel = log[i].channel /\ log[j].done
            /\ log[j].said = log[i].does
            /\ \A k \in DOMAIN log :
                k < i /\ log[k].channel = log[i].channel /\ log[k].done /\ k > j
                    => log[k].does \in {Again, log[i].does}
    BY <1>3 DEF OwnRequests, RepeatsOwnRequest, Stands
  <2>2. \A k \in DOMAIN log' : k < i => k \in DOMAIN log /\ log'[k] = log[k]
    BY <1>2
  <2>3. log'[i] = log[i] /\ log'[j] = log[j] /\ j \in DOMAIN log'
    BY <1>2
  <2> QED
    BY <2>1, <2>2, <2>3
<1>4. ASSUME entry.said = Again, entry.does # Again
      PROVE  \E j \in DOMAIN log' :
                /\ j < n /\ log'[j].channel = entry.channel /\ log'[j].done
                /\ log'[j].said = entry.does
                /\ \A k \in DOMAIN log' :
                    k < n /\ log'[k].channel = entry.channel /\ log'[k].done /\ k > j
                        => log'[k].does \in {Again, entry.does}
  <2> DEFINE c == message.channel
  <2>1. c \in Channels /\ last_requests[c] # Nothing /\ entry.does = last_requests[c]
    BY <1>4 DEF AtHand, Resolve
  <2>2. PICK j \in DOMAIN log :
            /\ log[j].channel = c /\ log[j].done /\ log[j].said = last_requests[c]
            /\ \A k \in DOMAIN log :
                k > j /\ log[k].channel = c /\ log[k].done => log[k].does \in {Again, last_requests[c]}
    BY <2>1 DEF OwnRequests, Remembered
  <2>3. \A k \in DOMAIN log' : k < n => k \in DOMAIN log /\ log'[k] = log[k]
    BY <1>2
  <2> QED
    BY <1>2, <2>1, <2>2, <2>3
<1> HIDE DEF entry
<1> QED
  BY <1>2, <1>3, <1>4 DEF RepeatsOwnRequest, Stands

LEMMA RememberedKept ==
    ASSUME DiscordTypeOK, AtHand, OwnRequests, main \in {"plan", "execute"},
           NEW done \in BOOLEAN, Ends(done),
           IF done THEN last_requests' = Remember ELSE UNCHANGED last_requests,
           NEW c \in Channels
    PROVE  Remembered(c)'
<1> DEFINE entry == [channel |-> message.channel, said |-> message.said,
                     does |-> message.does, done |-> done]
           n == Len(log) + 1
<1>1. log' = Append(log, entry)
  BY DEF Ends
<1>2. /\ DOMAIN log' = DOMAIN log \cup {n} /\ n \in Nat
      /\ \A j \in DOMAIN log : j \in Nat /\ j < n /\ log'[j] = log[j]
      /\ log'[n] = entry
  BY <1>1, Appended
<1> HIDE DEF n
\* A request of this message's own.
<1>3. CASE done /\ message.channel = c /\ message.does # Again /\ message.said = message.does
  <2>1. last_requests'[c] = message.does
    BY <1>3 DEF Remember, DiscordTypeOK
  <2>2. \A k \in DOMAIN log' : ~(k > n)
    BY <1>2
  <2>3. n \in DOMAIN log' /\ log'[n].channel = c /\ log'[n].done /\ log'[n].said = last_requests'[c]
    BY <1>2, <1>3, <2>1
  <2> QED
    BY <2>2, <2>3 DEF Remembered
\* Otherwise the channel keeps its request.
<1>4. CASE ~(done /\ message.channel = c /\ message.does # Again /\ message.said = message.does)
  <2>1. last_requests'[c] = last_requests[c]
    BY <1>4 DEF Remember, DiscordTypeOK, AtHand, Resolve
  <2>2. message.channel = c /\ done /\ last_requests[c] # Nothing
            => message.does \in {Again, last_requests[c]}
    BY <1>4 DEF AtHand, Resolve
  <2>3. ASSUME last_requests[c] # Nothing PROVE Remembered(c)'
    <3>1. PICK j \in DOMAIN log :
            /\ log[j].channel = c /\ log[j].done /\ log[j].said = last_requests[c]
            /\ \A k \in DOMAIN log :
                k > j /\ log[k].channel = c /\ log[k].done => log[k].does \in {Again, last_requests[c]}
      BY <2>3 DEF OwnRequests, Remembered
    <3>2. \A k \in DOMAIN log' : k > j /\ log'[k].channel = c /\ log'[k].done
                                    => log'[k].does \in {Again, last_requests[c]}
      BY <1>2, <2>2, <2>3, <3>1
    <3> QED
      BY <1>2, <2>1, <3>1, <3>2 DEF Remembered
  <2> QED
    BY <2>1, <2>3 DEF Remembered
<1> QED
  BY <1>3, <1>4

LEMMA OwnRequestsKept ==
    ASSUME DiscordTypeOK, AtHand, OwnRequests, [DiscordNext]_dvars PROVE OwnRequests'
<1>1. CASE UNCHANGED <<last_requests, log>>
  BY <1>1 DEF OwnRequests, RepeatsOwnRequest, Stands, Remembered
<1>2. CASE PlanFails \/ ExecuteRaises
  <2>1. main \in {"plan", "execute"} /\ Ends(FALSE) /\ UNCHANGED last_requests
    BY <1>2 DEF PlanFails, ExecuteRaises
  <2> QED
    BY <2>1, RepeatsKept, RememberedKept DEF OwnRequests
<1>3. CASE Finish
  <2>1. main \in {"plan", "execute"} /\ Ends(TRUE) /\ last_requests' = Remember
    BY <1>3 DEF Finish
  <2> QED
    BY <2>1, RepeatsKept, RememberedKept DEF OwnRequests
<1>4. PlanFails \/ ExecuteRaises \/ Finish \/ UNCHANGED <<last_requests, log>>
  BY DEF DiscordNext, Advance, ConnectFails, ConnectOpens, HelloArrives, Identify, SocketRaises,
         ReconnectAsked, Wake, BeatEnds, BeatRaises, SocketCloses, Shutdown, Receive, Plans, Execute,
         conversation, dvars
<1> QED
  BY <1>1, <1>2, <1>3, <1>4

\* A follow-up carries out what its own channel asked for last, whatever other
\* channels say and whichever messages fail in between.
THEOREM DiscordRepeatsOwnRequest == DiscordSpec => []RepeatsOwnRequest
<1>1. DiscordInit => OwnRequests
  BY DEF DiscordInit, OwnRequests, RepeatsOwnRequest, Remembered
<1>2. OwnRequests /\ (DiscordTypeOK /\ AtHand) /\ [DiscordNext]_dvars => OwnRequests'
  BY OwnRequestsKept
<1>3. OwnRequests => RepeatsOwnRequest
  BY DEF OwnRequests
<1> QED
  BY <1>1, <1>2, <1>3, DiscordTypes, PTL DEF DiscordSpec

=========================================================================
