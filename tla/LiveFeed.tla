------------------------------ MODULE LiveFeed ------------------------------
(***************************************************************************)
(* The realtime server of server-decoupled.ts: a Redis subscriber, a       *)
(* broadcaster, and the WebSocket connections it limits by IP address.     *)
(*                                                                         *)
(* Sockets are numbered in the order clients open them.  Each has a client *)
(* end (the second half of the module), a server end, and the messages on  *)
(* their way.                                                              *)
(* Events are numbered in the order the worker publishes them.             *)
(***************************************************************************)
EXTENDS Naturals, Sequences, FiniteSets

CONSTANTS
    Clients,
    Ips,
    clientIp,                  \* the address each client connects from
    MAX_WS_CONNECTIONS_PER_IP,
    MaxSockets,                \* bound: sockets opened
    MaxEvents,                 \* bound: events published
    MaxRedisLosses             \* bound: losses of the Redis connection

ASSUME BroadcastAssumption ==
    /\ IsFiniteSet(Clients) /\ clientIp \in [Clients -> Ips]
    /\ MAX_WS_CONNECTIONS_PER_IP \in Nat
    /\ {MaxSockets, MaxEvents, MaxRedisLosses} \subseteq Nat

VARIABLES
    owner,            \* the client of each socket
    clientEnd,        \* the client's end: connecting, open, closed
    serverEnd,        \* the server's end: none, open, rejected, closed
    inbox,            \* what the server has sent and the client not yet read
    connectionsByIp,
    connectedClients, \* the broadcaster's count
    subscriber,       \* Redis subscriber: down, ready, subscribed, gone,
                      \* and closed once the server shuts down
    publishedEvents,  \* events published so far
    redisLosses       \* counter for MaxRedisLosses

sockvars == <<owner, clientEnd, serverEnd, inbox>>
countvars == <<connectionsByIp, connectedClients>>
redisvars == <<subscriber, publishedEvents, redisLosses>>
servervars == <<sockvars, countvars, redisvars>>

Sockets == DOMAIN owner
Ip(s) == clientIp[owner[s]]
Event == 1 .. MaxEvents
Welcome == 0

ServerInit ==
    /\ owner = <<>> /\ clientEnd = <<>> /\ serverEnd = <<>> /\ inbox = <<>>
    /\ connectionsByIp = [ip \in Ips |-> 0] /\ connectedClients = 0
    /\ subscriber = "down" /\ publishedEvents = 0 /\ redisLosses = 0

-----------------------------------------------------------------------------
(* Connections.                                                          *)

\* A client opens a socket.
Open(c) ==
    /\ owner' = Append(owner, c)
    /\ clientEnd' = Append(clientEnd, "connecting")
    /\ serverEnd' = Append(serverEnd, "none")
    /\ inbox' = Append(inbox, <<>>)

\* Regression: the connection is counted before the limit is applied.
ConnectionCountFirst(s) ==
    /\ serverEnd[s] = "none" /\ subscriber # "closed"
    /\ connectedClients' = connectedClients + 1
    /\ connectionsByIp' = [connectionsByIp EXCEPT ![Ip(s)] = @ + 1]
    /\ IF connectionsByIp'[Ip(s)] > MAX_WS_CONNECTIONS_PER_IP
       THEN serverEnd' = [serverEnd EXCEPT ![s] = "rejected"] /\ UNCHANGED inbox
       ELSE /\ serverEnd' = [serverEnd EXCEPT ![s] = "open"]
            /\ inbox' = [inbox EXCEPT ![s] = Append(@, Welcome)]
    /\ UNCHANGED <<owner, clientEnd, redisvars>>

\* The connection handler: reject it, or count it and greet the client.
Connection(s) ==
    /\ serverEnd[s] = "none" /\ subscriber # "closed"
    /\ connectedClients' = connectedClients + 1
    /\ IF connectionsByIp[Ip(s)] + 1 > MAX_WS_CONNECTIONS_PER_IP
       THEN /\ serverEnd' = [serverEnd EXCEPT ![s] = "rejected"]
            /\ UNCHANGED <<connectionsByIp, inbox>>
       ELSE /\ connectionsByIp' = [connectionsByIp EXCEPT ![Ip(s)] = @ + 1]
            /\ serverEnd' = [serverEnd EXCEPT ![s] = "open"]
            /\ inbox' = [inbox EXCEPT ![s] = Append(@, Welcome)]
    /\ UNCHANGED <<owner, clientEnd, redisvars>>

\* The server's end closes: its client has gone, the network failed, or it was
\* rejected, and then no close listener was registered.
ServerClose(s) ==
    /\ serverEnd[s] \in {"open", "rejected"}
    /\ serverEnd' = [serverEnd EXCEPT ![s] = "closed"]
    /\ connectionsByIp' =
         IF serverEnd[s] = "rejected" THEN connectionsByIp
         ELSE [connectionsByIp EXCEPT ![Ip(s)] = IF @ = 0 THEN 0 ELSE @ - 1]
    /\ UNCHANGED <<owner, clientEnd, inbox, connectedClients, redisvars>>

-----------------------------------------------------------------------------
(* The Redis subscription and the broadcast.                             *)

\* The ready handler subscribes; a failure is only logged.
RedisReady ==
    /\ subscriber = "down"
    /\ subscriber' \in {"ready", "subscribed"}
    /\ UNCHANGED <<sockvars, countvars, publishedEvents, redisLosses>>

\* The error and close handlers; the retry strategy may give up.
RedisLost ==
    /\ subscriber \in {"ready", "subscribed"} /\ redisLosses < MaxRedisLosses
    /\ redisLosses' = redisLosses + 1
    /\ subscriber' \in {"down", "gone"}
    /\ UNCHANGED <<sockvars, countvars, publishedEvents>>

\* Regression: a message is sent to every socket there is.
BroadcastAll(e) == inbox' = [s \in Sockets |-> Append(inbox[s], e)]

\* broadcast(): to every socket that is open; rejected ones are closing.
Broadcast(e) ==
    inbox' = [s \in Sockets |-> IF serverEnd[s] = "open" THEN Append(inbox[s], e)
                                ELSE inbox[s]]

\* The worker publishes an event; Redis keeps nothing for a subscriber that is away.
Publish ==
    /\ publishedEvents < MaxEvents
    /\ publishedEvents' = publishedEvents + 1
    /\ IF subscriber = "subscribed" THEN Broadcast(publishedEvents + 1) ELSE UNCHANGED inbox
    /\ UNCHANGED <<owner, clientEnd, serverEnd, countvars, subscriber, redisLosses>>

\* gracefulShutdown(): no new connections, no subscription; sockets stay until the
\* process ends.
Shutdown ==
    /\ subscriber # "closed"
    /\ subscriber' = "closed"
    /\ UNCHANGED <<sockvars, countvars, publishedEvents, redisLosses>>

ServerNext ==
    \/ \E s \in Sockets : Connection(s) \/ ServerClose(s)
    \/ RedisReady \/ RedisLost \/ Publish \/ Shutdown

-----------------------------------------------------------------------------
(* Properties.                                                           *)

ServerTypeOK ==
    /\ owner \in Seq(Clients)
    /\ clientEnd \in [Sockets -> {"connecting", "open", "closed"}]
    /\ serverEnd \in [Sockets -> {"none", "open", "rejected", "closed"}]
    /\ inbox \in [Sockets -> Seq({Welcome} \cup Event)]
    /\ connectionsByIp \in [Ips -> 0 .. MAX_WS_CONNECTIONS_PER_IP]
    /\ connectedClients \in 0 .. Len(owner)
    /\ subscriber \in {"down", "ready", "subscribed", "gone", "closed"}
    /\ publishedEvents \in 0 .. MaxEvents /\ redisLosses \in 0 .. MaxRedisLosses

\* The count of an address is the number of its open connections, whatever closes
\* when: a rejected connection is never counted, nor subtracted at its close.
IpCountExact ==
    \A ip \in Ips :
        connectionsByIp[ip] = Cardinality({s \in Sockets : serverEnd[s] = "open" /\ Ip(s) = ip})

\* Nothing but the greeting and broadcast events reaches a client, in the order of
\* publication, and a rejected connection is sent nothing.
SentInOrder ==
    \A s \in Sockets :
        /\ \A i, j \in DOMAIN inbox[s] : i < j => inbox[s][i] < inbox[s][j]
        /\ serverEnd[s] \in {"none", "rejected"} => inbox[s] = <<>>

-----------------------------------------------------------------------------
(***************************************************************************)
(* The hook useLiveFeed of lib/hooks/useLiveFeed.ts, one per client of     *)
(* the server: a socket that reconnects with back-off while the feed       *)
(* is live, and a buffer while it is paused.                               *)
(***************************************************************************)

CONSTANT MaxAttempts   \* bound: attempts the back-off tells apart

ASSUME FeedAssumption == MaxAttempts \in Nat

VARIABLES
    isLive,          \* isLiveRef of each client
    isPaused,        \* isPausedRef
    ws,              \* wsRef: the number of the socket, 0 for null
    attached,        \* sockets that have their onclose handler
    reconnectTimer,  \* whether reconnectTimerRef holds a timer
    attempt,         \* attemptRef
    pauseBuffer,
    shown,           \* history: events handed to onEvent since the feed went live
    received         \* history: events the sockets delivered since then

feedvars == <<isLive, isPaused, ws, attached, reconnectTimer, attempt, pauseBuffer>>
seenvars == <<shown, received>>
livevars == <<servervars, feedvars, seenvars>>

FeedInit ==
    /\ ServerInit
    /\ isLive = [c \in Clients |-> FALSE] /\ isPaused = [c \in Clients |-> FALSE]
    /\ ws = [c \in Clients |-> 0] /\ attached = {}
    /\ reconnectTimer = [c \in Clients |-> FALSE] /\ attempt = [c \in Clients |-> 0]
    /\ pauseBuffer = [c \in Clients |-> <<>>]
    /\ shown = [c \in Clients |-> <<>>] /\ received = [c \in Clients |-> <<>>]

Set(f, c, v) == [f EXCEPT ![c] = v]

\* connect(): a second socket is not opened.
connect(c) ==
    IF ws[c] # 0 THEN UNCHANGED <<sockvars, ws, attached>>
    ELSE /\ Len(owner) < MaxSockets
         /\ Open(c)
         /\ ws' = Set(ws, c, Len(owner) + 1)
         /\ attached' = attached \cup {Len(owner) + 1}

\* Regression: the onclose handler stays on a socket that is closed on purpose.
closeSocketAttached(c) ==
    /\ reconnectTimer' = Set(reconnectTimer, c, FALSE)
    /\ clientEnd' = IF ws[c] = 0 THEN clientEnd ELSE Set(clientEnd, ws[c], "closed")
    /\ ws' = Set(ws, c, 0)
    /\ pauseBuffer' = Set(pauseBuffer, c, <<>>)
    /\ UNCHANGED attached

\* closeSocket(): the timer, the handler, the socket and the buffer.
closeSocket(c) ==
    /\ reconnectTimer' = Set(reconnectTimer, c, FALSE)
    /\ clientEnd' = IF ws[c] = 0 THEN clientEnd ELSE Set(clientEnd, ws[c], "closed")
    /\ attached' = attached \ {ws[c]}
    /\ ws' = Set(ws, c, 0)
    /\ pauseBuffer' = Set(pauseBuffer, c, <<>>)

\* Turning the feed off tears it down; turning it on opens a connection.
ToggleLive(c) ==
    /\ isLive' = Set(isLive, c, ~isLive[c])
    /\ IF isLive[c]
       THEN /\ closeSocket(c)
            /\ attempt' = Set(attempt, c, 0)
            /\ isPaused' = Set(isPaused, c, FALSE)
            /\ UNCHANGED <<owner, serverEnd, inbox, seenvars>>
       ELSE /\ connect(c)
            /\ shown' = Set(shown, c, <<>>) /\ received' = Set(received, c, <<>>)
            /\ UNCHANGED <<attempt, isPaused, reconnectTimer, pauseBuffer>>
    /\ UNCHANGED <<countvars, redisvars>>

\* Regression: the buffer is cleared before it is handed on.
TogglePauseForget(c) ==
    /\ isPaused' = Set(isPaused, c, ~isPaused[c])
    /\ pauseBuffer' = IF isPaused[c] THEN Set(pauseBuffer, c, <<>>) ELSE pauseBuffer
    /\ UNCHANGED <<servervars, isLive, ws, attached, reconnectTimer, attempt, seenvars>>

\* Ending a pause hands on the buffered events in their order.
TogglePause(c) ==
    /\ isPaused' = Set(isPaused, c, ~isPaused[c])
    /\ IF isPaused[c]
       THEN /\ shown' = [shown EXCEPT ![c] = @ \o pauseBuffer[c]]
            /\ pauseBuffer' = Set(pauseBuffer, c, <<>>)
       ELSE UNCHANGED <<shown, pauseBuffer>>
    /\ UNCHANGED <<servervars, isLive, ws, attached, reconnectTimer, attempt, received>>

\* onopen: the handshake succeeded, also when the server then rejects the client.
OnOpen(s) ==
    /\ clientEnd[s] = "connecting" /\ serverEnd[s] # "none"
    /\ clientEnd' = Set(clientEnd, s, "open")
    /\ attempt' = Set(attempt, owner[s], 0)
    /\ UNCHANGED <<owner, serverEnd, inbox, countvars, redisvars, isLive, isPaused, ws, attached,
                   reconnectTimer, pauseBuffer, seenvars>>

\* onmessage: buffer the message or hand it on, the greeting too.
OnMessage(s) ==
    LET c == owner[s]
    IN  /\ clientEnd[s] = "open" /\ inbox[s] # <<>>
        /\ inbox' = Set(inbox, s, Tail(inbox[s]))
        /\ received' = [received EXCEPT ![c] = Append(@, Head(inbox[s]))]
        /\ IF isPaused[c]
           THEN /\ pauseBuffer' = [pauseBuffer EXCEPT ![c] = Append(@, Head(inbox[s]))]
                /\ UNCHANGED shown
           ELSE /\ shown' = [shown EXCEPT ![c] = Append(@, Head(inbox[s]))]
                /\ UNCHANGED pauseBuffer
        /\ UNCHANGED <<owner, clientEnd, serverEnd, countvars, redisvars, isLive, isPaused, ws,
                       attached, reconnectTimer, attempt>>

\* The close event of a socket: a live feed schedules its reconnection.
OnClose(s) ==
    LET c == owner[s]
        again == s \in attached /\ isLive[c]
    IN  /\ clientEnd[s] # "closed" \/ s \in attached
        /\ clientEnd' = Set(clientEnd, s, "closed")
        /\ attached' = attached \ {s}
        /\ ws' = IF s \in attached THEN Set(ws, c, 0) ELSE ws
        /\ reconnectTimer' = IF again THEN Set(reconnectTimer, c, TRUE) ELSE reconnectTimer
        /\ attempt' = IF again /\ attempt[c] < MaxAttempts THEN Set(attempt, c, attempt[c] + 1)
                      ELSE attempt
        /\ UNCHANGED <<owner, serverEnd, inbox, countvars, redisvars, isLive, isPaused,
                       pauseBuffer, seenvars>>

\* Regression: the timer that fires connects only after a first attempt.
ReconnectNever(c) ==
    /\ reconnectTimer[c]
    /\ reconnectTimer' = Set(reconnectTimer, c, FALSE)
    /\ IF isLive[c] /\ attempt[c] > 1 THEN connect(c) ELSE UNCHANGED <<sockvars, ws, attached>>
    /\ UNCHANGED <<countvars, redisvars, isLive, isPaused, attempt, pauseBuffer, seenvars>>

\* The reconnection timer fires.
Reconnect(c) ==
    /\ reconnectTimer[c]
    /\ reconnectTimer' = Set(reconnectTimer, c, FALSE)
    /\ IF isLive[c] THEN connect(c) ELSE UNCHANGED <<sockvars, ws, attached>>
    /\ UNCHANGED <<countvars, redisvars, isLive, isPaused, attempt, pauseBuffer, seenvars>>

\* Unmounting the component tears the feed down; the next mount starts afresh.
Unmount(c) ==
    /\ isLive' = Set(isLive, c, FALSE)
    /\ closeSocket(c)
    /\ attempt' = Set(attempt, c, 0)
    /\ isPaused' = Set(isPaused, c, FALSE)
    /\ UNCHANGED <<owner, serverEnd, inbox, countvars, redisvars, seenvars>>

FeedNext ==
    \/ ServerNext /\ UNCHANGED <<feedvars, seenvars>>
    \/ \E c \in Clients : ToggleLive(c) \/ TogglePause(c) \/ Reconnect(c) \/ Unmount(c)
    \/ \E s \in Sockets : OnOpen(s) \/ OnMessage(s) \/ OnClose(s)

FeedSpec == FeedInit /\ [][FeedNext]_livevars

-----------------------------------------------------------------------------
(* Properties.                                                           *)

FeedTypeOK ==
    /\ ServerTypeOK
    /\ isLive \in [Clients -> BOOLEAN] /\ isPaused \in [Clients -> BOOLEAN]
    /\ reconnectTimer \in [Clients -> BOOLEAN]
    /\ ws \in [Clients -> {0} \cup Sockets] /\ attached \subseteq Sockets
    /\ attempt \in [Clients -> 0 .. MaxAttempts]
    /\ pauseBuffer \in [Clients -> Seq({Welcome} \cup Event)]
    /\ shown \in [Clients -> Seq({Welcome} \cup Event)]
    /\ received \in [Clients -> Seq({Welcome} \cup Event)]

\* A client has at most one socket that is not closed, the one wsRef holds, and a
\* feed turned off has none: no reconnection outlives it.
OneSocket ==
    /\ \A s \in Sockets : clientEnd[s] # "closed" => ws[owner[s]] = s
    /\ \A c \in Clients : ~isLive[c] => ws[c] = 0 /\ ~reconnectTimer[c]

\* A live feed never stalls: it has a socket or the timer that opens the next.
NeverStalls == \A c \in Clients : isLive[c] => ws[c] # 0 \/ reconnectTimer[c]

\* While the feed is live every event its sockets receive is shown once and in the
\* order of publication, across pauses and reconnections; nothing buffered is lost.
ShownOnceInOrder ==
    \A c \in Clients :
        /\ isLive[c] => shown[c] \o pauseBuffer[c] = received[c]
        /\ \A i, j \in DOMAIN received[c] :
             i < j /\ Welcome \notin {received[c][i], received[c][j]} => received[c][i] < received[c][j]

\* The server counts its connections and sends in order, and each feed shows what its
\* one socket receives.
FeedSafety ==
    FeedTypeOK /\ SentInOrder /\ OneSocket /\ NeverStalls /\ ShownOnceInOrder

\* From the limit on connections to the list on the screen: the count of an address is
\* that of its sockets, and a client is shown what its sockets delivered, in order.
RealtimeSafety == IpCountExact /\ FeedSafety
=============================================================================
