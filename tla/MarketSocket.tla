---------------------------- MODULE MarketSocket ----------------------------
(***************************************************************************)
(* The WebSocket of the web client (frontend/src/lib/ws/marketSocket.ts),  *)
(* the hooks that use it, and its server (ws/routes.py, ws/manager.py).    *)
(* One object keeps the current socket, the topics the pages want, and the *)
(* timer of the next attempt to connect.  Every page that opens asks for a *)
(* ticket, valid for at most two minutes, and connects with it.            *)
(*                                                                         *)
(* A socket is closed at once but reports that later; what it reports goes *)
(* to handlers that do not ask whether it is still the current one.  The   *)
(* network may break a connection, or leave it open without a sign.        *)
(*                                                                         *)
(* Sockets and tickets are numbered as they are made.  Limits on topics    *)
(* and on subscriptions in a time (ws/topics.py) are not reached here;     *)
(* quotes and private events go to all sockets that are open, verified and *)
(* subscribed, and are left out.                                           *)
(*                                                                         *)
(* OpensBare is a faulty variant of the definition after it; the           *)
(* specification does not use it.                                          *)
(***************************************************************************)
EXTENDS Naturals, Sequences, FiniteSets

CONSTANTS
  Topics,
  MaxSockets,   \* bound: sockets ever opened
  MaxTickets,   \* bound: tickets ever given out
  MaxAttempts,  \* MAX_RECONNECT_ATTEMPTS
  MaxChanges    \* bound: topics that pages want or drop

ASSUME SocketsAssumption == MaxSockets \in Nat

VARIABLES
  current,    \* ws; 0 if there is none
  ticket,     \* token
  shouldRun, status, attempts,
  timer,      \* reconnectTimer is set
  heartbeat,  \* heartbeatTimer is set
  topics,
  socket,     \* the sockets
  tickets,    \* given out so far
  expired,    \* tickets that are too old
  changes

clientVars == <<current, ticket, shouldRun, status, attempts, timer, heartbeat, topics>>
socketVars == <<current, ticket, shouldRun, status, attempts, timer, heartbeat, topics, socket,
                tickets, expired, changes>>

NoSocket == [state |-> "none", ticket |-> 0, verified |-> FALSE, code |-> 0,
             sent |-> <<>>, subs |-> {}]
AuthCode == 1008

SocketInit ==
  /\ current = 0 /\ ticket = 0 /\ shouldRun = FALSE /\ status = "idle" /\ attempts = 0
  /\ timer = FALSE /\ heartbeat = FALSE /\ topics = {}
  /\ socket = [i \in 1 .. MaxSockets |-> NoSocket]
  /\ tickets = 0 /\ expired = {} /\ changes = 0

Made == {i \in 1 .. MaxSockets : socket[i].state # "none"}
Alive == {i \in Made : socket[i].state \in {"connecting", "open", "deaf"}}
IsOpen == current # 0 /\ socket[current].state \in {"open", "deaf"}

(* close() of a socket: its close event is still to come. *)
Closing(sockets, i) ==
  IF i \in Alive THEN [sockets EXCEPT ![i].state = "closing"] ELSE sockets

(* open() *)
Opens(sockets, t) ==
  LET i == Cardinality(Made) + 1 IN
  /\ i <= MaxSockets /\ current' = i /\ status' = "connecting"
  /\ socket' = [sockets EXCEPT ![i].state = "connecting", ![i].ticket = t]

Sends(sockets, message) ==
  IF IsOpen THEN [sockets EXCEPT ![current].sent = Append(@, message)] ELSE sockets
-----------------------------------------------------------------------------
(* A page opens: it gets a ticket and connects (useMarketSocket,           *)
(* useSimTradeSocket, useDecisionRoomSocket); two that are given out in    *)
(* the same second are the same.                                           *)
Connect ==
  \E t \in {tickets + 1} \cup {s \in {tickets} : s # 0 /\ s \notin expired} :
    /\ t <= MaxTickets /\ tickets' = t
    /\ IF current # 0 /\ ticket = t /\ status \in {"open", "connecting"}
       THEN UNCHANGED <<current, ticket, shouldRun, status, attempts, socket>>
       ELSE /\ ticket' = t /\ shouldRun' = TRUE /\ attempts' = 0
            /\ Opens(IF current = 0 THEN socket ELSE Closing(socket, current), t)
    /\ UNCHANGED <<timer, heartbeat, topics, expired, changes>>

(* close(): the user logs out. *)
Close ==
  /\ status # "idle"
  /\ shouldRun' = FALSE /\ heartbeat' = FALSE /\ timer' = FALSE /\ status' = "idle"
  /\ current' = 0 /\ socket' = IF current = 0 THEN socket ELSE Closing(socket, current)
  /\ UNCHANGED <<ticket, attempts, topics, tickets, expired, changes>>

Subscribe(topic) ==
  /\ topic \notin topics /\ changes < MaxChanges /\ changes' = changes + 1
  /\ topics' = topics \cup {topic}
  /\ socket' = Sends(socket, [subscribes |-> TRUE, topics |-> {topic}])
  /\ UNCHANGED <<current, ticket, shouldRun, status, attempts, timer, heartbeat, tickets, expired>>

Unsubscribe(topic) ==
  /\ topic \in topics /\ changes < MaxChanges /\ changes' = changes + 1
  /\ topics' = topics \ {topic}
  /\ socket' = Sends(socket, [subscribes |-> FALSE, topics |-> {topic}])
  /\ UNCHANGED <<current, ticket, shouldRun, status, attempts, timer, heartbeat, tickets, expired>>

(* onopen *)
OpensBare(sockets) == sockets
Resubscribed(sockets) ==
  IF topics # {} /\ current # 0 /\ sockets[current].state \in {"open", "deaf"}
  THEN [sockets EXCEPT ![current].sent = Append(@, [subscribes |-> TRUE, topics |-> topics])]
  ELSE sockets

OnOpen(i) ==
  /\ socket[i].state = "connecting"
  /\ attempts' = 0 /\ status' = "open" /\ heartbeat' = TRUE
  /\ socket' = Resubscribed([socket EXCEPT ![i].state = "open"])
  /\ UNCHANGED <<current, ticket, shouldRun, timer, topics, tickets, expired, changes>>

(* onclose, scheduleReconnect *)
OnClose(i) ==
  /\ socket[i].state = "closing"
  /\ socket' = [socket EXCEPT ![i].state = "closed"]
  /\ heartbeat' = FALSE /\ current' = 0
  /\ IF socket[i].code = AuthCode
     THEN shouldRun' = FALSE /\ status' = "error" /\ UNCHANGED <<timer, attempts>>
     ELSE IF ~shouldRun THEN status' = "closed" /\ UNCHANGED <<shouldRun, timer, attempts>>
     ELSE IF attempts >= MaxAttempts
     THEN shouldRun' = FALSE /\ status' = "error" /\ UNCHANGED <<timer, attempts>>
     ELSE /\ status' = "closed" /\ timer' = TRUE /\ attempts' = attempts + 1
          /\ UNCHANGED shouldRun
  /\ UNCHANGED <<ticket, topics, tickets, expired, changes>>

Reconnect ==
  /\ timer /\ timer' = FALSE /\ Opens(socket, ticket)
  /\ UNCHANGED <<ticket, shouldRun, attempts, heartbeat, topics, tickets, expired, changes>>

(* The pong does not come: armPongTimer. *)
PongTimeout ==
  /\ heartbeat /\ current # 0 /\ socket[current].state = "deaf"
  /\ socket' = Closing(socket, current)
  /\ UNCHANGED <<clientVars, tickets, expired, changes>>
-----------------------------------------------------------------------------
(* The server accepts a socket, then looks at its ticket (ws_v1).          *)
Verify(i) ==
  /\ socket[i].state = "open" /\ ~socket[i].verified
  /\ socket' = IF socket[i].ticket \in expired
               THEN [socket EXCEPT ![i].state = "closing", ![i].code = AuthCode]
               ELSE [socket EXCEPT ![i].verified = TRUE]
  /\ UNCHANGED <<clientVars, tickets, expired, changes>>

(* _handle, ConnectionManager.subscribe, unsubscribe *)
Handle(i) ==
  /\ socket[i].state = "open" /\ socket[i].verified /\ socket[i].sent # <<>>
  /\ LET m == Head(socket[i].sent) IN
     socket' = [socket EXCEPT ![i].sent = Tail(@),
                  ![i].subs = IF m.subscribes THEN @ \cup m.topics ELSE @ \ m.topics]
  /\ UNCHANGED <<clientVars, tickets, expired, changes>>

(* The network breaks a connection, or goes silent. *)
Break(i) ==
  /\ i \in Alive
  /\ \E state \in {"closing"} \cup (IF socket[i].state = "open" THEN {"deaf"} ELSE {}) :
       socket' = [socket EXCEPT ![i].state = state]
  /\ UNCHANGED <<clientVars, tickets, expired, changes>>

Expire(t) ==
  /\ t \notin expired /\ expired' = expired \cup {t}
  /\ UNCHANGED <<clientVars, socket, tickets, changes>>

SocketNext ==
  \/ Connect \/ Close \/ Reconnect \/ PongTimeout
  \/ \E topic \in Topics : Subscribe(topic) \/ Unsubscribe(topic)
  \/ \E i \in Made : OnOpen(i) \/ OnClose(i) \/ Verify(i) \/ Handle(i) \/ Break(i)
  \/ \E t \in 1 .. tickets : Expire(t)

SocketSpec == SocketInit /\ [][SocketNext]_socketVars
-----------------------------------------------------------------------------
(* However often connections are lost and made again, the server sends the *)
(* current socket exactly the topics the pages want, once it has handled   *)
(* what it was sent (onopen subscribes again).                             *)
TopicsRestored ==
  current # 0 /\ socket[current].state = "open" /\ socket[current].verified
    /\ socket[current].sent = <<>>
    => socket[current].subs = topics
=============================================================================
