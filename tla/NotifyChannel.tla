--------------------------- MODULE NotifyChannel ---------------------------
(***************************************************************************)
(* Run notifications between the supervisor and the platform:             *)
(*  - SupervisorSession (packages/cli-v3/src/utilities/eventBus.ts 80-272):*)
(*    start, createSocket, subscribe/unsubscribeToRunNotifications, the   *)
(*    socket's run:notify / connect / disconnect handlers, and stop;      *)
(*  - the platform's /worker namespace (unnamed/part_003 385-521): the    *)
(*    auth middleware, the per-connection room set and the run:subscribe *)
(*    and run:unsubscribe handlers.                                       *)
(* A client emit is a record appended to `outbox`; socket.io buffers it   *)
(* while disconnected and the server handles it in order once connected. *)
(* A message is a record whose fields are the ones the client sends; the *)
(* server's destructuring of a field the record lacks yields undefined.  *)
(* The platform's run:notify sender is not under src/ (spec 4.6, 213).    *)
(***************************************************************************)
EXTENDS Naturals, Sequences, FiniteSets

CONSTANTS
    Runs,     \* run friendly ids the supervisor subscribes to
    MaxMsgs   \* bound on emitted subscribe/unsubscribe messages

VARIABLES
    session,    \* "idle" | "started" | "stopped"
    socket,     \* this.socket is defined (createSocket ran)
    connected,  \* the socket.io connection is up
    kicked,     \* the server disconnected the socket (no auto-reconnect)
    outbox,     \* emitted, not yet handled by the server
    sent,       \* messages emitted so far (bounded by MaxMsgs)
    rooms,      \* runs whose room `run:{id}` this connection has joined
    wanted,     \* runs subscribed and not unsubscribed since (history)
    notified    \* runs for which a runNotification event was emitted

vars == <<session, socket, connected, kicked, outbox, sent, rooms, wanted, notified>>

Init ==
    /\ session = "idle" /\ socket = FALSE /\ connected = FALSE /\ kicked = FALSE
    /\ outbox = <<>> /\ sent = 0 /\ rooms = {} /\ wanted = {} /\ notified = {}

(* start(): httpClient.connect succeeded, then the queue consumer, the    *)
(* heartbeat and createSocket (io() starts connecting in the background). *)
(* A failed HTTP connect throws and changes nothing.                      *)
Start ==
    /\ session = "idle"
    /\ session' = "started" /\ socket' = TRUE
    /\ UNCHANGED <<connected, kicked, outbox, sent, rooms, wanted, notified>>

(* subscribeToRunNotifications / unsubscribeFromRunNotifications: return *)
(* when there is no socket, else emit with field runFriendlyIds.          *)
Emit(kind, ids) ==
    /\ sent < MaxMsgs
    /\ IF socket
       THEN /\ outbox' = Append(outbox, [event |-> kind, version |-> "1", runFriendlyIds |-> ids])
            /\ sent' = sent + 1
       ELSE UNCHANGED <<outbox, sent>>

SubscribeToRunNotifications(r) ==
    /\ Emit("run:subscribe", {r})
    /\ wanted' = IF socket THEN wanted \cup {r} ELSE wanted
    /\ UNCHANGED <<session, socket, connected, kicked, rooms, notified>>

UnsubscribeFromRunNotifications(r) ==
    /\ Emit("run:unsubscribe", {r})
    /\ wanted' = IF socket THEN wanted \ {r} ELSE wanted
    /\ UNCHANGED <<session, socket, connected, kicked, rooms, notified>>

(* socket.io (re)connects: the server's auth middleware succeeds and the  *)
(* "connection" handler starts with an empty room set.  The client's      *)
(* "connect" handler only logs.                                           *)
Connect ==
    /\ socket /\ ~connected /\ ~kicked /\ session = "started"
    /\ connected' = TRUE /\ rooms' = {}
    /\ UNCHANGED <<session, socket, kicked, outbox, sent, wanted, notified>>

(* The auth middleware rejects the handshake: socket.disconnect(true).    *)
AuthRejected ==
    /\ socket /\ ~connected /\ ~kicked /\ session = "started"
    /\ kicked' = TRUE
    /\ UNCHANGED <<session, socket, connected, outbox, sent, rooms, wanted, notified>>

(* The transport drops: the server socket and its rooms are gone, and     *)
(* packets already written (a prefix of the outbox) are lost.             *)
ConnectionLost ==
    /\ connected
    /\ connected' = FALSE /\ rooms' = {}
    /\ \E k \in 0..Len(outbox) : outbox' = SubSeq(outbox, k + 1, Len(outbox))
    /\ UNCHANGED <<session, socket, kicked, sent, wanted, notified>>

(* The server's run:subscribe / run:unsubscribe handlers destructure      *)
(* { version, runIds }; runIds.map throws when the field is absent, and   *)
(* the rejected handler joins or leaves nothing.                          *)
RunIds(m) == IF "runIds" \in DOMAIN m THEN m.runIds ELSE {}

HandleClientMessage ==
    /\ connected /\ outbox # <<>>
    /\ LET m == Head(outbox) IN
         rooms' = IF m.event = "run:subscribe" THEN rooms \cup RunIds(m) ELSE rooms \ RunIds(m)
    /\ outbox' = Tail(outbox)
    /\ UNCHANGED <<session, socket, connected, kicked, sent, wanted, notified>>

(* The platform pushes run:notify to room run:{id}; the supervisor's      *)
(* handler emits "runNotification".                                       *)
RunNotify(r) ==
    /\ connected /\ r \in rooms
    /\ notified' = notified \cup {r}
    /\ UNCHANGED <<session, socket, connected, kicked, outbox, sent, rooms, wanted>>

(* stop(): stop the heartbeat and disconnect; this.socket stays defined.  *)
Stop ==
    /\ session = "started"
    /\ session' = "stopped" /\ connected' = FALSE /\ rooms' = {}
    /\ UNCHANGED <<socket, kicked, outbox, sent, wanted, notified>>

Next ==
    \/ Start
    \/ \E r \in Runs : SubscribeToRunNotifications(r)
    \/ \E r \in Runs : UnsubscribeFromRunNotifications(r)
    \/ Connect
    \/ AuthRejected
    \/ ConnectionLost
    \/ HandleClientMessage
    \/ \E r \in Runs : RunNotify(r)
    \/ Stop

Spec == Init /\ [][Next]_vars
-----------------------------------------------------------------------------
(* Once the supervisor is connected and the server has handled every run: *)
(* subscribe/unsubscribe it emitted, the connection is in the room of     *)
(* every run it subscribed to, so the platform's run:notify reaches it.   *)
SubscriptionsJoined ==
    (connected /\ outbox = <<>>) => wanted \subseteq rooms
=============================================================================
