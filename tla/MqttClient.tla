----------------------------- MODULE MqttClient -----------------------------
(***************************************************************************)
(* The MQTT client of the runtime, core/js/tjs/mqtt.js, class MQTTClient.  *)
(*                                                                         *)
(* The client runs on one event loop.  Each call of connect() is an        *)
(* asynchronous function; every await in it is a point where any other     *)
(* callback of the loop may run, so several attempts can be under way at   *)
(* once.  An attempt is a member of Attempts, and names the socket it      *)
(* creates as well.  pc[a] says which await attempt a is suspended at, or  *)
(* which microtask of it is ready to run (Ready).  The broker, the network *)
(* and the resolver appear as the actions that settle those awaits.        *)
(*                                                                         *)
(* Time is abstracted: a timer may fire at any moment its order allows.    *)
(* The 0 ms timers (reconnect() and close()) are the FIFO queue timers;    *)
(* all timers run only once the microtask queue is empty (timers.c:90).    *)
(***************************************************************************)
EXTENDS Naturals, Sequences, FiniteSets

CONSTANTS
  Attempts,     \* slots for concurrent calls of connect(), and their sockets
  Msgs,         \* the messages the application publishes, each at most once
  Acked,        \* those of QoS 1
  Topics,       \* topic filters
  StoreLimit,   \* the 100 of publish()
  MaxTimers,    \* bound of the model: 0 ms timers queued at once
  Reopen,       \* may the application call open() again after close()?
  LateLookup,   \* may a name lookup outlast the start of a later attempt?
  None

ASSUME ConstantsAssumption ==
  /\ Acked \subseteq Msgs
  /\ StoreLimit \in Nat
  /\ MaxTimers \in Nat
  /\ Reopen \in BOOLEAN
  /\ LateLookup \in BOOLEAN
  /\ None \notin Attempts
  /\ "user" \notin Attempts
  /\ None # "user"
  /\ None \notin Seq(Msgs)

VARIABLES
  readyState,   \* this.readyState
  checkTimer,   \* this._checkTimer is set: the 2 s interval is running
  parser,       \* this._mqttParser is set
  store,        \* the queue of this._cacheStore, None when it is undefined
  topics,       \* the keys of this._subscribeTopics
  outgoing,     \* this._outgoingPromises: key -> who awaits it, or None
  ready,        \* this._readyPromise and the fate of its promise
  closing,      \* close() is suspended in sendDisconnect()
  timers,       \* 0 ms timers, in the order they will fire
  due,          \* in the loop's timers phase, how many of them are yet to run;
                \* None in its poll phase
  draining,     \* the loop is running the ready microtasks, all of them
  socket,       \* this._socket
  conn,         \* the native socket and broker session of each attempt
  pc,           \* where each call of connect() is
  on,           \* the socket an attempt's pending write was issued on
  item,         \* the topic an attempt is re-subscribing
  rest,         \* the topics its re-subscription loop has yet to visit
  cache,        \* its cacheStore is still the client's one
  phase,        \* the life of each message
  by,           \* who is sending it: an attempt's flush, or the user
  to,           \* the socket it was written on
  copies        \* how many PUBLISH packets carried it (history)

client == <<readyState, checkTimer, parser, store, topics, outgoing, ready,
            closing>>
loop == <<timers, due, draining>>
attempt == <<pc, on, item, rest, cache>>
message == <<phase, by, to, copies>>
vars == <<client, loop, socket, conn, attempt, message>>

Owners == Attempts \cup {"user"}

(***************************************************************************)
(* The keys of _outgoingPromises.  The code appends the packet id; ids in  *)
(* use at one time differ (MqttMessageId looks at the counter), so a key   *)
(* names the request instead.                                              *)
(***************************************************************************)
Connect == <<"connect">>
Publish(m) == <<"publish", m>>
Subscribe(t, o) == <<"subscribe", t, o>>
Unsubscribe(t) == <<"unsubscribe", t>>
Keys == {Connect} \cup {Publish(m) : m \in Msgs}
          \cup {Subscribe(t, o) : t \in Topics, o \in Owners}
          \cup {Unsubscribe(t) : t \in Topics}

States == {"INIT", "CONNECTING", "OPEN", "CLOSED"}
Waits == {"lookup", "tcp", "connwrite", "connack", "subwrite", "suback", "pub"}
Ready == {"tcpup", "accepted", "resub", "flush", "failed"}
Phases == {"new", "cached", "writing", "waiting", "done", "failed",
           "refused", "dropped"}
Gone == [state |-> "closed", accepted |-> FALSE, subs |-> {}, inflight |-> {}]
Conns == [state : {"closed", "connecting", "up", "broken", "eof"}, accepted : BOOLEAN,
          subs : SUBSET Topics, inflight : SUBSET Keys]

(* One type invariant for the component. *)
TypeOK ==
  /\ readyState \in States
  /\ checkTimer \in BOOLEAN
  /\ parser \in BOOLEAN
  /\ store \in Seq(Msgs) \cup {None}
  /\ topics \subseteq Topics
  /\ outgoing \in [Keys -> Owners \cup {None}]
  /\ ready \in [pending : BOOLEAN,
                promise : {"none", "pending", "resolved", "rejected"}]
  /\ closing \in BOOLEAN
  /\ timers \in Seq({"connect", "sockclose"})
  /\ due \in Nat \cup {None}
  /\ draining \in BOOLEAN
  /\ socket \in Attempts \cup {None}
  /\ conn \in [Attempts -> Conns]
  /\ pc \in [Attempts -> {"idle"} \cup Waits \cup Ready]
  /\ on \in [Attempts -> Attempts \cup {None}]
  /\ item \in [Attempts -> Topics \cup {None}]
  /\ rest \in [Attempts -> SUBSET Topics]
  /\ cache \in [Attempts -> BOOLEAN]
  /\ phase \in [Msgs -> Phases]
  /\ by \in [Msgs -> Owners \cup {None}]
  /\ to \in [Msgs -> Attempts \cup {None}]
  /\ copies \in [Msgs -> Nat]

Init ==
  /\ readyState = "INIT"
  /\ checkTimer = FALSE
  /\ parser = FALSE
  /\ store = None
  /\ topics = {}
  /\ outgoing = [k \in Keys |-> None]
  /\ ready = [pending |-> FALSE, promise |-> "none"]
  /\ closing = FALSE
  /\ timers = <<>>
  /\ due = None
  /\ draining = FALSE
  /\ socket = None
  /\ conn = [a \in Attempts |-> Gone]
  /\ pc = [a \in Attempts |-> "idle"]
  /\ on = [a \in Attempts |-> None]
  /\ item = [a \in Attempts |-> None]
  /\ rest = [a \in Attempts |-> {}]
  /\ cache = [a \in Attempts |-> FALSE]
  /\ phase = [m \in Msgs |-> "new"]
  /\ by = [m \in Msgs |-> None]
  /\ to = [m \in Msgs |-> None]
  /\ copies = [m \in Msgs |-> 0]

-----------------------------------------------------------------------------
(* Helpers *)

(* The loop delivers I/O in its poll phase.  A closed handle's pending      *)
(* connect and writes are cancelled before the next timers phase, which    *)
(* runs the timers that were due when it began; each timer callback first  *)
(* runs every ready microtask (timers.c:90).                               *)
InPoll == due = None /\ ~draining

Cancelled(s) == s # None /\ conn[s].state = "closed"

NothingCancelled ==
  /\ \A a \in Attempts : pc[a] = "tcp" => conn[a].state # "closed"
  /\ \A a \in Attempts : ~Cancelled(on[a])
  /\ \A m \in Msgs : ~Cancelled(to[m])

InTimers == due # None /\ \A a \in Attempts : pc[a] \notin Ready

(* A microtask ran: no callback runs before the last ready one has.        *)
Drains == draining' = \E b \in Attempts : pc'[b] \in Ready

(* The record of connections after the current socket was closed. *)
CloseCurrent(cs) ==
  IF socket = None THEN cs ELSE [cs EXCEPT ![socket] = Gone]

(* Mutant: the socket is forgotten, not closed. *)
ForgetSocket(cs) ==
  /\ socket' = None
  /\ conn' = cs
  /\ readyState' = "CLOSED"

(* _onSocketClose: whatever socket is current is closed, the state is      *)
(* CLOSED.  cs is conn after the caller's own change.                      *)
OnSocketClose(cs) ==
  /\ socket' = None
  /\ conn' = CloseCurrent(cs)
  /\ readyState' = "CLOSED"

(* _resolvePromise('ready', ...) after readyPromise.pending = false. *)
SettleReady(result) ==
  ready' = [pending |-> FALSE,
            promise |-> IF ready.promise = "pending" THEN result
                                                     ELSE ready.promise]

(* The part of reconnect() before its timer: a new ready promise unless    *)
(* the last one is thought to be pending.                                  *)
Reconnect ==
  /\ ready' = IF ready.pending THEN ready
              ELSE [pending |-> TRUE, promise |-> "pending"]
  /\ timers' = Append(timers, "connect")

(* Owner o is suspended on the promise of key k.  An attempt whose own     *)
(* timer already rejected it no longer is, though its entry stays behind.  *)
Awaits(o, k) ==
  /\ o \in Attempts
  /\ \/ k = Connect /\ pc[o] = "connack"
     \/ pc[o] = "suback" /\ k = Subscribe(item[o], o)
     \/ \E m \in Msgs : k = Publish(m) /\ by[m] = o /\ phase[m] = "waiting"

(* The entry of a request for whose acknowledgement o now waits. *)
CreatePromise(k, o) == outgoing' = [outgoing EXCEPT ![k] = o]

(* Key k is on the wire of socket s, for the broker to answer. *)
OnWire(s, k) ==
  IF s = None THEN conn ELSE [conn EXCEPT ![s].inflight = @ \cup {k}]

(* A write on socket s can complete: `this._socket?.write` with no socket  *)
(* resolves and writes nothing.                                            *)
CanWrite(s) == s # None => conn[s].state = "up"

(* conn after a write on s failed: the peer is gone (EPIPE), or the socket *)
(* was closed with the write still queued (ECANCELED).                     *)
Broken(s) ==
  IF s # None /\ conn[s].state = "up" THEN [conn EXCEPT ![s].state = "broken"]
  ELSE conn

CanRead(s) == conn[s].state \in {"up", "broken"}

(* Bounds of the model: attempt slot a, and its socket, are free; without  *)
(* LateLookup the resolver has answered by the time a new attempt starts.  *)
Free(a) ==
  /\ pc[a] = "idle" /\ conn[a] = Gone
  /\ \A b \in Attempts : on[b] # a
  /\ \A m \in Msgs : to[m] # a
  /\ LateLookup \/ \A b \in Attempts : pc[b] # "lookup"

(* There is a slot for every attempt the queued timers will start. *)
Connects == {i \in 1 .. Len(timers) : timers[i] = "connect"}

Room ==
  /\ Len(timers) < MaxTimers
  /\ LateLookup \/ Connects = {}
  /\ Cardinality(Connects) < Cardinality({a \in Attempts : Free(a)})

-----------------------------------------------------------------------------
(* The application's calls *)

(* open(): nothing while the check timer runs; otherwise a new cache, a    *)
(* parser unless one is left, the timer, and reconnect().                  *)
Open ==
  /\ ~checkTimer
  /\ Reopen \/ readyState = "INIT"
  /\ Room
  /\ checkTimer' = TRUE
  /\ parser' = TRUE
  /\ store' = <<>>
  /\ Reconnect
  /\ UNCHANGED <<readyState, topics, outgoing, closing, due, draining, socket,
                 conn, attempt, message>>

(* Mutant: close() does not schedule _onSocketClose. *)
CloseKeepsSocket ==
  /\ readyState' = "CLOSED"
  /\ store' = None
  /\ cache' = [a \in Attempts |-> FALSE]
  /\ checkTimer' = FALSE
  /\ UNCHANGED timers

(* The end of close(): the state, the cache, the check timer, and          *)
(* _onSocketClose left to a 0 ms timer.                                    *)
CloseEnd ==
  /\ readyState' = "CLOSED"
  /\ store' = None
  /\ cache' = [a \in Attempts |-> FALSE]
  /\ checkTimer' = FALSE
  /\ timers' = Append(timers, "sockclose")

(* Messages that only close() discards: those still in the cache. *)
Discard(ph) ==
  [m \in Msgs |-> IF ph[m] = "cached" THEN "dropped" ELSE ph[m]]

(* close(): every pending promise is rejected and the parser dropped.  An  *)
(* OPEN client then awaits the DISCONNECT packet before the rest.          *)
Close ==
  /\ ~closing
  /\ Len(timers) < MaxTimers
  /\ outgoing' = [k \in Keys |-> None]
  /\ ready' = [ready EXCEPT !.promise = IF @ = "pending" THEN "rejected" ELSE @]
  /\ parser' = FALSE
  /\ LET hit == {k \in Keys : Awaits(outgoing[k], k)}
         rejected == [m \in Msgs |->
                        IF phase[m] = "waiting" /\ outgoing[Publish(m)] # None
                        THEN "failed" ELSE phase[m]]
     IN /\ pc' = [a \in Attempts |->
                    IF \E k \in hit : outgoing[k] = a THEN "failed" ELSE pc[a]]
        /\ IF readyState = "OPEN"
           THEN /\ closing' = TRUE
                /\ phase' = rejected
                /\ UNCHANGED <<readyState, store, cache, checkTimer, timers>>
           ELSE /\ CloseEnd
                /\ phase' = Discard(rejected)
                /\ UNCHANGED closing
  /\ UNCHANGED <<topics, due, draining, socket, conn, on, item, rest, by, to,
                 copies>>

(* sendDisconnect() returned: it swallows a failed write. *)
CloseFinish ==
  /\ closing
  /\ Len(timers) < MaxTimers
  /\ closing' = FALSE
  /\ CloseEnd
  /\ phase' = Discard(phase)
  /\ UNCHANGED <<parser, topics, outgoing, ready, due, draining, socket, conn,
                 pc, on, item, rest, by, to, copies>>

(* publish() while not OPEN: cached unless the cache is over its limit.    *)
(* Without a cache the call still resolves and the message is gone.        *)
PublishOffline(m) ==
  /\ phase[m] = "new"
  /\ readyState # "OPEN"
  /\ IF store = None
     THEN phase' = [phase EXCEPT ![m] = "dropped"] /\ UNCHANGED store
     ELSE IF Len(store) > StoreLimit
     THEN phase' = [phase EXCEPT ![m] = "refused"] /\ UNCHANGED store
     ELSE /\ phase' = [phase EXCEPT ![m] = "cached"]
          /\ store' = Append(store, m)
  /\ UNCHANGED <<readyState, checkTimer, parser, topics, outgoing, ready,
                 closing, loop, socket, conn, attempt, by, to, copies>>

(* sendPublish() starts its write on the socket current at this moment. *)
SendPublish(m, o) ==
  /\ phase' = [phase EXCEPT ![m] = "writing"]
  /\ by' = [by EXCEPT ![m] = o]
  /\ to' = [to EXCEPT ![m] = socket]
  /\ UNCHANGED copies

PublishOnline(m) ==
  /\ phase[m] = "new"
  /\ readyState = "OPEN"
  /\ SendPublish(m, "user")
  /\ UNCHANGED <<client, loop, socket, conn, attempt>>

(* subscribe(): the topic is remembered; an OPEN client writes SUBSCRIBE   *)
(* as well, and registers its promise when the write succeeded.            *)
UserSubscribe(t) ==
  /\ topics' = topics \cup {t}
  /\ IF readyState = "OPEN"
     THEN \/ /\ CanWrite(socket)
             /\ CreatePromise(Subscribe(t, "user"), "user")
             /\ conn' = IF socket = None THEN conn
                        ELSE [conn EXCEPT
                               ![socket].subs = @ \cup {t},
                               ![socket].inflight = @ \cup {Subscribe(t, "user")}]
          \/ conn' = Broken(socket) /\ UNCHANGED outgoing
     ELSE UNCHANGED <<outgoing, conn>>
  /\ UNCHANGED <<readyState, checkTimer, parser, store, ready, closing, loop,
                 socket, attempt, message>>

(* unsubscribe(): forgotten at once, UNSUBSCRIBE only when OPEN. *)
UserUnsubscribe(t) ==
  /\ topics' = topics \ {t}
  /\ IF readyState = "OPEN"
     THEN \/ /\ CanWrite(socket)
             /\ CreatePromise(Unsubscribe(t), "user")
             /\ conn' = IF socket = None THEN conn
                        ELSE [conn EXCEPT
                               ![socket].subs = @ \ {t},
                               ![socket].inflight = @ \cup {Unsubscribe(t)}]
          \/ conn' = Broken(socket) /\ UNCHANGED outgoing
     ELSE UNCHANGED <<outgoing, conn>>
  /\ UNCHANGED <<readyState, checkTimer, parser, store, ready, closing, loop,
                 socket, attempt, message>>

-----------------------------------------------------------------------------
(* Timers *)

(* The timers phase of the loop begins, with the 0 ms timers there are. *)
BeginTimers ==
  /\ InPoll
  /\ NothingCancelled
  /\ due' = Len(timers)
  /\ UNCHANGED <<draining, readyState, checkTimer, parser, store, topics,
                 outgoing, ready, closing, timers, socket, conn, attempt,
                 message>>

(* The timers phase ends; a timer set during it waits for the next one. *)
EndTimers ==
  /\ due = 0
  /\ due' = None
  /\ UNCHANGED <<draining, readyState, checkTimer, parser, store, topics,
                 outgoing, ready, closing, timers, socket, conn, attempt,
                 message>>

TimerFires(kind) ==
  /\ InTimers
  /\ due > 0
  /\ Head(timers) = kind
  /\ timers' = Tail(timers)
  /\ due' = due - 1

(* connect() becomes an attempt that awaits the name lookup.  When it is   *)
(* CONNECTING or OPEN it returns at once (mqtt.js:324), which no timer     *)
(* that fires finds: ReconnectNotSkipped.                                  *)
StartAttempt(a) ==
  /\ TimerFires("connect")
  /\ readyState \notin {"CONNECTING", "OPEN"}
  /\ Free(a)
  /\ readyState' = "CONNECTING"
  /\ pc' = [pc EXCEPT ![a] = "lookup"]
  /\ UNCHANGED <<draining, checkTimer, parser, store, topics, outgoing, ready,
                 closing, socket, conn, on, item, rest, cache, message>>

(* The deferred _onSocketClose of close(). *)
DeferredClose ==
  /\ TimerFires("sockclose")
  /\ OnSocketClose(conn)
  /\ UNCHANGED <<draining, checkTimer, parser, store, topics, outgoing, ready,
                 closing, attempt, message>>

(* Mutant: only a client that never connected is connected again. *)
CheckFirstConnect ==
  /\ checkTimer /\ InTimers
  /\ Connects = {} /\ Room
  /\ readyState = "INIT"
  /\ Reconnect
  /\ UNCHANGED <<readyState, checkTimer, parser, store, topics, outgoing,
                 closing, due, draining, socket, conn, attempt, message>>

(* The 2 s check timer while not connected and not connecting, once the    *)
(* reconnect period has elapsed since the last reconnect(), whose timer    *)
(* has thus fired.  While CONNECTING it does nothing.                      *)
CheckReconnect ==
  /\ checkTimer /\ InTimers
  /\ Connects = {} /\ Room
  /\ readyState \in {"INIT", "CLOSED"}
  /\ Reconnect
  /\ UNCHANGED <<readyState, checkTimer, parser, store, topics, outgoing,
                 closing, due, draining, socket, conn, attempt, message>>

(* The check timer while OPEN finds no PINGRESP within the keep-alive time *)
(* (MqttKeepAlive has the clock).                                          *)
KeepAliveTimeout ==
  /\ checkTimer /\ InTimers
  /\ readyState = "OPEN"
  /\ OnSocketClose(conn)
  /\ UNCHANGED <<checkTimer, parser, store, topics, outgoing, ready, closing,
                 loop, attempt, message>>

(* Mutant: the 'connect' promise has no timeout. *)
SubackTimeout(a) ==
  /\ InTimers
  /\ pc[a] = "suback"
  /\ pc' = [pc EXCEPT ![a] = "failed"]
  /\ UNCHANGED <<client, loop, socket, conn, on, item, rest, cache, message>>

(* The 10 s timer of the 'connect' promise, the 2 s timer of the others:   *)
(* the awaiting function is rejected, the entry stays in _outgoingPromises.*)
AckTimeout(a) ==
  /\ InTimers
  /\ pc[a] \in {"connack", "suback"}
  /\ pc' = [pc EXCEPT ![a] = "failed"]
  /\ UNCHANGED <<client, loop, socket, conn, on, item, rest, cache, message>>

(* The same timer for a message. *)
PubackTimeout(m) ==
  /\ InTimers
  /\ phase[m] = "waiting"
  /\ phase' = [phase EXCEPT ![m] = "failed"]
  /\ pc' = [a \in Attempts |-> IF by[m] = a THEN "failed" ELSE pc[a]]
  /\ UNCHANGED <<client, loop, socket, conn, on, item, rest, cache, by, to,
                 copies>>

-----------------------------------------------------------------------------
(* The steps of connect() *)

(* Mutant: an attempt cancelled during its lookup goes on. *)
LookupDoneUnchecked(a) ==
  /\ InPoll
  /\ pc[a] = "lookup"
  /\ pc' = [pc EXCEPT ![a] = "tcp"]
  /\ socket' = a
  /\ conn' = [conn EXCEPT ![a].state = "connecting"]
  /\ UNCHANGED <<client, loop, on, item, rest, cache, message>>

(* The lookup succeeded.  A cancelled attempt stops; otherwise it makes    *)
(* its socket the current one and connects it.                             *)
LookupDone(a) ==
  /\ InPoll
  /\ pc[a] = "lookup"
  /\ IF readyState # "CONNECTING"
     THEN pc' = [pc EXCEPT ![a] = "idle"] /\ UNCHANGED <<socket, conn>>
     ELSE /\ pc' = [pc EXCEPT ![a] = "tcp"]
          /\ socket' = a
          /\ conn' = [conn EXCEPT ![a].state = "connecting"]
  /\ UNCHANGED <<client, loop, on, item, rest, cache, message>>

(* Mutant: a failed lookup ends the attempt without the catch. *)
LookupFailsSilently(a) ==
  /\ InPoll
  /\ pc[a] = "lookup"
  /\ pc' = [pc EXCEPT ![a] = "idle"]
  /\ UNCHANGED <<client, loop, socket, conn, on, item, rest, cache, message>>

(* The lookup failed. *)
LookupFailed(a) ==
  /\ InPoll
  /\ pc[a] = "lookup"
  /\ pc' = [pc EXCEPT ![a] = "failed"]
  /\ UNCHANGED <<client, loop, socket, conn, on, item, rest, cache, message>>

(* The connect callback of the socket, and the promise it settles. *)
TcpConnected(a) ==
  /\ InPoll
  /\ pc[a] = "tcp"
  /\ conn[a].state = "connecting"
  /\ conn' = [conn EXCEPT ![a].state = "up"]
  /\ pc' = [pc EXCEPT ![a] = "tcpup"]
  /\ UNCHANGED <<client, loop, socket, on, item, rest, cache, message>>

(* Refused or timed out; or the socket was closed meanwhile (ECANCELED). *)
TcpFailed(a) ==
  /\ InPoll
  /\ pc[a] = "tcp"
  /\ pc' = [pc EXCEPT ![a] = "failed"]
  /\ UNCHANGED <<client, loop, socket, conn, on, item, rest, cache, message>>

(* After `await socket.connect`: sendConnect() writes on the socket that   *)
(* is current now.                                                         *)
SendConnect(a) ==
  /\ pc[a] = "tcpup"
  /\ IF readyState # "CONNECTING"
     THEN pc' = [pc EXCEPT ![a] = "idle"] /\ UNCHANGED on
     ELSE /\ pc' = [pc EXCEPT ![a] = "connwrite"]
          /\ on' = [on EXCEPT ![a] = socket]
  /\ Drains
  /\ UNCHANGED <<client, timers, due, socket, conn, item, rest, cache,
                 message>>

ConnectWritten(a) ==
  /\ InPoll
  /\ pc[a] = "connwrite"
  /\ CanWrite(on[a])
  /\ pc' = [pc EXCEPT ![a] = "connack"]
  /\ CreatePromise(Connect, a)
  /\ conn' = OnWire(on[a], Connect)
  /\ on' = [on EXCEPT ![a] = None]
  /\ UNCHANGED <<readyState, checkTimer, parser, store, topics, ready, closing,
                 loop, socket, item, rest, cache, message>>

(* Any write of an attempt may fail once it has a socket. *)
WriteFailed(a) ==
  /\ InPoll
  /\ pc[a] \in {"connwrite", "subwrite"}
  /\ on[a] # None
  /\ pc' = [pc EXCEPT ![a] = "failed"]
  /\ conn' = Broken(on[a])
  /\ on' = [on EXCEPT ![a] = None]
  /\ UNCHANGED <<client, loop, socket, item, rest, cache, message>>

(* Mutant: an attempt cancelled while it waited for CONNACK goes on. *)
ConnectedUnchecked(a) ==
  /\ pc[a] = "accepted"
  /\ readyState' = "OPEN"
  /\ rest' = [rest EXCEPT ![a] = topics]
  /\ pc' = [pc EXCEPT ![a] = "resub"]
  /\ Drains
  /\ UNCHANGED <<checkTimer, parser, store, topics, outgoing, ready, closing,
                 timers, due, socket, conn, on, item, cache, message>>

(* Mutant: the topics are not subscribed again. *)
ConnectedAnew(a) ==
  /\ pc[a] = "accepted"
  /\ IF readyState # "CONNECTING"
     THEN pc' = [pc EXCEPT ![a] = "idle"] /\ UNCHANGED <<readyState, rest>>
     ELSE /\ readyState' = "OPEN"
          /\ pc' = [pc EXCEPT ![a] = "resub"]
          /\ UNCHANGED rest
  /\ Drains
  /\ UNCHANGED <<checkTimer, parser, store, topics, outgoing, ready, closing,
                 timers, due, socket, conn, on, item, cache, message>>

(* After `await this.sendConnect()`; the first part of _onConnected.  The  *)
(* for-in loop visits the topics there are now.                            *)
Connected(a) ==
  /\ pc[a] = "accepted"
  /\ IF readyState # "CONNECTING"
     THEN pc' = [pc EXCEPT ![a] = "idle"] /\ UNCHANGED <<readyState, rest>>
     ELSE /\ readyState' = "OPEN"
          /\ rest' = [rest EXCEPT ![a] = topics]
          /\ pc' = [pc EXCEPT ![a] = "resub"]
  /\ Drains
  /\ UNCHANGED <<checkTimer, parser, store, topics, outgoing, ready, closing,
                 timers, due, socket, conn, on, item, cache, message>>

(* One round of the loop that subscribes again: a topic removed since is   *)
(* skipped, and while not OPEN nothing is written.                         *)
Resubscribe(a) ==
  /\ pc[a] = "resub"
  /\ \E t \in rest[a] \cap topics :
       /\ rest' = [rest EXCEPT ![a] = @ \ {t}]
       /\ IF readyState = "OPEN"
          THEN /\ item' = [item EXCEPT ![a] = t]
               /\ on' = [on EXCEPT ![a] = socket]
               /\ pc' = [pc EXCEPT ![a] = "subwrite"]
          ELSE UNCHANGED <<item, on, pc>>
  /\ Drains
  /\ UNCHANGED <<client, timers, due, socket, conn, cache, message>>

SubscribeWritten(a) ==
  /\ InPoll
  /\ pc[a] = "subwrite"
  /\ CanWrite(on[a])
  /\ pc' = [pc EXCEPT ![a] = "suback"]
  /\ CreatePromise(Subscribe(item[a], a), a)
  /\ conn' = IF on[a] = None THEN conn
             ELSE [conn EXCEPT ![on[a]].subs = @ \cup {item[a]},
                               ![on[a]].inflight =
                                  @ \cup {Subscribe(item[a], a)}]
  /\ on' = [on EXCEPT ![a] = None]
  /\ UNCHANGED <<readyState, checkTimer, parser, store, topics, ready, closing,
                 loop, socket, item, rest, cache, message>>

(* Mutant: the cache is not flushed. *)
ResubscribeOnly(a) ==
  /\ pc[a] = "resub"
  /\ rest[a] \cap topics = {}
  /\ pc' = [pc EXCEPT ![a] = "flush"]
  /\ rest' = [rest EXCEPT ![a] = {}]
  /\ item' = [item EXCEPT ![a] = None]
  /\ Drains
  /\ UNCHANGED <<client, timers, due, socket, conn, on, cache, message>>

(* No topic left: the loop over the cache begins, on the cache of now. *)
ResubscribeEnd(a) ==
  /\ pc[a] = "resub"
  /\ rest[a] \cap topics = {}
  /\ pc' = [pc EXCEPT ![a] = "flush"]
  /\ rest' = [rest EXCEPT ![a] = {}]
  /\ item' = [item EXCEPT ![a] = None]
  /\ cache' = [cache EXCEPT ![a] = store # None]
  /\ Drains
  /\ UNCHANGED <<client, timers, due, socket, conn, on, message>>

(* Mutant: the message stays in the cache while it is sent. *)
FlushFirst(a) ==
  /\ pc[a] = "flush"
  /\ readyState = "OPEN"
  /\ cache[a] /\ store # <<>>
  /\ SendPublish(Head(store), a)
  /\ pc' = [pc EXCEPT ![a] = "pub"]
  /\ Drains
  /\ UNCHANGED <<client, timers, due, socket, conn, on, item, rest, cache>>

(* One round of the loop that sends the cached messages. *)
FlushOne(a) ==
  /\ pc[a] = "flush"
  /\ readyState = "OPEN"
  /\ cache[a] /\ store # <<>>
  /\ store' = Tail(store)
  /\ SendPublish(Head(store), a)
  /\ pc' = [pc EXCEPT ![a] = "pub"]
  /\ Drains
  /\ UNCHANGED <<readyState, checkTimer, parser, topics, outgoing, ready,
                 closing, timers, due, socket, conn, on, item, rest, cache>>

(* The loop ends: connect() returns after resolving `ready`. *)
FlushEnd(a) ==
  /\ pc[a] = "flush"
  /\ readyState # "OPEN" \/ ~cache[a] \/ store = <<>>
  /\ SettleReady("resolved")
  /\ pc' = [pc EXCEPT ![a] = "idle"]
  /\ cache' = [cache EXCEPT ![a] = FALSE]
  /\ Drains
  /\ UNCHANGED <<readyState, checkTimer, parser, store, topics, outgoing,
                 closing, timers, due, socket, conn, on, item, rest, message>>

(* The catch of connect(): `ready` is rejected, and whatever socket is     *)
(* current by now is closed.                                               *)
Catch(a) ==
  /\ pc[a] = "failed"
  /\ SettleReady("rejected")
  /\ OnSocketClose(conn)
  /\ pc' = [pc EXCEPT ![a] = "idle"]
  /\ rest' = [rest EXCEPT ![a] = {}]
  /\ item' = [item EXCEPT ![a] = None]
  /\ cache' = [cache EXCEPT ![a] = FALSE]
  /\ Drains
  /\ UNCHANGED <<checkTimer, parser, store, topics, outgoing, closing, timers,
                 due, on, message>>

-----------------------------------------------------------------------------
(* PUBLISH packets, of a flush or of publish() itself *)

PublishWritten(m) ==
  /\ InPoll
  /\ phase[m] = "writing"
  /\ CanWrite(to[m])
  /\ copies' = [copies EXCEPT ![m] = @ + (IF to[m] = None THEN 0 ELSE 1)]
  /\ IF m \in Acked
     THEN /\ phase' = [phase EXCEPT ![m] = "waiting"]
          /\ CreatePromise(Publish(m), by[m])
          /\ conn' = OnWire(to[m], Publish(m))
          /\ UNCHANGED pc
     ELSE /\ phase' = [phase EXCEPT ![m] = "done"]
          /\ pc' = [a \in Attempts |-> IF by[m] = a THEN "flush" ELSE pc[a]]
          /\ UNCHANGED <<outgoing, conn>>
  /\ to' = [to EXCEPT ![m] = None]
  /\ UNCHANGED <<readyState, checkTimer, parser, store, topics, ready, closing,
                 loop, socket, on, item, rest, cache, by>>

PublishFailed(m) ==
  /\ InPoll
  /\ phase[m] = "writing"
  /\ to[m] # None
  /\ phase' = [phase EXCEPT ![m] = "failed"]
  /\ to' = [to EXCEPT ![m] = None]
  /\ pc' = [a \in Attempts |-> IF by[m] = a THEN "failed" ELSE pc[a]]
  /\ conn' = Broken(to[m])
  /\ UNCHANGED <<client, loop, socket, on, item, rest, cache, by, copies>>

-----------------------------------------------------------------------------
(* The broker and the network *)

(* The acknowledgement of k arrives on socket s and the parser dispatches  *)
(* it: the entry of k leaves _outgoingPromises and whoever awaits it goes  *)
(* on.  Without a parser (after close()) the bytes are dropped.            *)
Acknowledge(s, k) ==
  /\ InPoll
  /\ CanRead(s) /\ parser
  /\ k \in conn[s].inflight
  /\ conn' = [conn EXCEPT ![s].inflight = @ \ {k},
                          ![s].accepted = @ \/ k = Connect]
  /\ outgoing' = [outgoing EXCEPT ![k] = None]
  /\ LET o == outgoing[k]
         next == IF k = Connect THEN "accepted"
                 ELSE IF \E m \in Msgs : k = Publish(m) THEN "flush" ELSE "resub"
     IN pc' = IF Awaits(o, k) THEN [pc EXCEPT ![o] = next] ELSE pc
  /\ phase' = [m \in Msgs |->
                 IF k = Publish(m) /\ phase[m] = "waiting" THEN "done"
                                                           ELSE phase[m]]
  /\ UNCHANGED <<readyState, checkTimer, parser, store, topics, ready, closing,
                 loop, socket, on, item, rest, cache, by, to, copies>>

(* CONNACK with a return code other than 0. *)
Refuse(s) ==
  /\ InPoll
  /\ CanRead(s) /\ parser
  /\ Connect \in conn[s].inflight
  /\ conn' = [conn EXCEPT ![s].inflight = @ \ {Connect}]
  /\ outgoing' = [outgoing EXCEPT ![Connect] = None]
  /\ LET o == outgoing[Connect]
     IN pc' = IF Awaits(o, Connect) THEN [pc EXCEPT ![o] = "failed"] ELSE pc
  /\ UNCHANGED <<readyState, checkTimer, parser, store, topics, ready, closing,
                 loop, socket, on, item, rest, cache, message>>

(* Socket s reports its end (onmessage with no data): _onSocketClose() of  *)
(* the client, which closes the current socket, be it s or not.            *)
SocketEnds(s) ==
  /\ InPoll
  /\ CanRead(s)
  /\ OnSocketClose([conn EXCEPT ![s] = [Gone EXCEPT !.state = "eof"]])
  /\ UNCHANGED <<checkTimer, parser, store, topics, outgoing, ready, closing,
                 loop, attempt, message>>

(* More than 512 KB buffered: the parser is reset and _onSocketClose. *)
ReadBufferFull(s) ==
  /\ InPoll
  /\ CanRead(s) /\ parser
  /\ OnSocketClose(conn)
  /\ UNCHANGED <<checkTimer, parser, store, topics, outgoing, ready, closing,
                 loop, attempt, message>>

-----------------------------------------------------------------------------
Application ==
  \/ Open \/ Close \/ CloseFinish
  \/ \E m \in Msgs : PublishOffline(m) \/ PublishOnline(m)
  \/ \E t \in Topics : UserSubscribe(t) \/ UserUnsubscribe(t)

Timers ==
  \/ BeginTimers \/ EndTimers
  \/ DeferredClose \/ CheckReconnect \/ KeepAliveTimeout
  \/ \E a \in Attempts : StartAttempt(a) \/ AckTimeout(a)
  \/ \E m \in Msgs : PubackTimeout(m)

Microtask(a) ==
  \/ SendConnect(a) \/ Connected(a) \/ Resubscribe(a) \/ ResubscribeEnd(a)
  \/ FlushOne(a) \/ FlushEnd(a) \/ Catch(a)

AttemptIO(a) ==
  \/ LookupDone(a) \/ LookupFailed(a) \/ TcpConnected(a) \/ TcpFailed(a)
  \/ ConnectWritten(a) \/ SubscribeWritten(a) \/ WriteFailed(a)

Sending == \E m \in Msgs : PublishWritten(m) \/ PublishFailed(m)

Network ==
  \E s \in Attempts :
    \/ \E k \in Keys : Acknowledge(s, k)
    \/ Refuse(s) \/ SocketEnds(s) \/ ReadBufferFull(s)

Next ==
  \/ Application
  \/ Timers
  \/ \E a \in Attempts : Microtask(a) \/ AttemptIO(a)
  \/ Sending
  \/ Network

Spec == Init /\ [][Next]_vars

(***************************************************************************)
(* Fairness.  The event loop goes round: its phases follow one another and *)
(* every ready microtask runs.  What is enabled in one phase only gets its *)
(* turn if it is so again and again: the resolver, connect(2) and a queued *)
(* write end one way or the other, an armed timer fires.                   *)
(***************************************************************************)
LoopFairness ==
  /\ WF_vars(BeginTimers) /\ WF_vars(EndTimers) /\ WF_vars(CloseFinish)
  /\ WF_vars(DeferredClose \/ \E a \in Attempts : StartAttempt(a))
  /\ SF_vars(CheckReconnect)
  /\ \A a \in Attempts : /\ WF_vars(Microtask(a))
                         /\ SF_vars(AttemptIO(a))
                         /\ SF_vars(AckTimeout(a))
  /\ \A m \in Msgs : /\ SF_vars(PublishWritten(m) \/ PublishFailed(m))
                     /\ SF_vars(PubackTimeout(m))

FairSpec == Spec /\ LoopFairness

(* What goes wrong outside the client: a name that does not resolve, a     *)
(* refused or broken connection, a broker that refuses or does not answer. *)
NetworkFailure ==
  \/ \E a \in Attempts :
       \/ LookupFailed(a) \/ Refuse(a) \/ SocketEnds(a) \/ ReadBufferFull(a)
       \/ TcpFailed(a) /\ conn[a].state = "connecting"
       \/ WriteFailed(a) /\ conn[on[a]].state = "up"
       \/ AckTimeout(a) /\ socket # None /\ conn[socket].inflight # {}
  \/ KeepAliveTimeout

-----------------------------------------------------------------------------
(* Safety *)

Attempting == {"lookup", "tcp", "tcpup", "connwrite", "connack", "accepted",
               "failed"}

(* While CONNECTING some attempt is still on its way to OPEN or CLOSED.    *)
(* The check timer does nothing in that state (mqtt.js:710-712, a TODO),   *)
(* so a client left CONNECTING without one would be stuck for ever.        *)
ConnectingHasAttempt ==
  readyState = "CONNECTING" => \E a \in Attempts : pc[a] \in Attempting

(* Once close() has run to its end, any attempt or socket there still is   *)
(* will be closed by the deferred _onSocketClose, which is the last 0 ms   *)
(* timer; when it has run the client is CLOSED with no socket, and no      *)
(* timer, lookup or retry can bring it back (mqtt.js:520).                 *)
ClosedStaysClosed ==
  ~checkTimer =>
    \/ timers # <<>> /\ timers[Len(timers)] = "sockclose"
    \/ timers = <<>> /\ readyState \in {"INIT", "CLOSED"} /\ socket = None

(* However often the connection drops while the cache is being flushed, by *)
(* however many attempts at once, a message goes out in one PUBLISH at     *)
(* most, and none that was refused or is still cached has gone out.        *)
SentAtMostOnce ==
  \A m \in Msgs :
    /\ copies[m] <= 1
    /\ phase[m] \in {"cached", "refused", "dropped"} => copies[m] = 0

(* Each reconnect() gets its attempt: when the timer it set fires, the     *)
(* client is neither CONNECTING nor OPEN, however it was closed and opened *)
(* again meanwhile; the early return of connect() (mqtt.js:324) never      *)
(* swallows the attempt of a later open().                                 *)
ReconnectNotSkipped ==
  timers # <<>> /\ Head(timers) = "connect" /\ due \notin {0, None}
    => readyState \notin {"CONNECTING", "OPEN"}

(* The cache holds at most one message more than the limit publish()       *)
(* tests with > (mqtt.js:562).                                             *)
CacheBounded == store # None => Len(store) <= StoreLimit + 1

(* There is one native socket at most, and it is this._socket: no attempt  *)
(* leaves a connection behind that nobody closes.                          *)
SingleSocket == \A a \in Attempts : conn[a] # Gone => a = socket

(* OPEN ("connected", mqtt.js:1189): the broker accepted a CONNECT on the  *)
(* very socket the client now uses.                                        *)
OpenMeansAccepted ==
  readyState = "OPEN" => socket # None /\ conn[socket].accepted

(* After a reconnection every topic the application holds is subscribed on *)
(* the new connection, or an attempt is still about to do it, whatever     *)
(* subscribe() and unsubscribe() calls came while the loop was running.    *)
SubscriptionsRestored ==
  (readyState = "OPEN" /\ socket # None /\ conn[socket].state = "up") =>
    \A t \in topics \ conn[socket].subs :
      \E a \in Attempts :
        \/ t \in rest[a]
        \/ pc[a] = "subwrite" /\ item[a] = t /\ on[a] = socket
        \/ pc[a] = "failed"

(* When the client is OPEN, no close() has begun and no attempt is under   *)
(* way, `ready` has been fulfilled (lib.net.d.ts:655-657).                 *)
ReadyWhenOpen ==
  (readyState = "OPEN" /\ ~closing /\ \A a \in Attempts : pc[a] = "idle")
    => ready.promise = "resolved"

(* A QoS 1 message cached while offline is not lost by the flush: the      *)
(* resume-after-disconnection feature test-mqtt-cache.js:22 names.         *)
CachedNotLost ==
  \A m \in Acked : by[m] \in Attempts => phase[m] # "failed"

(* connectTimeout is the time to wait before a CONNACK is received         *)
(* (lib.net.d.ts:573): the failure of one attempt does not close the       *)
(* connection another attempt has established.                             *)
FailureIsOwn ==
  [][\A a \in Attempts :
       (pc[a] = "failed" /\ pc'[a] = "idle" /\ readyState = "OPEN")
         => socket \in {a, None}]_vars

-----------------------------------------------------------------------------
(* Liveness *)

(* No connection attempt hangs: CONNECTING always ends. *)
ConnectingEnds == readyState = "CONNECTING" ~> readyState # "CONNECTING"

(* After close() every attempt winds down and every socket is released. *)
CloseReleases ==
  (readyState = "CLOSED" /\ ~checkTimer)
    ~> (checkTimer \/ \A a \in Attempts : pc[a] = "idle" /\ conn[a] = Gone)

(* The network and the broker fail no more, and each CONNECT is answered. *)
NetworkRecovers ==
  /\ <>[][~NetworkFailure]_vars
  /\ \A a \in Attempts : SF_vars(Acknowledge(a, Connect))

(* Once the network and the broker have recovered, a client that is not    *)
(* closed is back online, and again whenever it is not (mqtt.js:519).      *)
Reconnects ==
  NetworkRecovers => []<>(readyState = "OPEN" \/ ~checkTimer)

(* Nor does a message stay in the cache for ever then: each reconnection   *)
(* flushes it, unless close() discards it.                                 *)
CacheDrains ==
  NetworkRecovers => \A m \in Msgs : []<>(phase[m] # "cached")
=============================================================================
