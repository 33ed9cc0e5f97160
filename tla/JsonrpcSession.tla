--------------------------- MODULE JsonrpcSession ---------------------------
(***************************************************************************)
(* The client side of a JSON-RPC session: src/core/js/tjs/jsonrpc.js        *)
(* (JsonrpcSession, JsonrpcClient) over the Socket of net.js.               *)
(*                                                                         *)
(* A call waits for the connection, takes an id, enters a queue, is moved   *)
(* to the map of requests that wait for an answer and is written.  Several  *)
(* loops move requests at once, each suspended in the write of the one it   *)
(* took last: an event handler starts one, and so does every timer.  A      *)
(* connection attempt is a chain of awaits that nobody cancels: one that    *)
(* close() abandoned still runs to its end, over whatever came after it.    *)
(*                                                                         *)
(* A step is one run of JavaScript between two suspensions.  The bytes of a *)
(* message are abstracted to the request they carry.                        *)
(***************************************************************************)
EXTENDS Naturals, Sequences, FiniteSets

CONSTANTS
  NumCalls,     \* bound on the calls the program makes
  MaxAttempts,  \* bound on the connection attempts
  MaxWait,      \* MAX_WAIT_REQUESTS: the size of the map that stops a loop
  MaxQueue,     \* a call finding more than this in the queue is refused
  UsesLookup    \* the url is tcp://host, not the path of a local socket

ASSUME BoundsAssumption ==
  /\ NumCalls \in Nat /\ MaxAttempts \in Nat
  /\ MaxWait \in Nat /\ MaxQueue \in Nat
  /\ UsesLookup \in BOOLEAN

\* Calls are numbered in the order the program makes them.
Calls == 1 .. NumCalls

Attempts == 1 .. MaxAttempts

\* No attempt: `connected`, `_socket` are undefined.
None == 0

VARIABLES
  ready,      \* readyState
  connected,  \* the attempt whose promise `connected` holds
  socket,     \* the attempt whose Socket `_socket` holds
  heard,      \* the session's listeners are on that Socket
  started,    \* the attempts made so far
  phase,      \* where the chain of awaits of an attempt is
  live,       \* the attempts whose Socket has a native handle
  opening,    \* the Sockets that still have to fire their `open` event
  queue,      \* _requestQueue
  map,        \* the requests in _requestMap
  nextId,     \* _nextRequestId
  id,         \* the id of each request
  call,       \* where the promise of each call is
  awaits,     \* the attempt a call waits for before it takes an id
  answer,     \* the request whose answer settled a call
  writing,    \* the loop suspended in the write of a request
  waiting,    \* the queue checks suspended in reconnect()
  queueTimer, \* _checkQueueTimer is armed
  checking,   \* the check timer runs (the session's or the manager's)
  wire        \* the requests written to each connection, in order

attemptVars == <<started, phase, opening>>
requestVars == <<queue, map, writing, wire, call>>
vars == <<ready, connected, socket, heard, attemptVars, live, requestVars,
          nextId, id, awaits, answer, waiting, queueTimer, checking>>

\* The calls with a request: `overdue` once past DEFAULT_REQUEST_TIMEOUT.
Requested(c) == call[c] \in {"waiting", "overdue"}

Settled(c) == call[c] \in {"answered", "timeout", "cancelled", "busy"}

\* The calls whose promise is neither resolved nor rejected.
Pending(c) == call[c] = "connecting" \/ Requested(c)

InQueue(c) == \E i \in 1 .. Len(queue) : queue[i] = c

NoLoop == [tag |-> "none", via |-> None]

Tags == {"plain", "tick"}

Init ==
  /\ ready = "init" /\ connected = None /\ socket = None /\ heard = FALSE
  /\ started = 0
  /\ phase = [a \in Attempts |-> "none"]
  /\ live = {} /\ opening = {}
  /\ queue = << >> /\ map = {}
  /\ nextId = 1
  /\ id = [c \in Calls |-> 0]
  /\ call = [c \in Calls |-> "idle"]
  /\ awaits = [c \in Calls |-> None]
  /\ answer = [c \in Calls |-> {}]
  /\ writing = [c \in Calls |-> NoLoop]
  /\ waiting = {}
  /\ queueTimer = FALSE /\ checking = TRUE
  /\ wire = [a \in Attempts |-> << >>]

-----------------------------------------------------------------------------
(* The loop that sends.                                                    *)

\* requestMap.set(id, request): an entry with the same id is replaced.
Put(c) == {d \in map : id[d] # id[c]} \cup {c}

\* Mutant: the limit is off by one.
CanTakeOneMore ==
  ready' = "open" /\ Cardinality(map) <= MaxWait /\ queue # << >>

\* The loop goes on: the session is OPEN, the map and the queue allow it.
CanTake == ready' = "open" /\ Cardinality(map) < MaxWait /\ queue # << >>

\* A write goes out when the session's Socket still has its handle.
Reaches(a) == a # None /\ a \in live'

Take(tag, loops) ==
  LET c == Head(queue) IN
    /\ queue' = Tail(queue)
    /\ map' = Put(c)
    /\ writing' = [loops EXCEPT ![c] = [tag |-> tag, via |-> socket']]
    /\ wire' = IF Reaches(socket')
               THEN [wire EXCEPT ![socket'] = Append(wire[socket'], c)]
               ELSE wire
    /\ UNCHANGED call

\* The head of the queue, and the whole map, are checked for old requests.
HeadIsOld == queue # << >> /\ call[Head(queue)] = "overdue"

OldInMap == {c \in map : call[c] = "overdue"}

Expired == OldInMap \cup (IF HeadIsOld THEN {Head(queue)} ELSE {})

\* Mutant: the request that timed out in the queue is still sent later.
CheckTimeoutsKeeps ==
  /\ call' = [c \in Calls |-> IF c \in Expired THEN "timeout" ELSE call[c]]
  /\ map' = map \ OldInMap
  /\ UNCHANGED queue

\* _onCheckRequestTimeout().
CheckTimeouts ==
  /\ call' = [c \in Calls |-> IF c \in Expired THEN "timeout" ELSE call[c]]
  /\ queue' = IF HeadIsOld THEN Tail(queue) ELSE queue
  /\ map' = map \ OldInMap

\* The check of the timeouts follows what the check timer has started.
CheckEnds(tag, loops) ==
  /\ writing' = loops
  /\ IF tag = "tick" THEN CheckTimeouts ELSE UNCHANGED <<queue, map, call>>
  /\ UNCHANGED wire

\* One round of a loop, up to its next write or to its end.
Flush(tag, loops) ==
  \/ CanTake /\ Take(tag, loops)
  \/ ~CanTake /\ CheckEnds(tag, loops)

\* setReadyState(OPEN): nothing when the session is OPEN already.
BecomeOpen ==
  /\ ready' = "open"
  /\ IF ready = "open" THEN UNCHANGED requestVars ELSE Flush("plain", writing)

-----------------------------------------------------------------------------
(* Connection attempts.                                                    *)

\* The attempt whose promise reconnect() awaits.
Awaited == IF connected = None THEN started + 1 ELSE connected

\* A new Socket, with the listeners of the session.
StartAttempt ==
  LET a == started + 1 IN
    /\ started < MaxAttempts
    /\ ready \in {"init", "closed"}
    /\ ready' = "connecting" /\ connected' = a
    /\ started' = a
    /\ socket' = a /\ heard' = TRUE
    /\ phase' = [phase EXCEPT ![a] = IF UsesLookup THEN "lookup" ELSE "connecting"]
    /\ live' = IF UsesLookup THEN live ELSE live \cup {a}
    /\ UNCHANGED opening

Reconnect ==
  \/ connected = None /\ StartAttempt
  \/ /\ connected # None
     /\ UNCHANGED <<ready, connected, socket, heard, attemptVars, live>>

\* The module's connect(): the program connects before its first call.
Connect ==
  /\ ready = "init"
  /\ StartAttempt
  /\ UNCHANGED <<requestVars, nextId, id, awaits, answer, waiting,
                 queueTimer, checking>>

\* Socket.close() of the Socket of an attempt: no handle, no listener.
CloseSocket(a) ==
  /\ live' = live \ {a}
  /\ heard' = (heard /\ socket # a)

\* The lookup ends; the Socket may have been closed meanwhile: it goes on.
LookupDone(a) ==
  /\ phase[a] = "lookup"
  /\ phase' = [phase EXCEPT ![a] = "connecting"]
  /\ live' = live \cup {a}
  /\ UNCHANGED <<ready, connected, socket, heard, started, opening, requestVars,
                 nextId, id, awaits, answer, waiting, queueTimer, checking>>

\* The lookup or the connect fails, or the handle was closed under it.  The
\* session is CLOSED, whichever attempt is its current one.
AttemptFails(a) ==
  /\ phase[a] \in {"lookup", "connecting"}
  /\ phase' = [phase EXCEPT ![a] = "ended"]
  /\ CloseSocket(a)
  /\ ready' = "closed"
  /\ UNCHANGED <<connected, socket, started, opening, requestVars, nextId, id,
                 awaits, answer, waiting, queueTimer, checking>>

\* The native connect has succeeded; its promise is resolved.
Accepted(a) ==
  /\ phase[a] = "connecting" /\ a \in live
  /\ phase' = [phase EXCEPT ![a] = "accepted"]
  /\ UNCHANGED <<ready, connected, socket, heard, started, opening, live,
                 requestVars, nextId, id, awaits, answer, waiting,
                 queueTimer, checking>>

\* The continuations of Socket.connect and of _onSocketConnect.
AttemptSucceeds(a) ==
  /\ phase[a] = "accepted"
  /\ phase' = [phase EXCEPT ![a] = "ended"]
  /\ opening' = opening \cup {a}
  /\ UNCHANGED <<connected, socket, heard, started, live>>
  /\ BecomeOpen
  /\ UNCHANGED <<nextId, id, awaits, answer, waiting, queueTimer, checking>>

\* The `open` event of the Socket, from a timer of 0 ms.
OpenEvent(a) ==
  /\ a \in opening
  /\ opening' = opening \ {a}
  /\ UNCHANGED <<connected, socket, heard, started, phase, live>>
  /\ IF heard /\ socket = a THEN BecomeOpen ELSE UNCHANGED <<ready, requestVars>>
  /\ UNCHANGED <<nextId, id, awaits, answer, waiting, queueTimer, checking>>

\* Mutant: the requests without an answer are queued again for the next
\* connection.
PeerClosesRequeues(a) ==
  /\ a \in live /\ phase[a] = "ended" /\ started < MaxAttempts
  /\ live' = live \ {a}
  /\ IF heard /\ socket = a
     THEN /\ ready' = "closed" /\ connected' = None
          /\ socket' = None /\ heard' = FALSE /\ queueTimer' = FALSE
          /\ queue' = SelectSeq(wire[a], LAMBDA c : c \in map) \o queue
          /\ map' = {}
     ELSE UNCHANGED <<ready, connected, socket, heard, queueTimer, queue, map>>
  /\ UNCHANGED <<attemptVars, writing, wire, call, nextId, id, awaits, answer,
                 waiting, checking>>

\* The peer ends the connection; the session is told when it listens.  Bound:
\* an attempt is left for the reconnection that follows.
PeerCloses(a) ==
  /\ a \in live /\ phase[a] = "ended" /\ started < MaxAttempts
  /\ live' = live \ {a}
  /\ IF heard /\ socket = a
     THEN /\ ready' = "closed" /\ connected' = None
          /\ socket' = None /\ heard' = FALSE /\ queueTimer' = FALSE
     ELSE UNCHANGED <<ready, connected, socket, heard, queueTimer>>
  /\ UNCHANGED <<attemptVars, requestVars, nextId, id, awaits, answer, waiting, checking>>

-----------------------------------------------------------------------------
(* Calls, answers, timers.                                                 *)

\* Mutant: ids start again from 1 when nothing is queued or sent.
EnqueueRestarts(c) ==
  LET first == queue = << >> /\ map = {} IN
  /\ id' = [id EXCEPT ![c] = IF first THEN 1 ELSE nextId]
  /\ nextId' = IF first THEN 2 ELSE nextId + 1
  /\ IF Len(queue) > MaxQueue
     THEN /\ call' = [call EXCEPT ![c] = "busy"]
          /\ UNCHANGED <<queue, queueTimer>>
     ELSE /\ call' = [call EXCEPT ![c] = "waiting"]
          /\ queue' = Append(queue, c)
          /\ queueTimer' = TRUE
  /\ UNCHANGED <<map, writing, wire, answer, waiting, checking>>

\* The second half of call(): the id is taken after the wait.
Enqueue(c) ==
  /\ id' = [id EXCEPT ![c] = nextId]
  /\ nextId' = nextId + 1
  /\ IF Len(queue) > MaxQueue
     THEN /\ call' = [call EXCEPT ![c] = "busy"]
          /\ UNCHANGED <<queue, queueTimer>>
     ELSE /\ call' = [call EXCEPT ![c] = "waiting"]
          /\ queue' = Append(queue, c)
          /\ queueTimer' = TRUE
  /\ UNCHANGED <<map, writing, wire, answer, waiting, checking>>

\* The next call the program makes.
IsNext(c) == call[c] = "idle" /\ \A d \in 1 .. c - 1 : call[d] # "idle"

CallWhenOpen(c) ==
  /\ IsNext(c) /\ ready = "open"
  /\ Enqueue(c)
  /\ UNCHANGED <<ready, connected, socket, heard, attemptVars, live, awaits>>

CallFirst(c) ==
  /\ IsNext(c) /\ ready # "open"
  /\ Reconnect
  /\ call' = [call EXCEPT ![c] = "connecting"]
  /\ awaits' = [awaits EXCEPT ![c] = Awaited]
  /\ UNCHANGED <<queue, map, writing, wire, nextId, id, answer, waiting,
                 queueTimer, checking>>

\* The attempt has ended, well or not: its calls go on all the same, in the
\* order in which they began to wait.
CallContinues(c) ==
  /\ call[c] = "connecting" /\ phase[awaits[c]] = "ended"
  /\ \A d \in 1 .. c - 1 : call[d] = "connecting" => awaits[d] # awaits[c]
  /\ awaits' = [awaits EXCEPT ![c] = None]
  /\ Enqueue(c)
  /\ UNCHANGED <<ready, connected, socket, heard, attemptVars, live>>

\* _onCheckRequestQueue(): a CLOSED session reconnects first.
CheckQueue(tag) ==
  \/ /\ queue = << >>
     /\ CheckEnds(tag, writing)
     /\ UNCHANGED <<ready, connected, socket, heard, attemptVars, live, waiting>>
  \/ /\ queue # << >> /\ ready = "closed"
     /\ Reconnect
     /\ waiting' = waiting \cup {[tag |-> tag, on |-> Awaited]}
     /\ UNCHANGED requestVars
  \/ /\ queue # << >> /\ ready # "closed"
     /\ UNCHANGED <<ready, connected, socket, heard, attemptVars, live, waiting>>
     /\ Flush(tag, writing)

QueueTimer ==
  /\ queueTimer /\ queueTimer' = FALSE
  /\ CheckQueue("plain")
  /\ UNCHANGED <<nextId, id, awaits, answer, checking>>

\* Mutant: a tick waits for the end of the one before.
TickAlone ==
  /\ checking
  /\ \A c \in Calls : writing[c].tag # "tick"
  /\ \A w \in waiting : w.tag # "tick"
  /\ CheckQueue("tick")
  /\ UNCHANGED <<nextId, id, awaits, answer, queueTimer, checking>>

\* The check timer, once a second.  It does not wait for the tick before.
Tick ==
  /\ checking
  /\ CheckQueue("tick")
  /\ UNCHANGED <<nextId, id, awaits, answer, queueTimer, checking>>

WaitEnds(w) ==
  /\ phase[w.on] = "ended"
  /\ waiting' = waiting \ {w}
  /\ UNCHANGED <<ready, connected, socket, heard, attemptVars, live>>
  /\ Flush(w.tag, writing)
  /\ UNCHANGED <<nextId, id, awaits, answer, queueTimer, checking>>

\* The write of a request ends, and its loop goes on.  A failed write closes
\* the Socket it was made on and tells the session nothing.
WriteEnds(c) ==
  /\ writing[c] # NoLoop
  /\ \/ UNCHANGED <<live, heard>>
     \/ writing[c].via # None /\ CloseSocket(writing[c].via)
  /\ UNCHANGED <<ready, connected, socket, attemptVars>>
  /\ Flush(writing[c].tag, [writing EXCEPT ![c] = NoLoop])
  /\ UNCHANGED <<nextId, id, awaits, answer, waiting, queueTimer, checking>>

\* The peer answers a request it has read, in any order, once.
Answered(a, c) ==
  /\ a \in live /\ phase[a] = "ended"
  /\ \E i \in 1 .. Len(wire[a]) : wire[a][i] = c
  /\ \A d \in Calls : c \notin answer[d]
  /\ LET found == {d \in map : id[d] = id[c] /\ heard /\ socket = a} IN
       /\ map' = map \ found
       /\ call' = [d \in Calls |-> IF d \in found THEN "answered" ELSE call[d]]
       /\ answer' = [d \in Calls |-> IF d \in found THEN answer[d] \cup {c}
                                     ELSE answer[d]]
  /\ UNCHANGED <<ready, connected, socket, heard, attemptVars, live, queue,
                 writing, wire, nextId, id, awaits, waiting, queueTimer,
                 checking>>

\* Three seconds have passed since the call was made.
GrowsOld(c) ==
  /\ call[c] = "waiting"
  /\ call' = [call EXCEPT ![c] = "overdue"]
  /\ UNCHANGED <<ready, connected, socket, heard, attemptVars, live, queue, map,
                 writing, wire, nextId, id, awaits, answer, waiting, queueTimer,
                 checking>>

\* close() cancels what waits unless the session is CLOSED and has no Socket.
Cancels == socket # None \/ ready # "closed"

\* close(): the queue and the map are cancelled; a call that waits for an
\* attempt is in neither.
Close ==
  /\ connected' = None /\ checking' = FALSE /\ queueTimer' = FALSE
  /\ socket' = None /\ heard' = FALSE
  /\ live' = live \ {socket}
  /\ ready' = "closed"
  /\ IF Cancels
     THEN /\ call' = [c \in Calls |-> IF InQueue(c) \/ c \in map
                                      THEN "cancelled" ELSE call[c]]
          /\ queue' = << >> /\ map' = {}
     ELSE UNCHANGED <<call, queue, map>>
  /\ UNCHANGED <<attemptVars, writing, wire, nextId, id, awaits, answer, waiting>>

-----------------------------------------------------------------------------
Attempt(a) ==
  LookupDone(a) \/ AttemptFails(a) \/ Accepted(a) \/ AttemptSucceeds(a)

Next ==
  \/ Connect
  \/ \E a \in Attempts : Attempt(a)
  \/ \E a \in Attempts : OpenEvent(a)
  \/ \E a \in Attempts : PeerCloses(a)
  \/ \E c \in Calls : CallWhenOpen(c)
  \/ \E c \in Calls : CallFirst(c)
  \/ \E c \in Calls : CallContinues(c)
  \/ QueueTimer
  \/ Tick
  \/ \E w \in waiting : WaitEnds(w)
  \/ \E c \in Calls : WriteEnds(c)
  \/ \E a \in Attempts, c \in Calls : Answered(a, c)
  \/ \E c \in Calls : GrowsOld(c)
  \/ Close

Spec == Init /\ [][Next]_vars

\* An attempt ends (the kernel answers), continuations run, timers fire, time
\* passes.  Nothing makes the peer answer or read: a write may last for ever.
Fairness ==
  /\ \A a \in Attempts : WF_vars(Attempt(a))
  /\ \A c \in Calls : WF_vars(CallContinues(c)) /\ WF_vars(GrowsOld(c))
  /\ \A w \in [tag : Tags, on : Attempts] : WF_vars(w \in waiting /\ WaitEnds(w))
  /\ WF_vars(QueueTimer) /\ WF_vars(Tick)

FairSpec == Spec /\ Fairness

-----------------------------------------------------------------------------
(* Properties.                                                             *)

LoopType == [tag : Tags, via : Attempts \cup {None}] \cup {NoLoop}

TypeOK ==
  /\ ready \in {"init", "connecting", "open", "closed"}
  /\ started \in Attempts \cup {None}
  /\ connected \in 0 .. started /\ socket \in Attempts \cup {None}
  /\ phase \in [Attempts -> {"none", "lookup", "connecting", "accepted", "ended"}]
  /\ live \subseteq Attempts /\ opening \subseteq Attempts
  /\ queue \in Seq(Calls) /\ map \subseteq Calls
  /\ nextId \in Nat \ {0} /\ id \in [Calls -> Nat]
  /\ call \in [Calls -> {"idle", "connecting", "waiting", "overdue", "answered",
                         "timeout", "cancelled", "busy"}]
  /\ awaits \in [Calls -> Attempts \cup {None}]
  /\ answer \in [Calls -> SUBSET Calls]
  /\ writing \in [Calls -> LoopType]
  /\ waiting \subseteq [tag : Tags, on : Attempts]
  /\ heard \in BOOLEAN /\ queueTimer \in BOOLEAN /\ checking \in BOOLEAN
  /\ wire \in [Attempts -> Seq(Calls)]

\* No call is lost and none is settled twice: one that is not settled and has
\* its id is in the queue or in the map, once, and no other call is there,
\* however loops, timeouts, answers, lost connections and close() interleave.
NoCallLost ==
  /\ \A c \in Calls :
       /\ Requested(c) <=> (InQueue(c) \/ c \in map)
       /\ ~ (InQueue(c) /\ c \in map)
  /\ \A i, j \in 1 .. Len(queue) : queue[i] = queue[j] => i = j

\* An answered call got the answer to its own request: late answers, and the
\* answers of an older connection, settle nobody else.
OwnAnswer == \A c \in Calls : answer[c] \subseteq {c}

\* Requests reach the wire in the order of their ids and never twice, whatever
\* the number of loops and of connections.
SentInOrder ==
  \A a, b \in Attempts :
    \A i \in 1 .. Len(wire[a]), j \in 1 .. Len(wire[b]) :
      (a < b \/ (a = b /\ i < j)) => id[wire[a][i]] < id[wire[b][j]]

\* Each loop checks the size of the map before it takes a request: several
\* loops together never exceed the limit either.
WaitBounded == Cardinality(map) <= MaxWait

OnWire(c) == \E a \in Attempts : \E i \in 1 .. Len(wire[a]) : wire[a][i] = c

\* What a call has come to, as its caller and the peer see it.
Stage(c) ==
  CASE call[c] = "idle"                 -> "new"
    [] Pending(c) /\ ~OnWire(c)         -> "made"
    [] Pending(c) /\ OnWire(c)          -> "sent"
    [] call[c] = "answered"             -> "replied"
    [] OTHER                            -> "failed"

Caller == INSTANCE RequestReply
            WITH stage <- [c \in Calls |-> Stage(c)], replies <- answer

\* Whatever the loops, the timeouts, close() and overlapping attempts do to the
\* queue and the map, a caller sees its call made, sent and settled once each,
\* by the reply to its own request or by a failure: a call that timed out or
\* was cancelled is not answered later (jsonrpc.js:163-339, 662-690).
KeepsCalls == Caller!Spec

\* While the check timer runs every call settles, even when the peer never
\* answers and a write never ends: a tick that hangs in a write has moved a
\* request, and one of the following finds nothing to move.
CallsSettle == \A c \in Calls : Pending(c) ~> (Settled(c) \/ ~checking)

=============================================================================
