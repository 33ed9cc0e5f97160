------------------------ MODULE JsonrpcSessionProofs ------------------------
(***************************************************************************)
(* The safety of a JSON-RPC session for any number of calls, of attempts,   *)
(* and any limits.  What the proofs add to the checked invariants is the    *)
(* order of ids: in the queue they grow, and everything on a wire is older  *)
(* than everything in the queue.                                            *)
(***************************************************************************)
EXTENDS JsonrpcSession, FiniteSetTheorems, TLAPS

(* A call has an id, below the next one, once it stopped waiting for the   *)
(* connection; no two calls have the same.                                 *)
IdInv ==
  /\ \A c \in Calls : id[c] < nextId
  /\ \A c \in Calls : call[c] \in {"idle", "connecting"} <=> id[c] = 0
  /\ \A c, d \in Calls : id[c] = id[d] /\ id[c] # 0 => c = d

QueueSorted ==
  \A i, j \in 1 .. Len(queue) : i < j => id[queue[i]] < id[queue[j]]

(* What is on a wire was taken from the queue before what is there now.    *)
WireBefore ==
  \A a \in Attempts : \A i \in 1 .. Len(wire[a]) :
    /\ id[wire[a][i]] # 0
    /\ \A j \in 1 .. Len(queue) : id[wire[a][i]] < id[queue[j]]

(* Only the Socket of the latest attempt is written to.                    *)
SocketInv ==
  /\ socket \in {None, started}
  /\ \A b \in Attempts : b > started => wire[b] = << >>

RequestInv ==
  /\ SocketInv /\ IdInv /\ NoCallLost /\ QueueSorted /\ WireBefore
  /\ SentInOrder /\ OwnAnswer /\ WaitBounded

SessionInv == TypeOK /\ RequestInv
-----------------------------------------------------------------------------
(* Types *)

LEMMA InitType == Init => TypeOK
<1> SUFFICES ASSUME Init PROVE TypeOK
  OBVIOUS
<1>1. << >> \in Seq(Calls)
  OBVIOUS
<1>2. /\ started \in Attempts \cup {None} /\ connected \in 0 .. started
      /\ socket \in Attempts \cup {None} /\ nextId \in Nat \ {0}
  BY DEF Init, None
<1>3. writing \in [Calls -> LoopType] /\ awaits \in [Calls -> Attempts \cup {None}]
  BY DEF Init, LoopType
<1> QED BY <1>1, <1>2, <1>3 DEF Init, TypeOK

LEMMA CheckTimeoutsType ==
  TypeOK /\ CheckTimeouts
    => /\ queue' \in Seq(Calls) /\ map' \subseteq Calls
       /\ call' \in [Calls -> {"idle", "connecting", "waiting", "overdue",
                              "answered", "timeout", "cancelled", "busy"}]
<1> SUFFICES ASSUME TypeOK, CheckTimeouts
             PROVE  /\ queue' \in Seq(Calls) /\ map' \subseteq Calls
                    /\ call' \in [Calls -> {"idle", "connecting", "waiting",
                          "overdue", "answered", "timeout", "cancelled", "busy"}]
  OBVIOUS
<1>1. queue' \in Seq(Calls)
  BY DEF CheckTimeouts, HeadIsOld, TypeOK
<1> QED BY <1>1 DEF CheckTimeouts, TypeOK

RequestType ==
  /\ queue \in Seq(Calls) /\ map \subseteq Calls
  /\ call \in [Calls -> {"idle", "connecting", "waiting", "overdue", "answered",
                         "timeout", "cancelled", "busy"}]
  /\ writing \in [Calls -> LoopType]
  /\ wire \in [Attempts -> Seq(Calls)]

LEMMA CheckEndsType ==
  ASSUME TypeOK, NEW tag, NEW loops \in [Calls -> LoopType], CheckEnds(tag, loops)
  PROVE  RequestType'
<1>1. CASE tag = "tick"
  BY <1>1, CheckTimeoutsType DEF CheckEnds, RequestType, TypeOK
<1>2. CASE tag # "tick"
  BY <1>2 DEF CheckEnds, RequestType, TypeOK
<1> QED BY <1>1, <1>2

LEMMA TakeType ==
  ASSUME TypeOK, NEW tag \in Tags, NEW loops \in [Calls -> LoopType],
         queue # << >>, Take(tag, loops), socket' \in Attempts \cup {None}
  PROVE  RequestType'
<1> DEFINE c == Head(queue)
<1>1. c \in Calls /\ queue' \in Seq(Calls)
  BY DEF Take, TypeOK
<1>2. map' \subseteq Calls
  BY <1>1 DEF Take, Put, TypeOK
<1>3. writing' \in [Calls -> LoopType]
  BY <1>1 DEF Take, LoopType
<1>4. wire' \in [Attempts -> Seq(Calls)]
  <2>1. CASE Reaches(socket')
    <3>1. socket' \in Attempts /\ wire[socket'] \in Seq(Calls)
      BY <2>1 DEF Reaches, TypeOK
    <3>2. Append(wire[socket'], c) \in Seq(Calls)
      BY <1>1, <3>1
    <3> QED BY <2>1, <3>1, <3>2 DEF Take, TypeOK
  <2>2. CASE ~Reaches(socket')
    BY <2>2 DEF Take, TypeOK
  <2> QED BY <2>1, <2>2
<1> QED BY <1>1, <1>2, <1>3, <1>4 DEF Take, TypeOK, RequestType

LEMMA FlushType ==
  ASSUME TypeOK, NEW tag \in Tags, NEW loops \in [Calls -> LoopType],
         Flush(tag, loops), socket' \in Attempts \cup {None}
  PROVE  RequestType'
BY CheckEndsType, TakeType DEF Flush, CanTake

LEMMA LoopsTyped ==
  ASSUME TypeOK
  PROVE  /\ writing \in [Calls -> LoopType]
         /\ \A c \in Calls : [writing EXCEPT ![c] = NoLoop] \in [Calls -> LoopType]
         /\ \A c \in Calls : writing[c] # NoLoop
              => writing[c].tag \in Tags /\ writing[c].via \in Attempts \cup {None}
<1>1. NoLoop \in LoopType
  BY DEF LoopType
<1> QED BY <1>1 DEF TypeOK, LoopType

\* What the requests of a session and its other half have to do with typing.
RestType ==
  /\ ready \in {"init", "connecting", "open", "closed"}
  /\ started \in Attempts \cup {None}
  /\ connected \in 0 .. started /\ socket \in Attempts \cup {None}
  /\ phase \in [Attempts -> {"none", "lookup", "connecting", "accepted", "ended"}]
  /\ live \subseteq Attempts /\ opening \subseteq Attempts
  /\ heard \in BOOLEAN

LinkVars == <<ready, connected, socket, heard, attemptVars, live>>

LEMMA RestStays == TypeOK /\ UNCHANGED LinkVars => RestType'
BY DEF TypeOK, RestType, LinkVars, attemptVars

LEMMA RequestsStay == TypeOK /\ UNCHANGED requestVars => RequestType'
BY DEF TypeOK, RequestType, requestVars

LEMMA StartAttemptType ==
  TypeOK /\ StartAttempt => RestType' /\ started + 1 \in Attempts
<1> SUFFICES ASSUME TypeOK, StartAttempt PROVE RestType' /\ started + 1 \in Attempts
  OBVIOUS
<1> DEFINE a == started + 1
<1>1. a \in Attempts /\ started \in Nat
  BY BoundsAssumption DEF TypeOK, StartAttempt, Attempts, None
<1>2. started' \in Attempts \cup {None} /\ connected' \in 0 .. started'
      /\ socket' \in Attempts \cup {None}
  BY <1>1 DEF StartAttempt, Attempts
<1>3. phase' \in [Attempts -> {"none", "lookup", "connecting", "accepted", "ended"}]
  BY <1>1 DEF StartAttempt, TypeOK
<1>4. live' \subseteq Attempts /\ opening' \subseteq Attempts
  BY <1>1 DEF StartAttempt, TypeOK
<1> QED BY <1>1, <1>2, <1>3, <1>4 DEF StartAttempt, RestType

LEMMA ReconnectType ==
  TypeOK /\ Reconnect => RestType' /\ Awaited \in Attempts
<1> SUFFICES ASSUME TypeOK, Reconnect PROVE RestType' /\ Awaited \in Attempts
  OBVIOUS
<1>1. CASE connected = None
  BY <1>1, StartAttemptType DEF Reconnect, Awaited
<1>2. CASE connected # None
  <2>1. UNCHANGED LinkVars
    BY <1>2 DEF Reconnect, LinkVars
  <2>2. Awaited \in Attempts
    BY <1>2, BoundsAssumption DEF Awaited, TypeOK, Attempts, None
  <2> QED BY <2>1, <2>2, RestStays
<1> QED BY <1>1, <1>2

LEMMA CheckQueueType ==
  ASSUME TypeOK, NEW tag \in Tags, CheckQueue(tag)
  PROVE  RestType' /\ RequestType' /\ waiting' \subseteq [tag : Tags, on : Attempts]
<1>1. CASE queue = << >>
  <2>1. CheckEnds(tag, writing) /\ UNCHANGED LinkVars /\ waiting' = waiting
    BY <1>1 DEF CheckQueue, LinkVars
  <2> QED BY <2>1, RestStays, CheckEndsType, LoopsTyped DEF TypeOK
<1>2. CASE queue # << >> /\ ready = "closed"
  <2>1. Reconnect /\ UNCHANGED requestVars
        /\ waiting' = waiting \cup {[tag |-> tag, on |-> Awaited]}
    BY <1>2 DEF CheckQueue
  <2> QED BY <2>1, ReconnectType, RequestsStay DEF TypeOK
<1>3. CASE queue # << >> /\ ready # "closed"
  <2>1. Flush(tag, writing) /\ UNCHANGED LinkVars /\ waiting' = waiting
    BY <1>3 DEF CheckQueue, LinkVars
  <2>2. socket' \in Attempts \cup {None}
    BY <2>1, RestStays DEF RestType
  <2> QED BY <2>1, <2>2, RestStays, FlushType, LoopsTyped DEF TypeOK
<1> QED BY <1>1, <1>2, <1>3

LEMMA BecomeOpenType ==
  ASSUME TypeOK, BecomeOpen, socket' = socket
  PROVE  RequestType' /\ ready' = "open"
<1>1. socket' \in Attempts \cup {None} /\ "plain" \in Tags
  BY DEF TypeOK, Tags
<1> QED BY <1>1, FlushType, RequestsStay, LoopsTyped DEF BecomeOpen

LEMMA EnqueueType ==
  ASSUME TypeOK, NEW c \in Calls, Enqueue(c)
  PROVE  /\ RequestType' /\ queueTimer' \in BOOLEAN
         /\ nextId' \in Nat \ {0} /\ id' \in [Calls -> Nat]
<1>1. nextId' \in Nat \ {0} /\ id' \in [Calls -> Nat]
  BY DEF Enqueue, TypeOK
<1>2. Append(queue, c) \in Seq(Calls)
  BY DEF TypeOK
<1> QED BY <1>1, <1>2 DEF Enqueue, TypeOK, RequestType

LEMMA NextType == TypeOK /\ [Next]_vars => TypeOK'
<1> SUFFICES ASSUME TypeOK, [Next]_vars PROVE TypeOK'
  OBVIOUS
<1> DEFINE Others ==
      /\ nextId' \in Nat \ {0} /\ id' \in [Calls -> Nat]
      /\ awaits' \in [Calls -> Attempts \cup {None}]
      /\ answer' \in [Calls -> SUBSET Calls]
      /\ waiting' \subseteq [tag : Tags, on : Attempts]
      /\ queueTimer' \in BOOLEAN /\ checking' \in BOOLEAN
<1>0. RestType' /\ RequestType' /\ Others => TypeOK'
  BY DEF RestType, RequestType, TypeOK
<1>1. CASE Connect
  <2>1. RestType' /\ RequestType'
    BY <1>1, StartAttemptType, RequestsStay DEF Connect
  <2> QED BY <1>0, <1>1, <2>1 DEF Connect, TypeOK
<1>2. ASSUME NEW a \in Attempts, LookupDone(a) \/ AttemptFails(a) \/ Accepted(a)
      PROVE  TypeOK'
  <2>1. RequestType' /\ Others
    BY <1>2, RequestsStay DEF LookupDone, AttemptFails, Accepted, TypeOK
  <2>2. RestType'
    BY <1>2 DEF LookupDone, AttemptFails, Accepted, CloseSocket, RestType, TypeOK
  <2> QED BY <1>0, <2>1, <2>2
<1>3. ASSUME NEW a \in Attempts, AttemptSucceeds(a) PROVE TypeOK'
  <2>1. RequestType' /\ ready' = "open"
    BY <1>3, BecomeOpenType DEF AttemptSucceeds
  <2>2. RestType' /\ Others
    BY <1>3, <2>1 DEF AttemptSucceeds, RestType, TypeOK
  <2> QED BY <1>0, <2>1, <2>2
<1>4. ASSUME NEW a \in Attempts, OpenEvent(a) PROVE TypeOK'
  <2>1. RequestType' /\ (ready' = "open" \/ ready' = ready)
    BY <1>4, BecomeOpenType, RequestsStay DEF OpenEvent
  <2>2. RestType' /\ Others
    BY <1>4, <2>1 DEF OpenEvent, RestType, TypeOK
  <2> QED BY <1>0, <2>1, <2>2
<1>5. ASSUME NEW a \in Attempts, PeerCloses(a) PROVE TypeOK'
  <2>1. RequestType'
    BY <1>5, RequestsStay DEF PeerCloses
  <2>2. connected' \in 0 .. started'
    BY <1>5, BoundsAssumption DEF PeerCloses, TypeOK, None, attemptVars, Attempts
  <2>3. RestType' /\ Others
    BY <1>5, <2>2 DEF PeerCloses, RestType, TypeOK, attemptVars
  <2> QED BY <1>0, <2>1, <2>3
<1>6. ASSUME NEW c \in Calls, CallWhenOpen(c) PROVE TypeOK'
  <2>1. RestType' /\ RequestType'
    BY <1>6, RestStays, EnqueueType DEF CallWhenOpen, LinkVars
  <2>2. Others
    BY <1>6, EnqueueType DEF CallWhenOpen, Enqueue, TypeOK
  <2> QED BY <1>0, <2>1, <2>2
<1>7. ASSUME NEW c \in Calls, CallFirst(c) PROVE TypeOK'
  <2>1. RestType' /\ Awaited \in Attempts
    BY <1>7, ReconnectType DEF CallFirst
  <2>2. RequestType' /\ Others
    BY <1>7, <2>1 DEF CallFirst, RequestType, TypeOK
  <2> QED BY <1>0, <2>1, <2>2
<1>8. ASSUME NEW c \in Calls, CallContinues(c) PROVE TypeOK'
  <2>1. RestType' /\ RequestType'
    BY <1>8, RestStays, EnqueueType DEF CallContinues, LinkVars
  <2>2. Others
    BY <1>8, EnqueueType DEF CallContinues, Enqueue, TypeOK
  <2> QED BY <1>0, <2>1, <2>2
<1>9. CASE QueueTimer
  <2>1. RestType' /\ RequestType' /\ waiting' \subseteq [tag : Tags, on : Attempts]
    BY <1>9, CheckQueueType DEF QueueTimer, Tags
  <2> QED BY <1>0, <1>9, <2>1 DEF QueueTimer, TypeOK
<1>10. CASE Tick
  <2>1. RestType' /\ RequestType' /\ waiting' \subseteq [tag : Tags, on : Attempts]
    BY <1>10, CheckQueueType DEF Tick, Tags
  <2> QED BY <1>0, <1>10, <2>1 DEF Tick, TypeOK
<1>11. ASSUME NEW w \in waiting, WaitEnds(w) PROVE TypeOK'
  <2>1. RestType' /\ w.tag \in Tags
    BY <1>11, RestStays DEF WaitEnds, LinkVars, TypeOK
  <2>2. RequestType'
    BY <1>11, <2>1, FlushType, LoopsTyped DEF WaitEnds, RestType
  <2> QED BY <1>0, <1>11, <2>1, <2>2 DEF WaitEnds, TypeOK
<1>12. ASSUME NEW c \in Calls, WriteEnds(c) PROVE TypeOK'
  <2>1. writing[c].tag \in Tags /\ [writing EXCEPT ![c] = NoLoop] \in [Calls -> LoopType]
    BY <1>12, LoopsTyped DEF WriteEnds
  <2>2. RestType'
    BY <1>12 DEF WriteEnds, CloseSocket, RestType, TypeOK, attemptVars
  <2>3. RequestType'
    BY <1>12, <2>1, <2>2, FlushType DEF WriteEnds, RestType
  <2> QED BY <1>0, <1>12, <2>2, <2>3 DEF WriteEnds, TypeOK
<1>13. ASSUME NEW a \in Attempts, NEW c \in Calls, Answered(a, c) PROVE TypeOK'
  <2>1. RestType'
    BY <1>13, RestStays DEF Answered, LinkVars
  <2>2. RequestType' /\ Others
    BY <1>13 DEF Answered, RequestType, TypeOK
  <2> QED BY <1>0, <2>1, <2>2
<1>14. ASSUME NEW c \in Calls, GrowsOld(c) PROVE TypeOK'
  <2>1. RestType'
    BY <1>14, RestStays DEF GrowsOld, LinkVars
  <2>2. RequestType' /\ Others
    BY <1>14 DEF GrowsOld, RequestType, TypeOK
  <2> QED BY <1>0, <2>1, <2>2
<1>15. CASE Close
  <2>0. ASSUME Cancels PROVE RequestType'
    <3>1. << >> \in Seq(Calls)
      OBVIOUS
    <3>2. \A c \in Calls : call'[c] \in {"cancelled", call[c]}
      BY <1>15, <2>0 DEF Close, Cancels
    <3>3. queue' = << >> /\ map' = {} /\ UNCHANGED <<wire, writing>>
      BY <1>15, <2>0 DEF Close, Cancels
    <3>4. call' = [c \in Calls |-> IF InQueue(c) \/ c \in map THEN "cancelled" ELSE call[c]]
      BY <1>15, <2>0 DEF Close, Cancels
    <3> QED BY <3>1, <3>2, <3>3, <3>4 DEF RequestType, TypeOK
  <2>1. ASSUME ~Cancels PROVE RequestType'
    <3>1. UNCHANGED requestVars
      BY <1>15, <2>1 DEF Close, Cancels, requestVars
    <3> QED BY <3>1, RequestsStay
  <2>4. RequestType' /\ Others
    BY <1>15, <2>0, <2>1 DEF Close, TypeOK
  <2>2. connected' \in 0 .. started'
    BY <1>15, BoundsAssumption DEF Close, TypeOK, None, attemptVars, Attempts
  <2>3. RestType'
    BY <1>15, <2>2 DEF Close, RestType, TypeOK, attemptVars
  <2> QED BY <1>0, <2>3, <2>4
<1>16. CASE UNCHANGED vars
  BY <1>16 DEF vars, attemptVars, requestVars, TypeOK
<1> QED
  BY <1>1, <1>2, <1>3, <1>4, <1>5, <1>6, <1>7, <1>8, <1>9, <1>10, <1>11, <1>12,
     <1>13, <1>14, <1>15, <1>16 DEF Next, Attempt

\* Every reachable state of a session has its type.
THEOREM SessionTypeCorrect == Spec => []TypeOK
BY InitType, NextType, PTL DEF Spec
-----------------------------------------------------------------------------
(* The queue and the map *)

LEMMA HeadTail ==
  ASSUME NEW S, NEW s \in Seq(S), s # << >>
  PROVE  /\ Head(s) \in S /\ Head(s) = s[1] /\ 1 \in 1 .. Len(s)
         /\ Len(s) \in Nat /\ Len(Tail(s)) = Len(s) - 1
         /\ \A i \in 1 .. Len(Tail(s)) : Tail(s)[i] = s[i + 1] /\ i + 1 \in 1 .. Len(s)
OBVIOUS

LEMMA MapIsFinite ==
  ASSUME TypeOK PROVE IsFiniteSet(map) /\ Cardinality(map) \in Nat
<1>1. IsFiniteSet(Calls)
  BY BoundsAssumption, FS_Interval DEF Calls
<1>2. IsFiniteSet(map)
  BY <1>1, FS_Subset DEF TypeOK
<1> QED BY <1>2, FS_CardinalityType

LEMMA MapShrinks == TypeOK /\ WaitBounded /\ map' \subseteq map => WaitBounded'
<1> SUFFICES ASSUME TypeOK, WaitBounded, map' \subseteq map PROVE WaitBounded'
  OBVIOUS
<1>1. IsFiniteSet(map) /\ Cardinality(map) \in Nat
  BY MapIsFinite
<1>2. IsFiniteSet(map') /\ Cardinality(map') <= Cardinality(map)
  BY <1>1, FS_Subset
<1>3. Cardinality(map') \in Nat
  BY <1>2, FS_CardinalityType
<1> QED BY <1>1, <1>2, <1>3, BoundsAssumption DEF WaitBounded

\* A request that leaves the head of the queue is not behind it, and is older
\* than all that stay.
LEMMA Dequeued ==
  ASSUME TypeOK, NoCallLost, QueueSorted, queue # << >>, queue' = Tail(queue), id' = id
  PROVE  /\ Head(queue) \in Calls /\ InQueue(Head(queue))
         /\ QueueSorted'
         /\ \A j \in 1 .. Len(queue') : id[Head(queue)] < id[queue'[j]]
         /\ \A j \in 1 .. Len(queue') : \E i \in 1 .. Len(queue) : queue'[j] = queue[i]
         /\ \A i, j \in 1 .. Len(queue') : queue'[i] = queue'[j] => i = j
         /\ \A d : InQueue(d)' <=> InQueue(d) /\ d # Head(queue)
<1>1. /\ Head(queue) \in Calls /\ Head(queue) = queue[1] /\ 1 \in 1 .. Len(queue)
      /\ Len(queue) \in Nat /\ Len(queue') = Len(queue) - 1
      /\ \A i \in 1 .. Len(queue') : queue'[i] = queue[i + 1] /\ i + 1 \in 1 .. Len(queue)
  BY HeadTail DEF TypeOK
<1>2. QueueSorted'
  BY <1>1 DEF QueueSorted
<1>3. \A j \in 1 .. Len(queue') : id[Head(queue)] < id[queue'[j]]
  BY <1>1 DEF QueueSorted
<1>4. \A i, j \in 1 .. Len(queue') : queue'[i] = queue'[j] => i = j
  BY <1>1 DEF NoCallLost
<1>5. ASSUME NEW d PROVE InQueue(d)' <=> InQueue(d) /\ d # Head(queue)
  <2>1. ASSUME InQueue(d)' PROVE InQueue(d) /\ d # Head(queue)
    <3>1. PICK i \in 1 .. Len(queue') : queue'[i] = d
      BY <2>1 DEF InQueue
    <3>2. queue[i + 1] = d /\ i + 1 \in 1 .. Len(queue) /\ i + 1 # 1
      BY <1>1, <3>1
    <3> QED BY <1>1, <3>2 DEF InQueue, NoCallLost
  <2>2. ASSUME InQueue(d), d # Head(queue) PROVE InQueue(d)'
    <3>1. PICK i \in 1 .. Len(queue) : queue[i] = d
      BY <2>2 DEF InQueue
    <3>2. i - 1 \in 1 .. Len(queue') /\ queue'[i - 1] = d
      BY <1>1, <2>2, <3>1
    <3> QED BY <3>2 DEF InQueue
  <2> QED BY <2>1, <2>2
<1> QED BY <1>1, <1>2, <1>3, <1>4, <1>5 DEF InQueue

LEMMA QueueUntouched ==
  ASSUME queue' = queue, id' = id
  PROVE  /\ QueueSorted => QueueSorted'
         /\ \A d : InQueue(d)' <=> InQueue(d)
BY DEF QueueSorted, InQueue

LEMMA CheckTimeoutsSafe ==
  ASSUME SessionInv, CheckTimeouts, wire' = wire,
         UNCHANGED <<nextId, id, answer, started, socket>>
  PROVE  RequestInv'
<1>1. TypeOK /\ RequestInv
  BY DEF SessionInv
<1>2. /\ QueueSorted'
      /\ \A j \in 1 .. Len(queue') : \E i \in 1 .. Len(queue) : queue'[j] = queue[i]
      /\ \A i, j \in 1 .. Len(queue') : queue'[i] = queue'[j] => i = j
      /\ \A d \in Calls : InQueue(d)' <=> InQueue(d) /\ ~ (HeadIsOld /\ d = Head(queue))
  <2>1. CASE HeadIsOld
    <3>1. queue # << >> /\ queue' = Tail(queue)
      BY <2>1 DEF CheckTimeouts, HeadIsOld
    <3> QED BY <1>1, <2>1, <3>1, Dequeued DEF RequestInv
  <2>2. CASE ~HeadIsOld
    <3>1. queue' = queue
      BY <2>2 DEF CheckTimeouts
    <3> QED BY <1>1, <2>2, <3>1, QueueUntouched DEF RequestInv, NoCallLost
  <2> QED BY <2>1, <2>2
<1>3. \A c \in Calls : c \in Expired => call[c] = "overdue" /\ call'[c] = "timeout"
  BY <1>1 DEF Expired, OldInMap, HeadIsOld, CheckTimeouts
<1>4. \A c \in Calls : c \notin Expired => call'[c] = call[c]
  BY DEF CheckTimeouts
<1>5. \A c \in Calls : c \in map' <=> c \in map /\ call[c] # "overdue"
  BY <1>1 DEF CheckTimeouts, OldInMap, TypeOK
<1>6. ASSUME NEW c \in Calls
      PROVE  /\ Requested(c)' <=> (InQueue(c)' \/ c \in map')
             /\ ~ (InQueue(c)' /\ c \in map')
  <2>0. /\ Requested(c) <=> (InQueue(c) \/ c \in map)
        /\ ~ (InQueue(c) /\ c \in map)
    BY <1>1 DEF RequestInv, NoCallLost
  <2>1. CASE c \in Expired
    <3>1. ~Requested(c)' /\ call[c] = "overdue" /\ c \notin map'
      BY <1>3, <1>5, <2>1 DEF Requested
    <3>2. ~InQueue(c)'
      BY <1>2, <2>0, <2>1 DEF Expired, OldInMap
    <3> QED BY <3>1, <3>2
  <2>2. CASE c \notin Expired
    <3>1. (Requested(c)' <=> Requested(c)) /\ (c \in map' <=> c \in map)
      BY <1>4, <1>5, <2>2 DEF Requested, Expired, OldInMap
    <3>2. InQueue(c)' <=> InQueue(c)
      BY <1>2, <2>2 DEF Expired
    <3> QED BY <2>0, <3>1, <3>2
  <2> QED BY <2>1, <2>2
<1>7. NoCallLost'
  BY <1>2, <1>6 DEF NoCallLost
<1>8. IdInv'
  BY <1>1, <1>3, <1>4 DEF RequestInv, IdInv
<1>9. WireBefore'
  BY <1>1, <1>2 DEF RequestInv, WireBefore
<1>10. SentInOrder' /\ OwnAnswer' /\ SocketInv'
  BY <1>1 DEF RequestInv, SentInOrder, OwnAnswer, SocketInv
<1>11. WaitBounded'
  BY <1>1, MapShrinks DEF CheckTimeouts, RequestInv
<1> QED BY <1>2, <1>7, <1>8, <1>9, <1>10, <1>11 DEF RequestInv

LEMMA TakeSafe ==
  ASSUME SessionInv, NEW tag, NEW loops, CanTake, Take(tag, loops),
         UNCHANGED <<nextId, id, answer, started, socket>>
  PROVE  RequestInv'
<1> DEFINE c == Head(queue)
<1>1. TypeOK /\ RequestInv
  BY DEF SessionInv
<1>2. queue # << >> /\ queue' = Tail(queue) /\ call' = call /\ id' = id
      /\ Cardinality(map) < MaxWait
  BY DEF CanTake, Take
<1>3. /\ c \in Calls /\ InQueue(c)
      /\ QueueSorted'
      /\ \A j \in 1 .. Len(queue') : id[c] < id[queue'[j]]
      /\ \A j \in 1 .. Len(queue') : \E i \in 1 .. Len(queue) : queue'[j] = queue[i]
      /\ \A i, j \in 1 .. Len(queue') : queue'[i] = queue'[j] => i = j
      /\ \A d : InQueue(d)' <=> InQueue(d) /\ d # c
  BY <1>1, <1>2, Dequeued DEF RequestInv
<1>4. Requested(c) /\ c \notin map
  BY <1>1, <1>3 DEF RequestInv, NoCallLost
<1>5. id[c] # 0
  BY <1>1, <1>3, <1>4 DEF RequestInv, IdInv, Requested
<1>6. map' = map \cup {c}
  <2>1. \A d \in map : id[d] # id[c]
    BY <1>1, <1>3, <1>4, <1>5 DEF RequestInv, IdInv, TypeOK
  <2> QED BY <2>1 DEF Take, Put
<1>7. WaitBounded'
  <2>1. IsFiniteSet(map) /\ Cardinality(map) \in Nat
    BY <1>1, MapIsFinite
  <2>2. Cardinality(map') = Cardinality(map) + 1
    BY <1>4, <1>6, <2>1, FS_AddElement
  <2> QED BY <1>2, <2>1, <2>2, BoundsAssumption DEF WaitBounded
<1>8. NoCallLost'
  <2>1. ASSUME NEW d \in Calls
        PROVE  /\ Requested(d)' <=> (InQueue(d)' \/ d \in map')
               /\ ~ (InQueue(d)' /\ d \in map')
    <3>1. Requested(d)' <=> Requested(d)
      BY <1>2 DEF Requested
    <3> QED BY <1>1, <1>3, <1>4, <1>6, <3>1 DEF RequestInv, NoCallLost
  <2> QED BY <1>3, <2>1 DEF NoCallLost
<1>9. IdInv' /\ OwnAnswer'
  BY <1>1, <1>2 DEF RequestInv, IdInv, OwnAnswer
<1>10. CASE wire' = wire
  <2>1. WireBefore'
    BY <1>1, <1>2, <1>3, <1>10 DEF RequestInv, WireBefore
  <2>2. SentInOrder' /\ SocketInv'
    BY <1>1, <1>10 DEF RequestInv, SentInOrder, SocketInv
  <2> QED BY <1>3, <1>7, <1>8, <1>9, <2>1, <2>2 DEF RequestInv
<1>11. CASE wire' # wire
  <2>1. /\ socket \in Attempts /\ socket = started
        /\ wire' = [wire EXCEPT ![socket] = Append(wire[socket], c)]
    BY <1>1, <1>11 DEF Take, Reaches, RequestInv, SocketInv, TypeOK
  <2> DEFINE n == Len(wire[socket])
  <2>2. /\ wire[socket] \in Seq(Calls) /\ n \in Nat
        /\ Len(wire'[socket]) = n + 1 /\ wire'[socket][n + 1] = c
        /\ \A i \in 1 .. n : wire'[socket][i] = wire[socket][i]
        /\ \A b \in Attempts : b # socket => wire'[b] = wire[b]
    <3>1. wire[socket] \in Seq(Calls) /\ wire'[socket] = Append(wire[socket], c)
      BY <1>1, <2>1 DEF TypeOK
    <3>2. \A b \in Attempts : b # socket => wire'[b] = wire[b]
      BY <1>1, <2>1 DEF TypeOK
    <3> QED BY <1>3, <3>1, <3>2
  <2>3. \A a \in Attempts : \A i \in 1 .. Len(wire[a]) : id[wire[a][i]] < id[c]
    BY <1>1, <1>3 DEF InQueue, RequestInv, WireBefore
  <2>4. WireBefore'
    <3>1. ASSUME NEW a \in Attempts, NEW i \in 1 .. Len(wire'[a])
          PROVE  /\ id[wire'[a][i]] # 0
                 /\ \A j \in 1 .. Len(queue') : id[wire'[a][i]] < id[queue'[j]]
      <4>1. CASE a = socket /\ i = n + 1
        BY <1>3, <1>5, <2>2, <4>1
      <4>2. CASE ~ (a = socket /\ i = n + 1)
        <5>1. i \in 1 .. Len(wire[a]) /\ wire'[a][i] = wire[a][i]
          BY <2>2, <4>2
        <5> QED BY <1>1, <1>3, <5>1 DEF RequestInv, WireBefore
      <4> QED BY <4>1, <4>2
    <3> QED BY <1>2, <3>1 DEF WireBefore
  <2>5. SentInOrder'
    <3>1. ASSUME NEW a \in Attempts, NEW b \in Attempts,
                 NEW i \in 1 .. Len(wire'[a]), NEW j \in 1 .. Len(wire'[b]),
                 a < b \/ (a = b /\ i < j)
          PROVE  id[wire'[a][i]] < id[wire'[b][j]]
      <4>1. b <= started
        <5>1. CASE b = socket
          BY <2>1, <5>1 DEF Attempts
        <5>2. CASE b # socket
          <6>1. wire[b] # << >>
            BY <2>2, <5>2
          <6> QED BY <1>1, <2>1, <6>1 DEF RequestInv, SocketInv, Attempts
        <5> QED BY <5>1, <5>2
      <4>2. ~ (a = socket /\ i = n + 1)
        BY <2>1, <2>2, <3>1, <4>1 DEF Attempts
      <4>3. i \in 1 .. Len(wire[a]) /\ wire'[a][i] = wire[a][i]
        BY <2>2, <4>2
      <4>4. CASE b = socket /\ j = n + 1
        BY <2>2, <2>3, <4>3, <4>4
      <4>5. CASE ~ (b = socket /\ j = n + 1)
        <5>1. j \in 1 .. Len(wire[b]) /\ wire'[b][j] = wire[b][j]
          BY <2>2, <4>5
        <5> QED BY <1>1, <3>1, <4>3, <5>1 DEF RequestInv, SentInOrder
      <4> QED BY <4>4, <4>5
    <3> QED BY <1>2, <3>1 DEF SentInOrder
  <2>6. SocketInv'
    BY <1>1, <2>1, <2>2 DEF RequestInv, SocketInv, Attempts
  <2> QED BY <1>3, <1>7, <1>8, <1>9, <2>4, <2>5, <2>6 DEF RequestInv
<1> QED BY <1>10, <1>11

\* Requests that nothing touches.
LEMMA NothingMoves ==
  ASSUME SessionInv, UNCHANGED <<queue, map, wire, id, nextId, answer>>, SocketInv',
         \A c \in Calls : Requested(c)' <=> Requested(c),
         \A c \in Calls : call'[c] \in {"idle", "connecting"}
                            <=> call[c] \in {"idle", "connecting"}
  PROVE  RequestInv'
<1>1. RequestInv
  BY DEF SessionInv
<1>2. IdInv' /\ QueueSorted' /\ WireBefore' /\ SentInOrder' /\ OwnAnswer' /\ WaitBounded'
  BY <1>1 DEF RequestInv, IdInv, QueueSorted, WireBefore, SentInOrder, OwnAnswer, WaitBounded
<1>3. NoCallLost'
  BY <1>1 DEF RequestInv, NoCallLost, InQueue
<1> QED BY <1>2, <1>3 DEF RequestInv

LEMMA RequestsUntouched ==
  ASSUME SessionInv, UNCHANGED requestVars, UNCHANGED <<id, nextId, answer>>, SocketInv'
  PROVE  RequestInv'
BY NothingMoves DEF requestVars, Requested

LEMMA CheckEndsSafe ==
  ASSUME SessionInv, NEW tag, NEW loops, CheckEnds(tag, loops),
         UNCHANGED <<nextId, id, answer, started, socket>>
  PROVE  RequestInv'
<1>1. CASE tag = "tick"
  BY <1>1, CheckTimeoutsSafe DEF CheckEnds
<1>2. CASE tag # "tick"
  <2>1. SocketInv'
    BY DEF SessionInv, RequestInv, SocketInv, CheckEnds
  <2> QED BY <1>2, <2>1, NothingMoves DEF CheckEnds, Requested
<1> QED BY <1>1, <1>2

LEMMA FlushSafe ==
  ASSUME SessionInv, NEW tag, NEW loops, Flush(tag, loops),
         UNCHANGED <<nextId, id, answer, started, socket>>
  PROVE  RequestInv'
BY TakeSafe, CheckEndsSafe DEF Flush
-----------------------------------------------------------------------------
(* The other steps *)

LEMMA EnqueueSafe ==
  ASSUME SessionInv, NEW c \in Calls, Enqueue(c), call[c] \in {"idle", "connecting"},
         UNCHANGED <<started, socket>>
  PROVE  RequestInv'
<1>1. TypeOK /\ RequestInv
  BY DEF SessionInv
<1>2. /\ id[c] = 0 /\ ~InQueue(c) /\ c \notin map
      /\ nextId \in Nat \ {0} /\ nextId' = nextId + 1
      /\ id' = [id EXCEPT ![c] = nextId] /\ id \in [Calls -> Nat]
      /\ \A d \in Calls : id[d] < nextId
  BY <1>1 DEF RequestInv, IdInv, NoCallLost, Requested, Enqueue, TypeOK
<1>3. /\ queue \in Seq(Calls) /\ map \subseteq Calls /\ wire \in [Attempts -> Seq(Calls)]
      /\ map' = map /\ wire' = wire /\ answer' = answer
  BY <1>1 DEF TypeOK, Enqueue
<1>4. /\ \A i \in 1 .. Len(queue) : queue[i] \in Calls /\ queue[i] # c
      /\ \A a \in Attempts : \A i \in 1 .. Len(wire[a]) : wire[a][i] \in Calls /\ wire[a][i] # c
  BY <1>1, <1>2, <1>3 DEF InQueue, RequestInv, WireBefore
<1>5. \A d \in Calls : d # c => id'[d] = id[d] /\ call'[d] = call[d]
  BY <1>1, <1>2 DEF Enqueue, TypeOK
<1>6. id'[c] = nextId /\ call'[c] \in {"busy", "waiting"}
      /\ (call'[c] = "waiting" <=> queue' = Append(queue, c))
      /\ (call'[c] = "busy" <=> queue' = queue)
  <2>1. Append(queue, c) # queue
    BY <1>3
  <2>2. CASE Len(queue) > MaxQueue
    BY <1>1, <1>2, <2>1, <2>2 DEF Enqueue, TypeOK
  <2>3. CASE ~ (Len(queue) > MaxQueue)
    BY <1>1, <1>2, <2>1, <2>3 DEF Enqueue, TypeOK
  <2> QED BY <2>2, <2>3
<1>13. /\ nextId \in Nat \ {0} /\ nextId' = nextId + 1
       /\ \A d \in Calls : id[d] \in Nat /\ id[d] < nextId
       /\ \A d \in Calls : d # c => id'[d] = id[d]
       /\ id'[c] = nextId
  BY <1>2, <1>5, <1>6
<1>7. IdInv'
  <2>1. \A d \in Calls : id'[d] < nextId'
    BY <1>13
  <2>2. \A d \in Calls : call'[d] \in {"idle", "connecting"} <=> id'[d] = 0
    BY <1>1, <1>5, <1>6, <1>13 DEF RequestInv, IdInv
  <2>3. \A d, e \in Calls : id[d] = id[e] /\ id[d] # 0 => d = e
    BY <1>1 DEF RequestInv, IdInv
  <2>4. \A d, e \in Calls : id'[d] = id'[e] /\ id'[d] # 0 => d = e
    BY <1>13, <2>3
  <2> QED BY <2>1, <2>2, <2>4 DEF IdInv
<1>8. SentInOrder'
  <2>1. \A a \in Attempts : \A i \in 1 .. Len(wire'[a]) :
           wire'[a][i] = wire[a][i] /\ id'[wire'[a][i]] = id[wire[a][i]]
    BY <1>3, <1>4, <1>5
  <2> QED BY <1>1, <1>3, <2>1 DEF RequestInv, SentInOrder
<1>14. \A a \in Attempts : \A i \in 1 .. Len(wire'[a]) :
         /\ wire'[a][i] = wire[a][i] /\ id'[wire'[a][i]] = id[wire[a][i]]
         /\ i \in 1 .. Len(wire[a])
         /\ id'[wire'[a][i]] # 0 /\ id'[wire'[a][i]] < nextId
         /\ \A j \in 1 .. Len(queue) : id'[wire'[a][i]] < id[queue[j]]
  <2>1. \A a \in Attempts : \A i \in 1 .. Len(wire[a]) :
          id[wire[a][i]] # 0 /\ \A j \in 1 .. Len(queue) : id[wire[a][i]] < id[queue[j]]
    BY <1>1 DEF RequestInv, WireBefore
  <2> QED BY <1>3, <1>4, <1>13, <2>1
<1>15. \A i, j \in 1 .. Len(queue) : i < j => id[queue[i]] < id[queue[j]]
  BY <1>1 DEF RequestInv, QueueSorted
<1>16. \A i \in 1 .. Len(queue) : id'[queue[i]] = id[queue[i]] /\ id[queue[i]] < nextId
  BY <1>4, <1>13
<1>9. OwnAnswer' /\ WaitBounded' /\ SocketInv'
  BY <1>1, <1>3 DEF RequestInv, OwnAnswer, WaitBounded, SocketInv
<1>10. \A d \in Calls : d # c => (Requested(d)' <=> Requested(d))
  BY <1>5 DEF Requested
<1>11. CASE queue' = queue
  <2>1. QueueSorted' /\ WireBefore'
    BY <1>11, <1>14, <1>15, <1>16 DEF QueueSorted, WireBefore
  <2>2. ~Requested(c)' /\ (\A d : InQueue(d)' <=> InQueue(d))
    BY <1>6, <1>11 DEF Requested, InQueue
  <2>3. NoCallLost'
    BY <1>1, <1>2, <1>3, <1>10, <1>11, <2>2 DEF RequestInv, NoCallLost
  <2> QED BY <1>7, <1>8, <1>9, <2>1, <2>3 DEF RequestInv
<1>12. CASE queue' = Append(queue, c)
  <2> DEFINE n == Len(queue)
  <2>1. /\ n \in Nat /\ Len(queue') = n + 1 /\ queue'[n + 1] = c
        /\ \A i \in 1 .. n : queue'[i] = queue[i]
    BY <1>3, <1>12
  <2>2. QueueSorted'
    BY <1>13, <1>15, <1>16, <2>1 DEF QueueSorted
  <2>3. WireBefore'
    <3>1. ASSUME NEW a \in Attempts, NEW i \in 1 .. Len(wire'[a]),
                 NEW j \in 1 .. Len(queue')
          PROVE  id'[wire'[a][i]] < id'[queue'[j]]
      <4>1. CASE j = n + 1
        BY <1>13, <1>14, <2>1, <4>1
      <4>2. CASE j # n + 1
        <5>1. j \in 1 .. n /\ queue'[j] = queue[j]
          BY <2>1, <4>2
        <5> QED BY <1>14, <1>16, <5>1
      <4> QED BY <4>1, <4>2
    <3> QED BY <1>14, <3>1 DEF WireBefore
  <2>4. \A d : InQueue(d)' <=> InQueue(d) \/ d = c
    <3>1. ASSUME NEW d, InQueue(d) \/ d = c PROVE InQueue(d)'
      <4>1. CASE InQueue(d)
        <5>1. PICK i \in 1 .. n : queue[i] = d
          BY <4>1 DEF InQueue
        <5> QED BY <2>1, <5>1 DEF InQueue
      <4>2. CASE d = c
        BY <2>1, <4>2 DEF InQueue
      <4> QED BY <3>1, <4>1, <4>2
    <3>2. ASSUME NEW d, InQueue(d)' PROVE InQueue(d) \/ d = c
      BY <2>1, <3>2 DEF InQueue
    <3> QED BY <3>1, <3>2
  <2>5. Requested(c)'
    BY <1>6, <1>12 DEF Requested
  <2>6. \A i, j \in 1 .. Len(queue') : queue'[i] = queue'[j] => i = j
    BY <1>1, <1>4, <2>1 DEF RequestInv, NoCallLost
  <2>7. NoCallLost'
    BY <1>1, <1>2, <1>3, <1>10, <2>4, <2>5, <2>6 DEF RequestInv, NoCallLost
  <2> QED BY <1>7, <1>8, <1>9, <2>2, <2>3, <2>7 DEF RequestInv
<1> QED BY <1>6, <1>11, <1>12

LEMMA AnsweredSafe ==
  ASSUME SessionInv, NEW a \in Attempts, NEW c \in Calls, Answered(a, c)
  PROVE  RequestInv'
<1>1. TypeOK /\ RequestInv
  BY DEF SessionInv
<1> DEFINE found == {d \in map : id[d] = id[c] /\ heard /\ socket = a}
<1>2. /\ map' = map \ found
      /\ call' = [d \in Calls |-> IF d \in found THEN "answered" ELSE call[d]]
      /\ answer' = [d \in Calls |-> IF d \in found THEN answer[d] \cup {c} ELSE answer[d]]
      /\ UNCHANGED <<queue, wire, id, nextId, started, socket>>
  BY DEF Answered, attemptVars
<1>3. \A d \in found : d = c /\ d \in Calls /\ ~InQueue(d) /\ Requested(d)
  BY <1>1 DEF RequestInv, IdInv, NoCallLost, Requested, TypeOK
<1>4. OwnAnswer'
  BY <1>1, <1>2, <1>3 DEF RequestInv, OwnAnswer
<1>5. NoCallLost'
  <2>1. ASSUME NEW d \in Calls
        PROVE  /\ Requested(d)' <=> (InQueue(d)' \/ d \in map')
               /\ ~ (InQueue(d)' /\ d \in map')
    <3>1. InQueue(d)' <=> InQueue(d)
      BY <1>2 DEF InQueue
    <3>2. CASE d \in found
      <4>1. ~Requested(d)' /\ d \notin map'
        BY <1>2, <3>2 DEF Requested
      <4> QED BY <1>3, <3>1, <3>2, <4>1
    <3>3. CASE d \notin found
      <4>1. (Requested(d)' <=> Requested(d)) /\ (d \in map' <=> d \in map)
        BY <1>2, <3>3 DEF Requested
      <4> QED BY <1>1, <3>1, <4>1 DEF RequestInv, NoCallLost
    <3> QED BY <3>2, <3>3
  <2> QED BY <1>1, <1>2, <2>1 DEF RequestInv, NoCallLost
<1>6. IdInv'
  BY <1>1, <1>2, <1>3 DEF RequestInv, IdInv, Requested
<1>7. QueueSorted' /\ WireBefore' /\ SentInOrder' /\ SocketInv'
  BY <1>1, <1>2 DEF RequestInv, QueueSorted, WireBefore, SentInOrder, SocketInv
<1>8. WaitBounded'
  BY <1>1, <1>2, MapShrinks DEF RequestInv
<1> QED BY <1>4, <1>5, <1>6, <1>7, <1>8 DEF RequestInv

LEMMA CloseSafe == SessionInv /\ Close => RequestInv'
<1> SUFFICES ASSUME SessionInv, Close PROVE RequestInv'
  OBVIOUS
<1>1. TypeOK /\ RequestInv
  BY DEF SessionInv
<1>2. SocketInv'
  BY <1>1 DEF RequestInv, SocketInv, Close, attemptVars
<1>3. CASE Cancels
  <2>1. /\ queue' = << >> /\ map' = {}
        /\ call' = [c \in Calls |-> IF InQueue(c) \/ c \in map THEN "cancelled" ELSE call[c]]
        /\ UNCHANGED <<wire, id, nextId, answer>>
    BY <1>3 DEF Close, Cancels
  <2>2. Len(queue') = 0
    BY <2>1
  <2>3. \A c \in Calls : ~Requested(c)' /\ ~InQueue(c)' /\ c \notin map'
    BY <1>1, <2>1, <2>2 DEF RequestInv, NoCallLost, Requested, InQueue
  <2>4. IdInv'
    BY <1>1, <2>1 DEF RequestInv, IdInv, NoCallLost, Requested
  <2>5. NoCallLost' /\ QueueSorted'
    BY <2>2, <2>3 DEF NoCallLost, QueueSorted
  <2>6. WireBefore' /\ SentInOrder' /\ OwnAnswer'
    BY <1>1, <2>1, <2>2 DEF RequestInv, WireBefore, SentInOrder, OwnAnswer
  <2>7. WaitBounded'
    BY <1>1, <2>1, MapShrinks DEF RequestInv
  <2> QED BY <1>2, <2>4, <2>5, <2>6, <2>7 DEF RequestInv
<1>4. CASE ~Cancels
  <2>1. UNCHANGED requestVars /\ UNCHANGED <<id, nextId, answer>>
    BY <1>4 DEF Close, Cancels, requestVars
  <2> QED BY <1>2, <2>1, RequestsUntouched
<1> QED BY <1>3, <1>4

LEMMA StartAttemptSocket ==
  ASSUME SessionInv, StartAttempt, wire' = wire
  PROVE  SocketInv'
BY BoundsAssumption
   DEF SessionInv, RequestInv, SocketInv, StartAttempt, TypeOK, Attempts, None

LEMMA ReconnectSocket ==
  ASSUME SessionInv, Reconnect, wire' = wire
  PROVE  SocketInv'
<1>1. CASE connected = None
  BY <1>1, StartAttemptSocket DEF Reconnect
<1>2. CASE connected # None
  BY <1>2 DEF Reconnect, SessionInv, RequestInv, SocketInv, attemptVars
<1> QED BY <1>1, <1>2

LEMMA CheckQueueSafe ==
  ASSUME SessionInv, NEW tag, CheckQueue(tag), UNCHANGED <<nextId, id, answer>>
  PROVE  RequestInv'
<1>1. CASE queue = << >>
  BY <1>1, CheckEndsSafe DEF CheckQueue, attemptVars
<1>2. CASE queue # << >> /\ ready = "closed"
  <2>1. Reconnect /\ UNCHANGED requestVars
    BY <1>2 DEF CheckQueue
  <2> QED BY <2>1, ReconnectSocket, RequestsUntouched DEF requestVars
<1>3. CASE queue # << >> /\ ready # "closed"
  BY <1>3, FlushSafe DEF CheckQueue, attemptVars
<1> QED BY <1>1, <1>2, <1>3

LEMMA BecomeOpenSafe ==
  ASSUME SessionInv, BecomeOpen, UNCHANGED <<nextId, id, answer, started, socket>>
  PROVE  RequestInv'
<1>1. CASE ready = "open"
  <2>1. UNCHANGED requestVars
    BY <1>1 DEF BecomeOpen
  <2>2. SocketInv'
    BY <2>1 DEF SessionInv, RequestInv, SocketInv, requestVars
  <2> QED BY <2>1, <2>2, RequestsUntouched
<1>2. CASE ready # "open"
  BY <1>2, FlushSafe DEF BecomeOpen
<1> QED BY <1>1, <1>2

LEMMA InitSafe == Init => RequestInv
<1> SUFFICES ASSUME Init PROVE RequestInv
  OBVIOUS
<1>1. Len(queue) = 0 /\ \A a \in Attempts : wire[a] = << >> /\ Len(wire[a]) = 0
  BY DEF Init
<1>2. SocketInv /\ IdInv
  BY <1>1 DEF Init, SocketInv, IdInv, None
<1>3. NoCallLost /\ QueueSorted /\ WireBefore /\ SentInOrder /\ OwnAnswer
  BY <1>1 DEF Init, NoCallLost, Requested, InQueue, QueueSorted, WireBefore,
              SentInOrder, OwnAnswer
<1>4. WaitBounded
  BY FS_EmptySet, BoundsAssumption DEF Init, WaitBounded
<1> QED BY <1>2, <1>3, <1>4 DEF RequestInv

LEMMA NextSafe == SessionInv /\ [Next]_vars => RequestInv'
<1> SUFFICES ASSUME SessionInv, [Next]_vars PROVE RequestInv'
  OBVIOUS
<1>1. CASE Connect
  <2>1. UNCHANGED requestVars /\ UNCHANGED <<id, nextId, answer>> /\ wire' = wire
    BY <1>1 DEF Connect, requestVars
  <2> QED BY <1>1, <2>1, StartAttemptSocket, RequestsUntouched DEF Connect
<1>2. ASSUME NEW a \in Attempts,
             LookupDone(a) \/ AttemptFails(a) \/ Accepted(a) \/ PeerCloses(a)
      PROVE  RequestInv'
  <2>1. UNCHANGED requestVars /\ UNCHANGED <<id, nextId, answer>>
    BY <1>2 DEF LookupDone, AttemptFails, Accepted, PeerCloses
  <2>2. SocketInv'
    BY <1>2 DEF LookupDone, AttemptFails, Accepted, PeerCloses, SessionInv, RequestInv,
                SocketInv, attemptVars, requestVars
  <2> QED BY <2>1, <2>2, RequestsUntouched
<1>3. ASSUME NEW a \in Attempts, AttemptSucceeds(a) PROVE RequestInv'
  BY <1>3, BecomeOpenSafe DEF AttemptSucceeds
<1>4. ASSUME NEW a \in Attempts, OpenEvent(a) PROVE RequestInv'
  <2>1. CASE heard /\ socket = a
    BY <1>4, <2>1, BecomeOpenSafe DEF OpenEvent
  <2>2. CASE ~ (heard /\ socket = a)
    <3>1. UNCHANGED requestVars /\ UNCHANGED <<id, nextId, answer, started, socket>>
      BY <1>4, <2>2 DEF OpenEvent
    <3>2. SocketInv'
      BY <3>1 DEF SessionInv, RequestInv, SocketInv, requestVars
    <3> QED BY <3>1, <3>2, RequestsUntouched
  <2> QED BY <2>1, <2>2
<1>5. ASSUME NEW c \in Calls, CallWhenOpen(c) \/ CallContinues(c) PROVE RequestInv'
  BY <1>5, EnqueueSafe DEF CallWhenOpen, CallContinues, IsNext, attemptVars
<1>6. ASSUME NEW c \in Calls, CallFirst(c) PROVE RequestInv'
  <2>1. /\ UNCHANGED <<queue, map, wire, id, nextId, answer>> /\ wire' = wire
        /\ Reconnect /\ call[c] = "idle" /\ call' = [call EXCEPT ![c] = "connecting"]
    BY <1>6 DEF CallFirst, IsNext
  <2>2. \A d \in Calls : /\ Requested(d)' <=> Requested(d)
                         /\ call'[d] \in {"idle", "connecting"}
                              <=> call[d] \in {"idle", "connecting"}
    BY <2>1 DEF SessionInv, TypeOK, Requested
  <2> QED BY <2>1, <2>2, ReconnectSocket, NothingMoves
<1>7. CASE QueueTimer
  BY <1>7, CheckQueueSafe DEF QueueTimer
<1>8. CASE Tick
  BY <1>8, CheckQueueSafe DEF Tick
<1>9. ASSUME NEW w \in waiting, WaitEnds(w) PROVE RequestInv'
  BY <1>9, FlushSafe DEF WaitEnds, attemptVars
<1>10. ASSUME NEW c \in Calls, WriteEnds(c) PROVE RequestInv'
  BY <1>10, FlushSafe DEF WriteEnds, attemptVars
<1>11. ASSUME NEW a \in Attempts, NEW c \in Calls, Answered(a, c) PROVE RequestInv'
  BY <1>11, AnsweredSafe
<1>12. ASSUME NEW c \in Calls, GrowsOld(c) PROVE RequestInv'
  <2>1. /\ UNCHANGED <<queue, map, wire, id, nextId, answer, started, socket>>
        /\ call[c] = "waiting" /\ call' = [call EXCEPT ![c] = "overdue"]
    BY <1>12 DEF GrowsOld, attemptVars
  <2>2. \A d \in Calls : /\ Requested(d)' <=> Requested(d)
                         /\ call'[d] \in {"idle", "connecting"}
                              <=> call[d] \in {"idle", "connecting"}
    BY <2>1 DEF SessionInv, TypeOK, Requested
  <2>3. SocketInv'
    BY <2>1 DEF SessionInv, RequestInv, SocketInv
  <2> QED BY <2>1, <2>2, <2>3, NothingMoves
<1>13. CASE Close
  BY <1>13, CloseSafe
<1>14. CASE UNCHANGED vars
  <2>1. UNCHANGED requestVars /\ UNCHANGED <<id, nextId, answer, started, socket>>
    BY <1>14 DEF vars, attemptVars
  <2>2. SocketInv'
    BY <2>1 DEF SessionInv, RequestInv, SocketInv, requestVars
  <2> QED BY <2>1, <2>2, RequestsUntouched
<1> QED
  BY <1>1, <1>2, <1>3, <1>4, <1>5, <1>6, <1>7, <1>8, <1>9, <1>10, <1>11, <1>12,
     <1>13, <1>14 DEF Next, Attempt

LEMMA SessionInvariant == Spec => []SessionInv
<1>1. Init => SessionInv
  BY InitType, InitSafe DEF SessionInv
<1>2. SessionInv /\ [Next]_vars => SessionInv'
  BY NextType, NextSafe DEF SessionInv
<1> QED BY <1>1, <1>2, PTL DEF Spec
-----------------------------------------------------------------------------
(* The refinement of RequestReply                                          *)

CallerStep == [Caller!Next]_(Caller!vars)

Same(c) == Stage(c)' = Stage(c)

LEMMA StagePrimed ==
  [c \in Calls |-> Stage(c)]' = [c \in Calls |-> Stage(c)']
OBVIOUS

\* Some calls that are pending fail, or nothing is to be seen.
LEMMA FailStep ==
  ASSUME answer' = answer,
         \A c \in Calls : Same(c) \/ (Stage(c) \in {"made", "sent"} /\ Stage(c)' = "failed")
  PROVE  CallerStep
<1> DEFINE stages == [c \in Calls |-> Stage(c)]
           S == {c \in Calls : ~Same(c)}
<1>1. \A c \in S : stages[c] \in {"made", "sent"}
  OBVIOUS
<1>2. [c \in Calls |-> Stage(c)'] = [c \in Calls |-> IF c \in S THEN "failed" ELSE stages[c]]
  BY DEF Same
<1>3. Caller!Fail(S)
  BY <1>1, <1>2, StagePrimed DEF Caller!Fail
<1>4. S \in SUBSET Calls
  OBVIOUS
<1> QED BY <1>3, <1>4 DEF CallerStep, Caller!Next

\* One call moves, and none of the others.
LEMMA OneMoves ==
  ASSUME NEW c \in Calls, NEW to, Stage(c)' = to, \A d \in Calls \ {c} : Same(d)
  PROVE  Caller!Moves(c, Stage(c), to)
<1>1. [d \in Calls |-> Stage(d)'] = [[d \in Calls |-> Stage(d)] EXCEPT ![c] = to]
  BY DEF Same
<1> QED BY <1>1, StagePrimed DEF Caller!Moves

LEMMA MakeStep ==
  ASSUME NEW c \in Calls, Stage(c) = "new", Stage(c)' \in {"made", "failed"},
         answer' = answer, \A d \in Calls \ {c} : Same(d)
  PROVE  CallerStep
BY OneMoves DEF CallerStep, Caller!Next, Caller!Make

LEMMA SendStep ==
  ASSUME NEW c \in Calls, Stage(c) = "made", Stage(c)' = "sent",
         answer' = answer, \A d \in Calls \ {c} : Same(d)
  PROVE  CallerStep
BY OneMoves DEF CallerStep, Caller!Next, Caller!Send

LEMMA ReplyStep ==
  ASSUME NEW c \in Calls, Stage(c) = "sent", Stage(c)' = "replied",
         answer' = [answer EXCEPT ![c] = {c}], \A d \in Calls \ {c} : Same(d)
  PROVE  CallerStep
BY OneMoves DEF CallerStep, Caller!Next, Caller!Reply

LEMMA SameCall ==
  ASSUME wire' = wire, NEW c \in Calls, call'[c] = call[c] PROVE Same(c)
BY DEF Same, Stage, OnWire, Pending, Requested

LEMMA NothingSeen ==
  ASSUME UNCHANGED <<wire, call, answer>> PROVE CallerStep
BY SameCall, FailStep

\* A request that is still in the queue, or has no id yet, is on no wire.
LEMMA NotSentYet ==
  ASSUME SessionInv, NEW c \in Calls, InQueue(c) \/ id[c] = 0 PROVE ~OnWire(c)
<1> SUFFICES ASSUME NEW a \in Attempts, NEW i \in 1 .. Len(wire[a]), wire[a][i] = c
             PROVE  FALSE
  BY DEF OnWire
<1>1. id[c] # 0 /\ \A j \in 1 .. Len(queue) : id[c] < id[queue[j]]
  BY DEF SessionInv, RequestInv, WireBefore
<1>2. PICK j \in 1 .. Len(queue) : queue[j] = c
  BY <1>1 DEF InQueue
<1>3. id[c] \in Nat
  BY DEF SessionInv, TypeOK
<1> QED BY <1>1, <1>2, <1>3

LEMMA TakeCaller ==
  ASSUME SessionInv, NEW tag, NEW loops, CanTake, Take(tag, loops),
         UNCHANGED <<answer, socket>>
  PROVE  CallerStep
<1>1. PICK c \in Calls : c = Head(queue)
  BY HeadTail DEF SessionInv, TypeOK, CanTake
<1>5. InQueue(c) /\ call' = call /\ answer' = answer /\ socket' = socket
  BY <1>1, HeadTail DEF SessionInv, TypeOK, CanTake, Take, InQueue
<1>2. Requested(c) /\ ~OnWire(c)
  BY <1>5, NotSentYet DEF SessionInv, RequestInv, NoCallLost
<1>3. CASE wire' = wire
  BY <1>3, <1>5, NothingSeen
<1>4. CASE wire' # wire
  <2>1. /\ socket \in Attempts
        /\ wire' = [wire EXCEPT ![socket] = Append(wire[socket], c)]
    BY <1>1, <1>4, <1>5 DEF Take, Reaches, SessionInv, TypeOK
  <2> DEFINE n == Len(wire[socket])
  <2>2. /\ n \in Nat /\ Len(wire'[socket]) = n + 1 /\ wire'[socket][n + 1] = c
        /\ \A i \in 1 .. n : wire'[socket][i] = wire[socket][i]
        /\ \A b \in Attempts \ {socket} : wire'[b] = wire[b]
    <3>1. wire[socket] \in Seq(Calls) /\ wire'[socket] = Append(wire[socket], c)
      BY <2>1 DEF SessionInv, TypeOK
    <3>2. \A b \in Attempts \ {socket} : wire'[b] = wire[b]
      BY <2>1 DEF SessionInv, TypeOK
    <3> QED BY <3>1, <3>2
  <2>3. OnWire(c)'
    BY <2>1, <2>2 DEF OnWire
  <2>6. ASSUME NEW d \in Calls \ {c} PROVE OnWire(d)' <=> OnWire(d)
    <3>1. ASSUME NEW b \in Attempts, NEW i \in 1 .. Len(wire[b]), wire[b][i] = d
          PROVE  OnWire(d)'
      <4>1. i \in 1 .. Len(wire'[b]) /\ wire'[b][i] = d
        BY <2>2, <3>1
      <4> QED BY <4>1 DEF OnWire
    <3>2. ASSUME NEW b \in Attempts, NEW i \in 1 .. Len(wire'[b]), wire'[b][i] = d
          PROVE  OnWire(d)
      <4>1. i \in 1 .. Len(wire[b]) /\ wire[b][i] = d
        BY <2>2, <3>2
      <4> QED BY <4>1 DEF OnWire
    <3>3. OnWire(d) => OnWire(d)'
      BY <3>1, Zenon DEF OnWire
    <3>4. OnWire(d)' => OnWire(d)
      BY <3>2, Zenon DEF OnWire
    <3> QED BY <3>3, <3>4
  <2>4. \A d \in Calls \ {c} : Same(d)
    BY <1>5, <2>6 DEF Same, Stage, Pending, Requested
  <2>5. Stage(c) = "made" /\ Stage(c)' = "sent"
    BY <1>2, <1>5, <2>3 DEF Stage, Pending, Requested
  <2> QED BY <1>5, <2>4, <2>5, SendStep
<1> QED BY <1>3, <1>4

LEMMA CheckEndsCaller ==
  ASSUME SessionInv, NEW tag, NEW loops, CheckEnds(tag, loops), answer' = answer
  PROVE  CallerStep
<1>1. CASE tag = "tick"
  <2>1. /\ wire' = wire
        /\ call' = [c \in Calls |-> IF c \in Expired THEN "timeout" ELSE call[c]]
    BY <1>1 DEF CheckEnds, CheckTimeouts
  <2>2. ASSUME NEW c \in Calls, c \in Expired
        PROVE  Stage(c) \in {"made", "sent"} /\ Stage(c)' = "failed"
    BY <2>1, <2>2 DEF Expired, OldInMap, HeadIsOld, Stage, Pending, Requested
  <2>3. ASSUME NEW c \in Calls, c \notin Expired PROVE Same(c)
    BY <2>1, <2>3, SameCall
  <2> QED BY <2>2, <2>3, FailStep
<1>2. CASE tag # "tick"
  BY <1>2, NothingSeen DEF CheckEnds
<1> QED BY <1>1, <1>2

LEMMA FlushCaller ==
  ASSUME SessionInv, NEW tag, NEW loops, Flush(tag, loops), UNCHANGED <<answer, socket>>
  PROVE  CallerStep
BY TakeCaller, CheckEndsCaller DEF Flush

LEMMA EnqueueCaller ==
  ASSUME SessionInv, NEW c \in Calls, Enqueue(c), call[c] \in {"idle", "connecting"}
  PROVE  CallerStep
<1>1. /\ wire' = wire /\ answer' = answer /\ call'[c] \in {"busy", "waiting"}
      /\ \A d \in Calls \ {c} : call'[d] = call[d]
  BY DEF Enqueue, SessionInv, TypeOK
<1>2. ~OnWire(c)
  BY NotSentYet DEF SessionInv, RequestInv, IdInv
<1>3. ~OnWire(c)' /\ \A d \in Calls \ {c} : Same(d)
  BY <1>1, <1>2, SameCall DEF OnWire
<1>4. Stage(c)' \in {"made", "failed"}
  BY <1>1, <1>3 DEF Stage, Pending, Requested
<1>5. CASE call[c] = "idle"
  <2>1. Stage(c) = "new"
    BY <1>5 DEF Stage, Pending, Requested
  <2> QED BY <1>1, <1>3, <1>4, <2>1, MakeStep
<1>6. CASE call[c] = "connecting"
  <2>1. Stage(c) = "made"
    BY <1>2, <1>6 DEF Stage, Pending, Requested
  <2> QED BY <1>1, <1>3, <1>4, <2>1, FailStep DEF Same
<1> QED BY <1>5, <1>6

LEMMA AnsweredCaller ==
  ASSUME SessionInv, NEW a \in Attempts, NEW c \in Calls, Answered(a, c)
  PROVE  CallerStep
<1> DEFINE found == {d \in map : id[d] = id[c] /\ heard /\ socket = a}
<1>1. /\ wire' = wire
      /\ call' = [d \in Calls |-> IF d \in found THEN "answered" ELSE call[d]]
      /\ answer' = [d \in Calls |-> IF d \in found THEN answer[d] \cup {c} ELSE answer[d]]
  BY DEF Answered
<1>2. \A d \in found : d = c /\ Requested(d)
  BY DEF SessionInv, RequestInv, IdInv, NoCallLost, Requested, TypeOK
<1>3. answer \in [Calls -> SUBSET Calls]
  BY DEF SessionInv, TypeOK
<1>4. CASE found = {}
  <2>1. answer' = answer /\ \A d \in Calls : call'[d] = call[d]
    BY <1>1, <1>3, <1>4
  <2> QED BY <1>1, <2>1, SameCall, FailStep
<1>5. CASE found # {}
  <2>1. found = {c} /\ Requested(c) /\ OnWire(c)
    BY <1>2, <1>5 DEF Answered, OnWire
  <2>2. answer[c] \subseteq {c}
    BY DEF SessionInv, RequestInv, OwnAnswer
  <2>3. answer' = [answer EXCEPT ![c] = {c}]
    BY <1>1, <1>3, <2>1, <2>2
  <2>4. \A d \in Calls \ {c} : Same(d)
    BY <1>1, <2>1, SameCall
  <2>5. Stage(c) = "sent" /\ Stage(c)' = "replied"
    BY <1>1, <2>1 DEF Stage, Pending, Requested
  <2> QED BY <2>3, <2>4, <2>5, ReplyStep
<1> QED BY <1>4, <1>5

LEMMA CloseCaller == SessionInv /\ Close => CallerStep
<1> SUFFICES ASSUME SessionInv, Close PROVE CallerStep
  OBVIOUS
<1>1. wire' = wire /\ answer' = answer
  BY DEF Close
<1>2. CASE Cancels
  <2>1. call' = [c \in Calls |-> IF InQueue(c) \/ c \in map THEN "cancelled" ELSE call[c]]
    BY <1>2 DEF Close, Cancels
  <2>2. ASSUME NEW c \in Calls, InQueue(c) \/ c \in map
        PROVE  Stage(c) \in {"made", "sent"} /\ Stage(c)' = "failed"
    <3>1. Requested(c) /\ call'[c] = "cancelled"
      BY <2>1, <2>2 DEF SessionInv, RequestInv, NoCallLost
    <3> QED BY <3>1 DEF Stage, Pending, Requested
  <2>3. ASSUME NEW c \in Calls, ~ (InQueue(c) \/ c \in map) PROVE Same(c)
    BY <1>1, <2>1, <2>3, SameCall
  <2> QED BY <1>1, <2>2, <2>3, FailStep
<1>3. CASE ~Cancels
  BY <1>1, <1>3, NothingSeen DEF Close, Cancels
<1> QED BY <1>2, <1>3

LEMMA CheckQueueCaller ==
  ASSUME SessionInv, NEW tag, CheckQueue(tag), answer' = answer
  PROVE  CallerStep
<1>1. CASE queue = << >>
  BY <1>1, CheckEndsCaller DEF CheckQueue
<1>2. CASE queue # << >> /\ ready = "closed"
  BY <1>2, NothingSeen DEF CheckQueue, requestVars
<1>3. CASE queue # << >> /\ ready # "closed"
  BY <1>3, FlushCaller DEF CheckQueue
<1> QED BY <1>1, <1>2, <1>3

LEMMA BecomeOpenCaller ==
  ASSUME SessionInv, BecomeOpen, UNCHANGED <<answer, socket>> PROVE CallerStep
<1>1. CASE ready = "open"
  BY <1>1, NothingSeen DEF BecomeOpen, requestVars
<1>2. CASE ready # "open"
  BY <1>2, FlushCaller DEF BecomeOpen
<1> QED BY <1>1, <1>2

LEMMA CallerInit == Init => Caller!Init
<1> SUFFICES ASSUME Init PROVE Caller!Init
  OBVIOUS
<1>1. \A c \in Calls : Stage(c) = "new"
  BY DEF Init, Stage, Pending, Requested
<1> QED BY <1>1 DEF Init, Caller!Init

LEMMA CallerNext == SessionInv /\ [Next]_vars => CallerStep
<1> SUFFICES ASSUME SessionInv, [Next]_vars PROVE CallerStep
  OBVIOUS
<1>1. CASE Connect
  BY <1>1, NothingSeen DEF Connect, requestVars
<1>2. ASSUME NEW a \in Attempts,
             LookupDone(a) \/ AttemptFails(a) \/ Accepted(a) \/ PeerCloses(a)
      PROVE  CallerStep
  BY <1>2, NothingSeen DEF LookupDone, AttemptFails, Accepted, PeerCloses, requestVars
<1>3. ASSUME NEW a \in Attempts, AttemptSucceeds(a) PROVE CallerStep
  BY <1>3, BecomeOpenCaller DEF AttemptSucceeds
<1>4. ASSUME NEW a \in Attempts, OpenEvent(a) PROVE CallerStep
  BY <1>4, BecomeOpenCaller, NothingSeen DEF OpenEvent, requestVars
<1>5. ASSUME NEW c \in Calls, CallWhenOpen(c) \/ CallContinues(c) PROVE CallerStep
  BY <1>5, EnqueueCaller DEF CallWhenOpen, CallContinues, IsNext
<1>6. ASSUME NEW c \in Calls, CallFirst(c) PROVE CallerStep
  <2>1. /\ wire' = wire /\ answer' = answer
        /\ call[c] = "idle" /\ call' = [call EXCEPT ![c] = "connecting"]
    BY <1>6 DEF CallFirst, IsNext
  <2>2. call'[c] = "connecting" /\ \A d \in Calls \ {c} : call'[d] = call[d]
    BY <2>1 DEF SessionInv, TypeOK
  <2>3. ~OnWire(c)'
    BY <2>1, NotSentYet DEF SessionInv, RequestInv, IdInv, OnWire
  <2>4. Stage(c) = "new" /\ Stage(c)' = "made"
    BY <2>1, <2>2, <2>3 DEF Stage, Pending, Requested
  <2> QED BY <2>1, <2>2, <2>4, SameCall, MakeStep
<1>7. CASE QueueTimer
  BY <1>7, CheckQueueCaller DEF QueueTimer
<1>8. CASE Tick
  BY <1>8, CheckQueueCaller DEF Tick
<1>9. ASSUME NEW w \in waiting, WaitEnds(w) PROVE CallerStep
  BY <1>9, FlushCaller DEF WaitEnds
<1>10. ASSUME NEW c \in Calls, WriteEnds(c) PROVE CallerStep
  BY <1>10, FlushCaller DEF WriteEnds
<1>11. ASSUME NEW a \in Attempts, NEW c \in Calls, Answered(a, c) PROVE CallerStep
  BY <1>11, AnsweredCaller
<1>12. ASSUME NEW c \in Calls, GrowsOld(c) PROVE CallerStep
  <2>1. wire' = wire /\ answer' = answer
        /\ call[c] = "waiting" /\ call' = [call EXCEPT ![c] = "overdue"]
    BY <1>12 DEF GrowsOld
  <2>2. call'[c] = "overdue" /\ \A d \in Calls \ {c} : call'[d] = call[d]
    BY <2>1 DEF SessionInv, TypeOK
  <2>3. Same(c)
    BY <2>1, <2>2 DEF Same, Stage, OnWire, Pending, Requested
  <2> QED BY <2>1, <2>2, <2>3, SameCall, FailStep
<1>13. CASE Close
  BY <1>13, CloseCaller
<1>14. CASE UNCHANGED vars
  BY <1>14, NothingSeen DEF vars, requestVars
<1> QED
  BY <1>1, <1>2, <1>3, <1>4, <1>5, <1>6, <1>7, <1>8, <1>9, <1>10, <1>11, <1>12,
     <1>13, <1>14 DEF Next, Attempt
-----------------------------------------------------------------------------
(* Theorems *)

\* A call that has its id and is not settled is in the queue or in the map of
\* the session, once, and nothing else is there.
THEOREM CallsAreKept == Spec => []NoCallLost
BY SessionInvariant, PTL DEF SessionInv, RequestInv

\* A call is settled by the answer to its own request, or by none.
THEOREM AnswersAreOwn == Spec => []OwnAnswer
BY SessionInvariant, PTL DEF SessionInv, RequestInv

\* Requests are written in the order of their ids, over all connections, each
\* at most once.
THEOREM RequestsInOrder == Spec => []SentInOrder
BY SessionInvariant, PTL DEF SessionInv, RequestInv

\* The loops that send, however many, never let more than MaxWait requests
\* wait for an answer.
THEOREM WaitIsBounded == Spec => []WaitBounded
BY SessionInvariant, PTL DEF SessionInv, RequestInv

\* A caller of call() sees what RequestReply promises: its request is sent
\* while the call is pending, and the call settles once, by the reply to that
\* request or by a failure (jsonrpc.js:163-339, 662-690).
THEOREM SessionServesCallers == Spec => KeepsCalls
<1>1. Init => SessionInv /\ Caller!Init
  BY InitType, InitSafe, CallerInit DEF SessionInv
<1>2. SessionInv /\ [Next]_vars => SessionInv' /\ [Caller!Next]_(Caller!vars)
  BY NextType, NextSafe, CallerNext DEF SessionInv, CallerStep
<1> QED BY <1>1, <1>2, PTL DEF Spec, KeepsCalls, Caller!Spec
=============================================================================
