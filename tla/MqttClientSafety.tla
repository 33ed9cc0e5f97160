-------------------------- MODULE MqttClientSafety --------------------------
(***************************************************************************)
(* The safety theorems of MqttClient that need more than types.            *)
(***************************************************************************)
EXTENDS MqttClientProofs

-----------------------------------------------------------------------------
(* The cache *)

CacheInv == TypeInv /\ CacheBounded

LEMMA NextCacheBounded == CacheInv /\ [Next]_vars => CacheBounded'
<1> SUFFICES ASSUME TypeInv, CacheBounded, [Next]_vars PROVE CacheBounded'
  BY DEF CacheInv
<1>0. /\ CacheBounded /\ CacheOfStore /\ store \in Seq(Msgs) \cup {None}
      /\ StoreLimit \in Nat /\ None \notin Seq(Msgs)
  BY ConstantsAssumption DEF TypeInv, TypeOK
<1>1. CASE store' \in {<<>>, None}
  BY <1>0, <1>1 DEF CacheBounded
<1>2. ASSUME NEW m \in Msgs, PublishOffline(m) PROVE CacheBounded'
  <2>1. CASE UNCHANGED store
    BY <1>0, <2>1 DEF CacheBounded
  <2>2. CASE store # None /\ Len(store) <= StoreLimit /\ store' = Append(store, m)
    <3>1. store \in Seq(Msgs) /\ Len(store') = Len(store) + 1
      BY <1>0, <1>2, <2>2
    <3> QED BY <1>0, <2>2, <3>1 DEF CacheBounded
  <2>3. \/ UNCHANGED store
        \/ store # None /\ ~(Len(store) > StoreLimit) /\ store' = Append(store, m)
    BY <1>2 DEF PublishOffline
  <2>4. store # None => Len(store) \in Nat
    BY <1>0
  <2> QED BY <1>0, <2>1, <2>2, <2>3, <2>4
<1>3. ASSUME NEW a \in Attempts, FlushOne(a) PROVE CacheBounded'
  <2>1. store \in Seq(Msgs) /\ store # <<>> /\ store' = Tail(store)
    BY <1>0, <1>3 DEF FlushOne, CacheOfStore
  <2>2. Len(store') = Len(store) - 1 /\ Len(store) \in Nat /\ store # None
    BY <1>0, <2>1
  <2> QED BY <1>0, <2>2 DEF CacheBounded
<1>4. CASE UNCHANGED store
  BY <1>0, <1>4 DEF CacheBounded
<1>5. CASE Application
  BY <1>1, <1>2, <1>4, <1>5
     DEF Application, Open, Close, CloseFinish, CloseEnd, PublishOnline,
         UserSubscribe, UserUnsubscribe, client
<1>6. ASSUME NEW a \in Attempts, Microtask(a) PROVE CacheBounded'
  BY <1>3, <1>4, <1>6 DEF Microtask, SendConnect, Connected, Resubscribe,
     ResubscribeEnd, FlushEnd, Catch, client
<1>7. CASE UNCHANGED vars
  BY <1>4, <1>7 DEF vars, client
<1> QED
  BY <1>4, <1>5, <1>6, <1>7, TimersFrame, AttemptIOFrame, SendingFrame,
     NetworkFrame DEF Next, Sending

(* The cache never holds more than one message beyond the limit.           *)
THEOREM CacheStaysBounded == Spec => []CacheBounded
<1>1. Init => CacheInv
  <2>1. Init => CacheBounded
    BY ConstantsAssumption DEF Init, CacheBounded
  <2> QED BY <2>1, InitTyped DEF CacheInv
<1>2. CacheInv /\ [Next]_vars => CacheInv'
  BY NextTyped, NextCacheBounded DEF CacheInv
<1>3. CacheInv => CacheBounded
  BY DEF CacheInv
<1> QED BY <1>1, <1>2, <1>3, PTL DEF Spec

-----------------------------------------------------------------------------
(* One PUBLISH per message *)

(* The phases of a message that has not been on the wire. *)
Unsent == {"new", "cached", "writing", "refused", "dropped"}

(* The cache holds cached messages, each of them once. *)
StoreCached ==
  store # None =>
    \A i \in 1 .. Len(store) :
      /\ phase[store[i]] = "cached"
      /\ \A j \in 1 .. Len(store) : store[i] = store[j] => i = j

UnsentNoCopy ==
  \A m \in Msgs : copies[m] <= 1 /\ (phase[m] \in Unsent => copies[m] = 0)

SendInv == TypeInv /\ StoreCached /\ UnsentNoCopy

(* A step that neither sends, nor caches, nor writes. *)
LEMMA QuietStep ==
  ASSUME SendInv, UNCHANGED <<store, copies>>,
         \A m \in Msgs : \/ phase'[m] = phase[m]
                         \/ /\ phase[m] # "cached"
                            /\ phase'[m] \in Unsent => phase[m] \in Unsent
  PROVE  (StoreCached /\ UnsentNoCopy)'
<1>0. /\ StoreCached /\ UnsentNoCopy /\ store \in Seq(Msgs) \cup {None}
  BY DEF SendInv, TypeInv, TypeOK
<1>1. UnsentNoCopy'
  BY <1>0 DEF UnsentNoCopy
<1>2. ASSUME store # None PROVE \A i \in 1 .. Len(store) : store[i] \in Msgs
  BY <1>0, <1>2
<1>3. StoreCached'
  BY <1>0, <1>2 DEF StoreCached
<1> QED BY <1>1, <1>3

LEMMA CloseEndSends ==
  ASSUME SendInv, CloseEnd, UNCHANGED copies,
         \A m \in Msgs : phase'[m] \in Unsent => phase[m] \in Unsent
  PROVE  (StoreCached /\ UnsentNoCopy)'
BY DEF SendInv, CloseEnd, StoreCached, UnsentNoCopy

LEMMA NextSend == SendInv /\ [Next]_vars => (StoreCached /\ UnsentNoCopy)'
<1> SUFFICES ASSUME SendInv, [Next]_vars PROVE (StoreCached /\ UnsentNoCopy)'
  OBVIOUS
<1>0. /\ StoreCached /\ UnsentNoCopy /\ CacheOfStore
      /\ store \in Seq(Msgs) \cup {None} /\ None \notin Seq(Msgs)
      /\ phase \in [Msgs -> Phases] /\ copies \in [Msgs -> Nat]
      /\ to \in [Msgs -> Attempts \cup {None}]
  BY ConstantsAssumption DEF SendInv, TypeInv, TypeOK
<1>1. CASE UNCHANGED <<store, copies, phase>>
  BY <1>1, QuietStep
<1>2. CASE Open
  <2>1. store' = <<>> /\ UNCHANGED <<copies, phase>>
    BY <1>2 DEF Open, message
  <2> QED BY <1>0, <2>1 DEF StoreCached, UnsentNoCopy
<1>3. CASE Close
  <2> DEFINE rejected == [m \in Msgs |->
                IF phase[m] = "waiting" /\ outgoing[Publish(m)] # None
                THEN "failed" ELSE phase[m]]
  <2>1. CASE readyState = "OPEN"
    <3>1. UNCHANGED <<store, copies>> /\ phase' = rejected
      BY <1>3, <2>1 DEF Close
    <3> QED BY <1>0, <3>1, QuietStep DEF Unsent
  <2>2. CASE readyState # "OPEN"
    <3>1. CloseEnd /\ UNCHANGED copies /\ phase' = Discard(rejected)
      BY <1>3, <2>2 DEF Close
    <3> QED BY <1>0, <3>1, CloseEndSends DEF Discard, Unsent
  <2> QED BY <2>1, <2>2
<1>4. CASE CloseFinish
  BY <1>0, <1>4, CloseEndSends DEF CloseFinish, Discard, Unsent
<1>5. ASSUME NEW m \in Msgs, PublishOffline(m)
      PROVE  (StoreCached /\ UnsentNoCopy)'
  <2>1. CASE UNCHANGED store
    <3>1. /\ phase[m] = "new" /\ UNCHANGED copies
          /\ \E p \in {"dropped", "refused", "cached"} :
                phase' = [phase EXCEPT ![m] = p]
      BY <1>5 DEF PublishOffline
    <3> QED BY <1>0, <2>1, <3>1, QuietStep DEF Unsent
  <2>2. CASE /\ store # None /\ store' = Append(store, m)
             /\ phase' = [phase EXCEPT ![m] = "cached"]
    <3>1. phase[m] = "new" /\ UNCHANGED copies /\ store \in Seq(Msgs)
      BY <1>0, <1>5, <2>2 DEF PublishOffline
    <3>2. \A i \in 1 .. Len(store) : store[i] \in Msgs /\ store[i] # m
      BY <1>0, <2>2, <3>1 DEF StoreCached
    <3>3. /\ Len(store') = Len(store) + 1 /\ Len(store) \in Nat
          /\ store'[Len(store) + 1] = m
          /\ \A i \in 1 .. Len(store) : store'[i] = store[i]
      BY <1>5, <2>2, <3>1
    <3>4. \A i \in 1 .. Len(store') : i \in 1 .. Len(store) \/ i = Len(store) + 1
      BY <3>3
    <3>5. StoreCached'
      BY <1>0, <1>5, <2>2, <3>2, <3>3, <3>4 DEF StoreCached
    <3>6. UnsentNoCopy'
      BY <1>0, <2>2, <3>1 DEF UnsentNoCopy, Unsent
    <3> QED BY <3>5, <3>6
  <2> QED BY <1>5, <2>1, <2>2 DEF PublishOffline
<1>6. ASSUME NEW m \in Msgs, PublishOnline(m)
      PROVE  (StoreCached /\ UnsentNoCopy)'
  BY <1>0, <1>6, QuietStep DEF PublishOnline, SendPublish, client, Unsent
<1>7. CASE Application
  BY <1>1, <1>2, <1>3, <1>4, <1>5, <1>6, <1>7
     DEF Application, UserSubscribe, UserUnsubscribe, client, message
<1>8. CASE Timers
  <2>1. ASSUME NEW m \in Msgs, PubackTimeout(m)
        PROVE  (StoreCached /\ UnsentNoCopy)'
    BY <1>0, <1>8, <2>1, QuietStep, TimersFrame DEF PubackTimeout, Unsent
  <2> QED
    BY <1>1, <1>8, <2>1, TimersFrame
       DEF Timers, BeginTimers, EndTimers, DeferredClose,
           CheckReconnect, KeepAliveTimeout, StartAttempt, AckTimeout, message
<1>9. ASSUME NEW a \in Attempts, FlushOne(a)
      PROVE  (StoreCached /\ UnsentNoCopy)'
  <2>1. /\ store \in Seq(Msgs) /\ store # <<>> /\ store' = Tail(store)
        /\ phase' = [phase EXCEPT ![Head(store)] = "writing"]
        /\ UNCHANGED copies
    BY <1>0, <1>9 DEF FlushOne, SendPublish, CacheOfStore
  <2>2. /\ Len(store) \in Nat \ {0} /\ Len(store') = Len(store) - 1
        /\ Head(store) = store[1] /\ store[1] \in Msgs
        /\ \A i \in 1 .. Len(store') :
              /\ store'[i] = store[i + 1] /\ i + 1 \in 1 .. Len(store)
              /\ store[i + 1] \in Msgs
    BY <2>1
  <2>3. store # None /\ 1 \in 1 .. Len(store)
    BY <1>0, <2>1, <2>2
  <2>4. \A i \in 1 .. Len(store') : store'[i] # Head(store)
    BY <1>0, <2>2, <2>3 DEF StoreCached
  <2>5. StoreCached'
    BY <1>0, <2>1, <2>2, <2>3, <2>4 DEF StoreCached
  <2>6. phase[Head(store)] = "cached"
    BY <1>0, <2>2, <2>3 DEF StoreCached
  <2>7. UnsentNoCopy'
    BY <1>0, <2>1, <2>2, <2>6 DEF UnsentNoCopy, Unsent
  <2> QED BY <2>5, <2>7
<1>10. ASSUME NEW a \in Attempts, Microtask(a)
       PROVE  (StoreCached /\ UnsentNoCopy)'
  BY <1>1, <1>9, <1>10 DEF Microtask, SendConnect, Connected, Resubscribe,
     ResubscribeEnd, FlushEnd, Catch, client, message
<1>11. ASSUME NEW m \in Msgs, PublishWritten(m)
       PROVE  (StoreCached /\ UnsentNoCopy)'
  <2>1. /\ phase[m] = "writing" /\ UNCHANGED store
        /\ \E p \in {"waiting", "done"} : phase' = [phase EXCEPT ![m] = p]
        /\ \E d \in {0, 1} : copies' = [copies EXCEPT ![m] = @ + d]
    BY <1>11 DEF PublishWritten
  <2>2. \A n \in Msgs : phase[n] = "cached" => phase'[n] = "cached"
    BY <1>0, <2>1
  <2>3. ASSUME store # None PROVE \A i \in 1 .. Len(store) : store[i] \in Msgs
    BY <1>0, <2>3
  <2>4. StoreCached'
    BY <1>0, <2>1, <2>2, <2>3 DEF StoreCached
  <2>5. UnsentNoCopy'
    BY <1>0, <2>1 DEF UnsentNoCopy, Unsent
  <2> QED BY <2>4, <2>5
<1>12. ASSUME NEW m \in Msgs, PublishFailed(m)
       PROVE  (StoreCached /\ UnsentNoCopy)'
  BY <1>0, <1>12, QuietStep DEF PublishFailed, client, Unsent
<1>13. CASE Network
  <2>1. ASSUME NEW s \in Attempts, NEW k \in Keys, Acknowledge(s, k)
        PROVE  (StoreCached /\ UnsentNoCopy)'
    <3>1. /\ UNCHANGED <<store, copies>>
          /\ \A m \in Msgs :
               \/ phase'[m] = phase[m]
               \/ phase[m] = "waiting" /\ phase'[m] = "done"
      BY <1>0, <2>1 DEF Acknowledge
    <3> QED BY <1>0, <3>1, QuietStep DEF Unsent
  <2> QED
    BY <1>1, <1>13, <2>1 DEF Network, Refuse, SocketEnds, ReadBufferFull, message
<1>14. CASE UNCHANGED vars
  BY <1>1, <1>14 DEF vars, client, message
<1> QED
  BY <1>1, <1>7, <1>8, <1>10, <1>11, <1>12, <1>13, <1>14, AttemptIOFrame
     DEF Next, Sending

(* No message goes out in two PUBLISH packets, and none that is cached,    *)
(* refused or dropped has gone out in one.                                 *)
THEOREM NeverSentTwice == Spec => []SentAtMostOnce
<1>1. Init => SendInv
  <2>1. Init => StoreCached /\ UnsentNoCopy
    BY DEF Init, StoreCached, UnsentNoCopy
  <2> QED BY <2>1, InitTyped DEF SendInv
<1>2. SendInv /\ [Next]_vars => SendInv'
  BY NextTyped, NextSend DEF SendInv
<1>3. SendInv => SentAtMostOnce
  BY DEF SendInv, UnsentNoCopy, SentAtMostOnce, Unsent
<1> QED BY <1>1, <1>2, <1>3, PTL DEF Spec

-----------------------------------------------------------------------------
(* A closed client *)

LEMMA NextClosed == TypeInv /\ ClosedStaysClosed /\ [Next]_vars => ClosedStaysClosed'
<1> SUFFICES ASSUME TypeInv, ClosedStaysClosed, [Next]_vars
             PROVE  ClosedStaysClosed'
  OBVIOUS
<1> DEFINE Waiting == timers # <<>> /\ timers[Len(timers)] = "sockclose"
           Quiet == timers = <<>> /\ readyState \in {"INIT", "CLOSED"} /\ socket = None
<1>0. /\ ~checkTimer => Waiting \/ Quiet
      /\ timers \in Seq(TimerKinds) /\ checkTimer \in BOOLEAN
      /\ DueQueued /\ due \in Nat \cup {None}
  BY DEF ClosedStaysClosed, TypeInv, TypeOK, TimerKinds
<1>1. CASE checkTimer' = TRUE
  BY <1>1 DEF ClosedStaysClosed
<1>2. CASE /\ UNCHANGED <<checkTimer, timers>>
           /\ \/ UNCHANGED <<readyState, socket>>
              \/ readyState' = "CLOSED" /\ socket' = None
  BY <1>0, <1>2 DEF ClosedStaysClosed
<1>3. ASSUME CloseEnd PROVE ClosedStaysClosed'
  <2>1. timers' = Append(timers, "sockclose")
    BY <1>3 DEF CloseEnd
  <2>2. timers' # <<>> /\ timers'[Len(timers')] = "sockclose"
    BY <1>0, <2>1
  <2> QED BY <2>2 DEF ClosedStaysClosed
<1>4. CASE Application
  BY <1>0, <1>1, <1>2, <1>3, <1>4
     DEF Application, Open, Close, CloseFinish, PublishOffline, PublishOnline,
         UserSubscribe, UserUnsubscribe, client, loop
<1>5. ASSUME NEW kind, TimerFires(kind), UNCHANGED checkTimer,
             \/ kind = "connect"
             \/ kind = "sockclose" /\ readyState' = "CLOSED" /\ socket' = None
      PROVE  ClosedStaysClosed'
  <2>1. CASE checkTimer
    BY <1>0, <1>5, <2>1 DEF ClosedStaysClosed
  <2>2. CASE ~checkTimer
    <3>1. /\ timers # <<>> /\ Waiting
          /\ timers' = Tail(timers) /\ Head(timers) = kind
      BY <1>0, <1>5, <2>2 DEF TimerFires, InTimers, DueQueued
    <3>2. /\ Len(timers) \in Nat \ {0} /\ Len(timers') = Len(timers) - 1
          /\ Head(timers) = timers[1]
          /\ \A i \in 1 .. Len(timers) - 1 : timers'[i] = timers[i + 1]
          /\ Len(timers) = 1 => timers' = <<>>
          /\ Len(timers) > 1 => timers' # <<>>
      BY <1>0, <3>1
    <3>3. CASE Len(timers) = 1
      <4>1. kind = "sockclose"
        BY <3>1, <3>2, <3>3
      <4> QED BY <1>5, <3>2, <3>3, <4>1 DEF ClosedStaysClosed
    <3>4. CASE Len(timers) > 1
      <4>1. timers'[Len(timers')] = timers[Len(timers)]
        BY <3>2, <3>4
      <4> QED BY <3>1, <3>2, <3>4, <4>1 DEF ClosedStaysClosed
    <3> QED BY <3>2, <3>3, <3>4
  <2> QED BY <1>0, <2>1, <2>2
<1>6. CASE Timers
  <2>1. CASE BeginTimers \/ EndTimers
    BY <1>2, <2>1 DEF BeginTimers, EndTimers
  <2>2. CASE \E a \in Attempts : StartAttempt(a)
    BY <1>5, <2>2 DEF StartAttempt
  <2>3. CASE DeferredClose
    BY <1>5, <2>3 DEF DeferredClose, OnSocketClose
  <2>4. CASE CheckReconnect \/ KeepAliveTimeout
    BY <1>0, <1>1, <2>4 DEF CheckReconnect, KeepAliveTimeout
  <2>5. CASE \/ \E a \in Attempts : AckTimeout(a)
             \/ \E m \in Msgs : PubackTimeout(m)
    BY <1>2, <2>5 DEF AckTimeout, PubackTimeout, client, loop
  <2> QED BY <1>6, <2>1, <2>2, <2>3, <2>4, <2>5 DEF Timers
<1>7. ASSUME NEW a \in Attempts, Microtask(a) PROVE ClosedStaysClosed'
  <2>1. CASE Connected(a)
    <3>1. readyState = "CONNECTING" \/ UNCHANGED readyState
      BY <2>1 DEF Connected
    <3>2. UNCHANGED <<checkTimer, timers, socket>>
      BY <2>1 DEF Connected
    <3> QED BY <1>0, <3>1, <3>2 DEF ClosedStaysClosed
  <2>2. CASE Catch(a)
    BY <1>2, <2>2 DEF Catch, OnSocketClose
  <2> QED
    BY <1>2, <1>7, <2>1, <2>2 DEF Microtask, SendConnect, Resubscribe,
       ResubscribeEnd, FlushOne, FlushEnd, client
<1>8. ASSUME NEW a \in Attempts, AttemptIO(a) PROVE ClosedStaysClosed'
  <2>1. CASE LookupDone(a)
    <3>1. readyState = "CONNECTING" \/ UNCHANGED socket
      BY <2>1 DEF LookupDone
    <3>2. UNCHANGED <<checkTimer, timers, readyState>>
      BY <2>1 DEF LookupDone, client, loop
    <3> QED BY <1>0, <3>1, <3>2 DEF ClosedStaysClosed
  <2> QED
    BY <1>2, <1>8, <2>1, AttemptIOFrame
       DEF AttemptIO, LookupFailed, TcpConnected, TcpFailed, ConnectWritten,
           SubscribeWritten, WriteFailed
<1>9. CASE Network
  BY <1>2, <1>9, NetworkFrame
     DEF Network, Acknowledge, Refuse, SocketEnds, ReadBufferFull, OnSocketClose
<1>10. CASE UNCHANGED vars
  BY <1>2, <1>10 DEF vars, client, loop
<1> QED
  BY <1>2, <1>4, <1>6, <1>7, <1>8, <1>9, <1>10, SendingFrame DEF Next, Sending

(* A closed client stays closed: whatever timer, lookup, connection or     *)
(* answer is still under way when close() returns, once the deferred       *)
(* _onSocketClose has run there is no socket and no retry.                 *)
THEOREM CloseIsFinal == Spec => []ClosedStaysClosed
<1>1. Init => TypeInv /\ ClosedStaysClosed
  BY InitTyped DEF Init, ClosedStaysClosed
<1>2. TypeInv /\ ClosedStaysClosed /\ [Next]_vars => (TypeInv /\ ClosedStaysClosed)'
  BY NextTyped, NextClosed
<1> QED BY <1>1, <1>2, PTL DEF Spec

-----------------------------------------------------------------------------
(* A connecting client *)

Sent(m) == phase[m] \in {"writing", "waiting"}

Unowned(m) == phase[m] \in {"new", "cached"}

(* An attempt that is sending a message is suspended there, sends no other *)
(* one; the entry of a message's promise is its sender's, once it has one. *)
SenderWaits ==
  \A m \in Msgs :
    /\ Sent(m) /\ by[m] \in Attempts => pc[by[m]] = "pub"
    /\ outgoing[Publish(m)] \in {None, by[m]}
    /\ Unowned(m) => by[m] = None

SenderOfOne ==
  \A m, n \in Msgs :
    Sent(m) /\ Sent(n) /\ by[m] = by[n] /\ by[m] \in Attempts => m = n

ConnectInv == SendInv /\ SenderWaits /\ SenderOfOne /\ ConnectingHasAttempt

(* Requests of different kinds have different keys. *)
LEMMA KeysDiffer ==
  \A m \in Msgs :
    /\ Publish(m) # Connect
    /\ \A t, o : Publish(m) # Subscribe(t, o)
    /\ \A t : Publish(m) # Unsubscribe(t)
    /\ \A n \in Msgs : Publish(m) = Publish(n) => m = n
BY DEF Publish, Connect, Subscribe, Unsubscribe

LEMMA ConnectSubscribeDiffer == \A t, o : Connect # Subscribe(t, o)
BY DEF Connect, Subscribe

(* Whoever awaits the acknowledgement of a message is its sender. *)
LEMMA AwaitsPublish ==
  ASSUME ConnectInv, NEW o, NEW m \in Msgs, Awaits(o, Publish(m))
  PROVE  by[m] = o /\ phase[m] = "waiting" /\ o \in Attempts /\ pc[o] = "pub"
<1>1. o \in Attempts /\ by[m] = o /\ phase[m] = "waiting"
  BY KeysDiffer DEF Awaits
<1> QED BY <1>1 DEF ConnectInv, SenderWaits, Sent

(* A step that starts no sending and moves no attempt out of one. *)
LEMMA SendersKept ==
  ASSUME ConnectInv, UNCHANGED by,
         \A m \in Msgs :
           /\ Sent(m)' => Sent(m) /\ (by[m] \in Attempts => pc'[by[m]] = pc[by[m]])
           /\ outgoing'[Publish(m)] \in {None, by[m], outgoing[Publish(m)]}
           /\ Unowned(m)' => Unowned(m)
  PROVE  (SenderWaits /\ SenderOfOne)'
<1>1. SenderWaits /\ SenderOfOne
  BY DEF ConnectInv
<1>2. SenderWaits'
  BY <1>1 DEF SenderWaits
<1>3. SenderOfOne'
  BY <1>1 DEF SenderOfOne
<1> QED BY <1>2, <1>3

(* A step after which the client is not CONNECTING, or was and no attempt  *)
(* on its way stopped.                                                     *)
LEMMA AttemptsKept ==
  ASSUME ConnectInv,
         \/ readyState' # "CONNECTING"
         \/ /\ UNCHANGED readyState
            /\ \A a \in Attempts : pc[a] \in Attempting => pc'[a] \in Attempting
  PROVE  ConnectingHasAttempt'
BY DEF ConnectInv, ConnectingHasAttempt

LEMMA NextConnectingApplication ==
  ASSUME ConnectInv, Application
  PROVE  (SenderWaits /\ SenderOfOne /\ ConnectingHasAttempt)'
<1>0. /\ SenderWaits /\ SenderOfOne /\ ConnectingHasAttempt
      /\ None \notin Attempts /\ "user" \notin Attempts
      /\ phase \in [Msgs -> Phases] /\ pc \in [Attempts -> Places]
      /\ outgoing \in [Keys -> Owners \cup {None}]
      /\ by \in [Msgs -> Owners \cup {None}]
  BY ConstantsAssumption DEF ConnectInv, SendInv, TypeInv, TypeOK, Places
<1>1. CASE Open
  BY <1>0, <1>1, SendersKept, AttemptsKept
     DEF Open, attempt, message, Sent, Unowned
<1>2. CASE Close
  <2> DEFINE hit == {k \in Keys : Awaits(outgoing[k], k)}
             lost(a) == \E k \in hit : outgoing[k] = a
  <2>1. /\ UNCHANGED by
        /\ outgoing' = [k \in Keys |-> None]
        /\ pc' = [a \in Attempts |-> IF lost(a) THEN "failed" ELSE pc[a]]
        /\ readyState' \in {readyState, "CLOSED"}
    BY <1>2 DEF Close, CloseEnd
  <2>2. \A m \in Msgs : Sent(m)' =>
          Sent(m) /\ ~(phase[m] = "waiting" /\ outgoing[Publish(m)] # None)
    BY <1>0, <1>2 DEF Close, Discard, Sent
  <2>20. \A m \in Msgs : Unowned(m)' => Unowned(m)
    BY <1>0, <1>2 DEF Close, Discard, Unowned
  <2>3. ASSUME NEW m \in Msgs, Sent(m)', by[m] \in Attempts, lost(by[m])
        PROVE  FALSE
    <3>1. PICK k \in Keys : Awaits(by[m], k) /\ outgoing[k] = by[m]
      BY <2>3
    <3>2. Sent(m) /\ pc[by[m]] = "pub"
      BY <1>0, <2>2, <2>3 DEF SenderWaits
    <3>3. PICK n \in Msgs : k = Publish(n) /\ by[n] = by[m] /\ phase[n] = "waiting"
      BY <3>1, <3>2 DEF Awaits
    <3>4. n = m
      BY <1>0, <2>3, <3>2, <3>3 DEF SenderOfOne, Sent
    <3> QED BY <1>0, <2>2, <2>3, <3>1, <3>3, <3>4
  <2>4. (SenderWaits /\ SenderOfOne)'
    <3>1. \A m \in Msgs : Sent(m)' =>
            Sent(m) /\ (by[m] \in Attempts => pc'[by[m]] = pc[by[m]])
      BY <2>1, <2>2, <2>3
    <3>2. \A m \in Msgs : outgoing'[Publish(m)] = None
      BY <2>1, KeysTyped
    <3> QED BY <2>1, <2>20, <3>1, <3>2, SendersKept
  <2>5. ConnectingHasAttempt'
    <3>1. \A a \in Attempts : pc[a] \in Attempting => pc'[a] \in Attempting
      BY <1>0, <2>1 DEF Attempting
    <3>2. readyState' = "CLOSED" \/ UNCHANGED readyState
      BY <2>1
    <3> QED BY <3>1, <3>2, AttemptsKept
  <2> QED BY <2>4, <2>5
<1>3. CASE CloseFinish
  <2>1. /\ readyState' = "CLOSED" /\ UNCHANGED <<by, pc, outgoing>>
        /\ \A m \in Msgs : Sent(m)' => Sent(m)
        /\ \A m \in Msgs : Unowned(m)' => Unowned(m)
    BY <1>0, <1>3 DEF CloseFinish, CloseEnd, Discard, Sent, Unowned
  <2> QED BY <2>1, SendersKept, AttemptsKept
<1>4. ASSUME NEW m \in Msgs, PublishOffline(m)
      PROVE  (SenderWaits /\ SenderOfOne /\ ConnectingHasAttempt)'
  <2>1. /\ UNCHANGED <<readyState, by, pc, outgoing>>
        /\ \A n \in Msgs : Sent(n)' => Sent(n)
        /\ \A n \in Msgs : Unowned(n)' => Unowned(n)
    BY <1>0, <1>4 DEF PublishOffline, attempt, Sent, Unowned
  <2> QED BY <2>1, SendersKept, AttemptsKept
<1>5. ASSUME NEW m \in Msgs, PublishOnline(m)
      PROVE  (SenderWaits /\ SenderOfOne /\ ConnectingHasAttempt)'
  <2>1. /\ UNCHANGED <<readyState, pc, outgoing>>
        /\ by' = [by EXCEPT ![m] = "user"]
        /\ phase' = [phase EXCEPT ![m] = "writing"]
        /\ phase[m] = "new"
    BY <1>5 DEF PublishOnline, SendPublish, client, attempt
  <2>2. outgoing[Publish(m)] \in {None, "user"}
    BY <1>0, <2>1 DEF SenderWaits, Unowned
  <2>3. (SenderWaits /\ SenderOfOne)'
    BY <1>0, <2>1, <2>2 DEF SenderWaits, SenderOfOne, Sent, Unowned
  <2> QED BY <2>1, <2>3, AttemptsKept
<1>6. ASSUME NEW t \in Topics, UserSubscribe(t) \/ UserUnsubscribe(t)
      PROVE  (SenderWaits /\ SenderOfOne /\ ConnectingHasAttempt)'
  <2>1. /\ UNCHANGED <<readyState, by, phase, pc>>
        /\ \/ UNCHANGED outgoing
           \/ \E k : /\ \A m \in Msgs : k # Publish(m)
                     /\ outgoing' = [outgoing EXCEPT ![k] = "user"]
    BY <1>6, KeysDiffer
       DEF UserSubscribe, UserUnsubscribe, CreatePromise, attempt, message
  <2>2. \A m \in Msgs : outgoing'[Publish(m)] = outgoing[Publish(m)]
    BY <1>0, <2>1, KeysTyped
  <2> QED BY <2>1, <2>2, SendersKept, AttemptsKept DEF Sent, Unowned
<1> QED BY <1>1, <1>2, <1>3, <1>4, <1>5, <1>6 DEF Application

LEMMA NextConnectingTimers ==
  ASSUME ConnectInv, Timers
  PROVE  (SenderWaits /\ SenderOfOne /\ ConnectingHasAttempt)'
<1>0. /\ SenderWaits /\ SenderOfOne /\ ConnectingHasAttempt
      /\ phase \in [Msgs -> Phases] /\ pc \in [Attempts -> Places]
  BY DEF ConnectInv, SendInv, TypeInv, TypeOK, Places
<1>1. UNCHANGED <<outgoing, by>>
  BY TimersFrame
<1>2. CASE \/ BeginTimers \/ EndTimers \/ DeferredClose
           \/ CheckReconnect \/ KeepAliveTimeout
  <2>1. UNCHANGED <<pc, phase>> /\ readyState' \in {readyState, "CLOSED"}
    BY <1>2 DEF BeginTimers, EndTimers, DeferredClose,
       CheckReconnect, KeepAliveTimeout, OnSocketClose, attempt, message
  <2> QED BY <1>1, <2>1, SendersKept, AttemptsKept DEF Sent, Unowned
<1>3. ASSUME NEW a \in Attempts, StartAttempt(a)
      PROVE  (SenderWaits /\ SenderOfOne /\ ConnectingHasAttempt)'
  <2>1. /\ UNCHANGED phase /\ pc[a] = "idle"
        /\ pc' = [pc EXCEPT ![a] = "lookup"]
    BY <1>3 DEF StartAttempt, Free, message
  <2>2. ConnectingHasAttempt'
    BY <1>0, <2>1 DEF ConnectingHasAttempt, Attempting
  <2>3. \A m \in Msgs : Sent(m) /\ by[m] \in Attempts => by[m] # a
    BY <1>0, <2>1 DEF SenderWaits
  <2>4. (SenderWaits /\ SenderOfOne)'
    BY <1>0, <1>1, <2>1, <2>3, SendersKept DEF Sent, Unowned
  <2> QED BY <2>2, <2>4
<1>4. ASSUME NEW a \in Attempts, AckTimeout(a)
      PROVE  (SenderWaits /\ SenderOfOne /\ ConnectingHasAttempt)'
  <2>1. /\ UNCHANGED <<phase, readyState>> /\ pc[a] \in {"connack", "suback"}
        /\ pc' = [pc EXCEPT ![a] = "failed"]
    BY <1>4 DEF AckTimeout, client, message
  <2>2. \A b \in Attempts : pc[b] \in Attempting => pc'[b] \in Attempting
    BY <1>0, <2>1 DEF Attempting
  <2>3. \A m \in Msgs : Sent(m) /\ by[m] \in Attempts => by[m] # a
    BY <1>0, <2>1 DEF SenderWaits
  <2>4. (SenderWaits /\ SenderOfOne)'
    BY <1>0, <1>1, <2>1, <2>3, SendersKept DEF Sent, Unowned
  <2> QED BY <2>1, <2>2, <2>4, AttemptsKept
<1>5. ASSUME NEW m \in Msgs, PubackTimeout(m)
      PROVE  (SenderWaits /\ SenderOfOne /\ ConnectingHasAttempt)'
  <2>1. /\ UNCHANGED readyState /\ phase[m] = "waiting"
        /\ phase' = [phase EXCEPT ![m] = "failed"]
        /\ pc' = [a \in Attempts |-> IF by[m] = a THEN "failed" ELSE pc[a]]
    BY <1>5 DEF PubackTimeout, client
  <2>2. \A b \in Attempts : pc[b] \in Attempting => pc'[b] \in Attempting
    BY <1>0, <2>1 DEF Attempting
  <2>3. \A n \in Msgs : Sent(n)' => Sent(n) /\ n # m
    BY <1>0, <2>1 DEF Sent
  <2>4. \A n \in Msgs : Sent(n)' /\ by[n] \in Attempts => by[n] # by[m]
    BY <1>0, <2>1, <2>3 DEF SenderOfOne, Sent
  <2>5. \A n \in Msgs : Unowned(n)' => Unowned(n)
    BY <1>0, <2>1 DEF Unowned
  <2>6. (SenderWaits /\ SenderOfOne)'
    BY <1>0, <1>1, <2>1, <2>3, <2>4, <2>5, SendersKept
  <2> QED BY <2>1, <2>2, <2>6, AttemptsKept
<1> QED BY <1>2, <1>3, <1>4, <1>5 DEF Timers

LEMMA NextConnectingMicrotask ==
  ASSUME ConnectInv, NEW a \in Attempts, Microtask(a)
  PROVE  (SenderWaits /\ SenderOfOne /\ ConnectingHasAttempt)'
<1>0. /\ SenderWaits /\ SenderOfOne /\ ConnectingHasAttempt
      /\ phase \in [Msgs -> Phases] /\ pc \in [Attempts -> Places]
      /\ by \in [Msgs -> Owners \cup {None}] /\ None \notin Attempts
      /\ UNCHANGED outgoing
  BY MicrotaskFrame, ConstantsAssumption
     DEF ConnectInv, SendInv, TypeInv, TypeOK, Places
<1>1. ASSUME NEW p, pc' = [pc EXCEPT ![a] = p], pc[a] # "pub",
             UNCHANGED <<phase, by>>
      PROVE  (SenderWaits /\ SenderOfOne)'
  <2>1. \A m \in Msgs : Sent(m) /\ by[m] \in Attempts => by[m] # a
    BY <1>0, <1>1 DEF SenderWaits
  <2> QED BY <1>0, <1>1, <2>1, SendersKept DEF Sent, Unowned
<1>2. CASE SendConnect(a)
  <2>1. /\ \E p \in {"idle", "connwrite"} : pc' = [pc EXCEPT ![a] = p]
        /\ pc[a] = "tcpup" /\ UNCHANGED <<readyState, phase, by>>
        /\ readyState = "CONNECTING" => pc' = [pc EXCEPT ![a] = "connwrite"]
    BY <1>2 DEF SendConnect, client, message
  <2>2. ConnectingHasAttempt'
    BY <1>0, <2>1 DEF ConnectingHasAttempt, Attempting
  <2> QED BY <1>1, <2>1, <2>2
<1>3. CASE Connected(a)
  <2>1. /\ \E p \in {"idle", "resub"} : pc' = [pc EXCEPT ![a] = p]
        /\ pc[a] = "accepted" /\ readyState' # "CONNECTING"
        /\ UNCHANGED <<phase, by>>
    BY <1>3 DEF Connected, message
  <2> QED BY <1>1, <2>1, AttemptsKept
<1>4. CASE Resubscribe(a) \/ ResubscribeEnd(a) \/ FlushEnd(a)
  <2>1. /\ \E p : pc' = [pc EXCEPT ![a] = p]
        /\ pc[a] \in {"resub", "flush"} /\ UNCHANGED <<readyState, phase, by>>
    <3>1. CASE Resubscribe(a)
      <4>1. pc' = pc \/ pc' = [pc EXCEPT ![a] = "subwrite"]
        BY <3>1 DEF Resubscribe
      <4>2. pc = [pc EXCEPT ![a] = pc[a]]
        BY <1>0
      <4> QED BY <3>1, <4>1, <4>2 DEF Resubscribe, client, message
    <3>2. CASE ResubscribeEnd(a) \/ FlushEnd(a)
      BY <3>2 DEF ResubscribeEnd, FlushEnd, client, message
    <3> QED BY <1>4, <3>1, <3>2
  <2>2. \A b \in Attempts : pc[b] \in Attempting => pc'[b] \in Attempting
    BY <1>0, <2>1 DEF Attempting
  <2> QED BY <1>1, <2>1, <2>2, AttemptsKept
<1>5. CASE Catch(a)
  <2>1. /\ pc' = [pc EXCEPT ![a] = "idle"] /\ pc[a] = "failed"
        /\ readyState' = "CLOSED" /\ UNCHANGED <<phase, by>>
    BY <1>5 DEF Catch, OnSocketClose, message
  <2> QED BY <1>1, <2>1, AttemptsKept
<1>6. CASE FlushOne(a)
  <2>1. PICK m \in Msgs :
          /\ pc[a] = "flush" /\ pc' = [pc EXCEPT ![a] = "pub"]
          /\ UNCHANGED readyState
          /\ phase' = [phase EXCEPT ![m] = "writing"]
          /\ by' = [by EXCEPT ![m] = a]
          /\ phase[m] = "cached"
    <3>1. /\ store \in Seq(Msgs) /\ store # <<>> /\ store # None
          /\ StoreCached
      BY <1>6 DEF FlushOne, ConnectInv, SendInv, TypeInv, TypeOK, CacheOfStore
    <3>2. 1 \in 1 .. Len(store) /\ store[1] = Head(store) /\ Head(store) \in Msgs
      BY <3>1
    <3>3. phase[Head(store)] = "cached"
      BY <3>1, <3>2 DEF StoreCached
    <3> QED BY <1>6, <3>2, <3>3 DEF FlushOne, SendPublish
  <2>2. phase[m] = "cached" /\ phase'[m] = "writing"
    BY <1>0, <2>1
  <2>3. outgoing[Publish(m)] = None
    BY <1>0, <2>2 DEF SenderWaits, Unowned
  <2>4. \A n \in Msgs : Sent(n) /\ by[n] \in Attempts => by[n] # a /\ n # m
    BY <1>0, <2>1, <2>2 DEF SenderWaits, Sent
  <2>5. \A n \in Msgs : n # m => /\ Sent(n)' = Sent(n) /\ by'[n] = by[n]
                                /\ Unowned(n)' = Unowned(n)
    BY <1>0, <2>1, <2>2 DEF Sent, Unowned
  <2>6. by'[m] = a /\ ~Unowned(m)' /\ pc'[a] = "pub"
    BY <1>0, <2>1, <2>2 DEF Unowned
  <2>7. SenderWaits'
    <3>1. ASSUME NEW n \in Msgs, n # m
          PROVE  /\ Sent(n)' /\ by'[n] \in Attempts => pc'[by'[n]] = "pub"
                 /\ outgoing'[Publish(n)] \in {None, by'[n]}
                 /\ Unowned(n)' => by'[n] = None
      BY <1>0, <2>1, <2>4, <2>5, <3>1 DEF SenderWaits
    <3>2. outgoing'[Publish(m)] \in {None, by'[m]}
      BY <1>0, <2>3
    <3>3. ASSUME NEW n \in Msgs
          PROVE  /\ Sent(n)' /\ by'[n] \in Attempts => pc'[by'[n]] = "pub"
                 /\ outgoing'[Publish(n)] \in {None, by'[n]}
                 /\ Unowned(n)' => by'[n] = None
      BY <2>6, <3>1, <3>2
    <3> QED BY <3>3 DEF SenderWaits
  <2>8. SenderOfOne'
    BY <1>0, <2>4, <2>5, <2>6 DEF SenderOfOne
  <2>9. \A b \in Attempts : pc[b] \in Attempting => pc'[b] \in Attempting
    BY <1>0, <2>1 DEF Attempting
  <2> QED BY <2>1, <2>7, <2>8, <2>9, AttemptsKept
<1> QED BY <1>2, <1>3, <1>4, <1>5, <1>6 DEF Microtask

LEMMA NextConnectingIO ==
  ASSUME ConnectInv, NEW a \in Attempts, AttemptIO(a)
  PROVE  (SenderWaits /\ SenderOfOne /\ ConnectingHasAttempt)'
<1>0. /\ SenderWaits /\ SenderOfOne /\ ConnectingHasAttempt
      /\ pc \in [Attempts -> Places] /\ UNCHANGED <<readyState, phase, by>>
      /\ outgoing \in [Keys -> Owners \cup {None}]
  BY AttemptIOFrame DEF ConnectInv, SendInv, TypeInv, TypeOK, Places
<1>1. /\ pc[a] \in {"lookup", "tcp", "connwrite", "subwrite"}
      /\ \E p : pc' = [pc EXCEPT ![a] = p]
      /\ readyState = "CONNECTING" =>
           pc'[a] \in Attempting \/ pc[a] \notin Attempting
  BY <1>0 DEF AttemptIO, LookupDone, LookupFailed, TcpConnected, TcpFailed,
     ConnectWritten, SubscribeWritten, WriteFailed, Attempting
<1>2. \A m \in Msgs : Sent(m) /\ by[m] \in Attempts => by[m] # a
  BY <1>0, <1>1 DEF SenderWaits
<1>3. \A m \in Msgs : outgoing'[Publish(m)] = outgoing[Publish(m)]
  BY <1>0, KeysTyped, KeysDiffer
     DEF AttemptIO, LookupDone, LookupFailed, TcpConnected, TcpFailed,
         ConnectWritten, SubscribeWritten, WriteFailed, CreatePromise, client
<1>4. (SenderWaits /\ SenderOfOne)'
  BY <1>0, <1>1, <1>2, <1>3, SendersKept DEF Sent, Unowned
<1>5. ConnectingHasAttempt'
  BY <1>0, <1>1 DEF ConnectingHasAttempt
<1> QED BY <1>4, <1>5

LEMMA NextConnectingSending ==
  ASSUME ConnectInv, NEW m \in Msgs, PublishWritten(m) \/ PublishFailed(m)
  PROVE  (SenderWaits /\ SenderOfOne /\ ConnectingHasAttempt)'
<1>0. /\ SenderWaits /\ SenderOfOne /\ ConnectingHasAttempt
      /\ phase \in [Msgs -> Phases] /\ pc \in [Attempts -> Places]
      /\ outgoing \in [Keys -> Owners \cup {None}]
      /\ UNCHANGED <<readyState, by>> /\ phase[m] = "writing"
  BY SendingFrame DEF ConnectInv, SendInv, TypeInv, TypeOK, Places,
     PublishWritten, PublishFailed
<1>1. by[m] \in Attempts => pc[by[m]] = "pub"
  BY <1>0 DEF SenderWaits, Sent
<1>2. CASE PublishWritten(m) /\ m \in Acked
  <2>1. /\ phase' = [phase EXCEPT ![m] = "waiting"] /\ UNCHANGED pc
        /\ outgoing' = [outgoing EXCEPT ![Publish(m)] = by[m]]
    BY <1>2 DEF PublishWritten, CreatePromise
  <2>2. \A n \in Msgs : outgoing'[Publish(n)] \in {outgoing[Publish(n)], by[n]}
    BY <1>0, <2>1, KeysTyped, KeysDiffer
  <2>3. (SenderWaits /\ SenderOfOne)'
    BY <1>0, <2>1, <2>2, SendersKept DEF Sent, Unowned
  <2> QED BY <1>0, <2>1, <2>3, AttemptsKept
<1>3. CASE PublishFailed(m) \/ m \notin Acked
  <2>1. /\ \E q \in {"done", "failed"} : phase' = [phase EXCEPT ![m] = q]
        /\ \E p : pc' = [b \in Attempts |-> IF by[m] = b THEN p ELSE pc[b]]
        /\ UNCHANGED outgoing
    BY <1>3 DEF PublishWritten, PublishFailed, client
  <2>2. \A n \in Msgs : /\ Sent(n)' => Sent(n) /\ n # m
                        /\ Unowned(n)' => Unowned(n)
    BY <1>0, <2>1 DEF Sent, Unowned
  <2>3. \A n \in Msgs : Sent(n)' /\ by[n] \in Attempts => by[n] # by[m]
    BY <1>0, <2>2 DEF SenderOfOne, Sent
  <2>4. (SenderWaits /\ SenderOfOne)'
    BY <1>0, <2>1, <2>2, <2>3, SendersKept
  <2>5. \A b \in Attempts : pc[b] \in Attempting => pc'[b] \in Attempting
    BY <1>0, <1>1, <2>1 DEF Attempting
  <2> QED BY <1>0, <2>4, <2>5, AttemptsKept
<1> QED BY <1>2, <1>3

LEMMA NextConnectingNetwork ==
  ASSUME ConnectInv, Network
  PROVE  (SenderWaits /\ SenderOfOne /\ ConnectingHasAttempt)'
<1>0. /\ SenderWaits /\ SenderOfOne /\ ConnectingHasAttempt
      /\ phase \in [Msgs -> Phases] /\ pc \in [Attempts -> Places]
      /\ outgoing \in [Keys -> Owners \cup {None}] /\ UNCHANGED by
  BY NetworkFrame DEF ConnectInv, SendInv, TypeInv, TypeOK, Places
<1>1. ASSUME NEW s \in Attempts, SocketEnds(s) \/ ReadBufferFull(s)
      PROVE  (SenderWaits /\ SenderOfOne /\ ConnectingHasAttempt)'
  <2>1. UNCHANGED <<outgoing, pc, phase>> /\ readyState' = "CLOSED"
    BY <1>1 DEF SocketEnds, ReadBufferFull, OnSocketClose, attempt, message
  <2> QED BY <1>0, <2>1, SendersKept, AttemptsKept DEF Sent, Unowned
<1>2. ASSUME NEW k \in Keys,
             outgoing' = [outgoing EXCEPT ![k] = None], UNCHANGED readyState,
             NEW p \in {"accepted", "failed", "flush", "resub"},
             p \in {"flush", "resub"} => k # Connect,
             pc' = IF Awaits(outgoing[k], k) THEN [pc EXCEPT ![outgoing[k]] = p]
                   ELSE pc,
             \A m \in Msgs : phase'[m] = IF k = Publish(m) /\ phase[m] = "waiting"
                                        THEN "done" ELSE phase[m]
      PROVE  (SenderWaits /\ SenderOfOne /\ ConnectingHasAttempt)'
  <2> DEFINE o == outgoing[k]
  <2>1. \A m \in Msgs : outgoing'[Publish(m)] \in {None, outgoing[Publish(m)]}
    BY <1>0, <1>2, KeysTyped
  <2>2. \A m \in Msgs : /\ Sent(m)' => Sent(m)
                        /\ Unowned(m)' => Unowned(m)
    BY <1>2 DEF Sent, Unowned
  <2>3. CASE ~Awaits(o, k)
    BY <1>0, <1>2, <2>1, <2>2, <2>3, SendersKept, AttemptsKept
  <2>4. CASE Awaits(o, k)
    <3>1. /\ o \in Attempts /\ pc' = [pc EXCEPT ![o] = p]
          /\ \/ k = Connect /\ pc[o] = "connack"
             \/ k # Connect /\ pc[o] = "suback"
             \/ \E m \in Msgs : /\ k = Publish(m) /\ by[m] = o
                               /\ phase[m] = "waiting" /\ pc[o] = "pub"
      BY <1>2, <2>4, AwaitsPublish, ConnectSubscribeDiffer DEF Awaits
    <3>2. \A m \in Msgs : Sent(m)' /\ by[m] \in Attempts => by[m] # o
      <4>1. CASE \E m \in Msgs : /\ k = Publish(m) /\ by[m] = o
                                 /\ phase[m] = "waiting" /\ pc[o] = "pub"
        <5>1. PICK m \in Msgs : /\ k = Publish(m) /\ by[m] = o
                               /\ phase[m] = "waiting"
          BY <4>1
        <5>2. \A n \in Msgs : Sent(n) /\ by[n] = o => n = m
          BY <1>0, <3>1, <5>1 DEF SenderOfOne, Sent
        <5>3. ~Sent(m)'
          BY <1>2, <5>1 DEF Sent
        <5> QED BY <2>2, <5>2, <5>3
      <4>2. CASE pc[o] \in {"connack", "suback"}
        BY <1>0, <2>2, <4>2 DEF SenderWaits
      <4> QED BY <3>1, <4>1, <4>2
    <3>3. (SenderWaits /\ SenderOfOne)'
      BY <1>0, <2>1, <2>2, <3>1, <3>2, SendersKept
    <3>4. \A b \in Attempts : pc[b] \in Attempting => pc'[b] \in Attempting
      <4>1. pc[o] \in Attempting => p \in Attempting
        BY <1>2, <3>1 DEF Attempting
      <4> QED BY <1>0, <3>1, <4>1
    <3> QED BY <1>2, <3>3, <3>4, AttemptsKept
  <2> QED BY <2>3, <2>4
<1>3. ASSUME NEW s \in Attempts, NEW k \in Keys, Acknowledge(s, k)
      PROVE  (SenderWaits /\ SenderOfOne /\ ConnectingHasAttempt)'
  <2> DEFINE p == IF k = Connect THEN "accepted"
                  ELSE IF \E m \in Msgs : k = Publish(m) THEN "flush" ELSE "resub"
  <2>1. /\ p \in {"accepted", "failed", "flush", "resub"}
        /\ p \in {"flush", "resub"} => k # Connect
    OBVIOUS
  <2>2. /\ outgoing' = [outgoing EXCEPT ![k] = None] /\ UNCHANGED readyState
        /\ pc' = IF Awaits(outgoing[k], k) THEN [pc EXCEPT ![outgoing[k]] = p]
                 ELSE pc
        /\ \A m \in Msgs : phase'[m] = IF k = Publish(m) /\ phase[m] = "waiting"
                                        THEN "done" ELSE phase[m]
    BY <1>3 DEF Acknowledge
  <2> HIDE DEF p
  <2> QED BY <1>2, <2>1, <2>2
<1>4. ASSUME NEW s \in Attempts, Refuse(s)
      PROVE  (SenderWaits /\ SenderOfOne /\ ConnectingHasAttempt)'
  <2>1. /\ outgoing' = [outgoing EXCEPT ![Connect] = None]
        /\ pc' = IF Awaits(outgoing[Connect], Connect)
                 THEN [pc EXCEPT ![outgoing[Connect]] = "failed"] ELSE pc
        /\ UNCHANGED <<readyState, phase>>
    BY <1>4 DEF Refuse, message
  <2>2. \A m \in Msgs : phase'[m] = IF Connect = Publish(m) /\ phase[m] = "waiting"
                                    THEN "done" ELSE phase[m]
    BY <2>1, KeysDiffer
  <2> QED BY <1>2, <2>1, <2>2, KeysTyped
<1> QED BY <1>1, <1>3, <1>4 DEF Network

LEMMA NextConnecting == ConnectInv /\ [Next]_vars => ConnectInv'
<1> SUFFICES ASSUME ConnectInv, [Next]_vars PROVE ConnectInv'
  OBVIOUS
<1>1. SendInv'
  BY NextTyped, NextSend DEF ConnectInv, SendInv
<1>2. CASE UNCHANGED vars
  <2>1. UNCHANGED <<readyState, by, phase, pc, outgoing>>
    BY <1>2 DEF vars, client, attempt, message
  <2> QED BY <1>1, <2>1, SendersKept, AttemptsKept DEF ConnectInv, Sent, Unowned
<1>3. CASE Next
  BY <1>1, <1>3, NextConnectingApplication, NextConnectingTimers,
     NextConnectingMicrotask, NextConnectingIO, NextConnectingSending,
     NextConnectingNetwork DEF Next, Sending, ConnectInv
<1> QED BY <1>2, <1>3

LEMMA InitConnecting == Init => ConnectInv
<1>1. Init => SendInv
  BY InitTyped DEF Init, SendInv, StoreCached, UnsentNoCopy
<1>2. Init => SenderWaits /\ SenderOfOne /\ ConnectingHasAttempt
  BY KeysTyped
     DEF Init, SenderWaits, SenderOfOne, Sent, Unowned, ConnectingHasAttempt
<1> QED BY <1>1, <1>2 DEF ConnectInv

(* A client that is CONNECTING has an attempt that will end it: nothing    *)
(* else would, for the check timer leaves that state alone.                *)
THEOREM NeverStuckConnecting == Spec => []ConnectingHasAttempt
<1>1. ConnectInv => ConnectingHasAttempt
  BY DEF ConnectInv
<1> QED BY InitConnecting, NextConnecting, <1>1, PTL DEF Spec

-----------------------------------------------------------------------------
(* The order of the timers *)

Offline == readyState \in {"INIT", "CLOSED"}

ClosesBefore(i) == \E j \in 1 .. i - 1 : timers[j] = "sockclose"

(* An attempt that waits for its timer finds the client offline with no    *)
(* socket, or a deferred close before it will make it so.                  *)
ReconnectsWait ==
  \A i \in 1 .. Len(timers) :
    timers[i] = "connect" => \/ ClosesBefore(i)
                             \/ Offline /\ socket = None

ReconnectsApart ==
  \A i, j \in 1 .. Len(timers) :
    i < j /\ timers[i] = "connect" /\ timers[j] = "connect"
      => \E k \in i .. j : timers[k] = "sockclose"

(* The socket of a client that is offline is about to be closed. *)
SocketCloses ==
  Offline /\ socket # None => \E k \in 1 .. Len(timers) : timers[k] = "sockclose"

TimersInOrder == ReconnectsWait /\ ReconnectsApart /\ SocketCloses

TimerInv == TypeInv /\ ClosedStaysClosed /\ TimersInOrder

LEMMA TimersSeq ==
  ASSUME TypeInv
  PROVE  /\ timers \in Seq(TimerKinds) /\ Len(timers) \in Nat
         /\ \A i \in 1 .. Len(timers) : timers[i] \in TimerKinds
         /\ socket \in Attempts \cup {None} /\ readyState \in States
         /\ checkTimer \in BOOLEAN /\ DueQueued /\ due \in Nat \cup {None}
BY DEF TypeInv, TypeOK, TimerKinds

(* No timer is set or fires, and the client goes offline without a socket, *)
(* stays as it is, or leaves CONNECTING for OPEN or its socket.            *)
LEMMA SameTimers ==
  ASSUME TimerInv, UNCHANGED timers,
         \/ UNCHANGED <<readyState, socket>>
         \/ readyState' = "CLOSED" /\ socket' = None
         \/ readyState = "CONNECTING" /\ readyState' \in {"CONNECTING", "OPEN"}
  PROVE  TimersInOrder'
<1>1. ReconnectsApart'
  BY DEF TimerInv, TimersInOrder, ReconnectsApart
<1>2. ReconnectsWait'
  <2> SUFFICES ASSUME NEW i \in 1 .. Len(timers), timers[i] = "connect", ~ClosesBefore(i)
               PROVE  Offline' /\ socket' = None
    BY DEF ReconnectsWait, ClosesBefore
  <2>1. Offline /\ socket = None
    BY DEF TimerInv, TimersInOrder, ReconnectsWait
  <2> QED BY <2>1 DEF Offline
<1>3. SocketCloses'
  BY DEF TimerInv, TimersInOrder, SocketCloses, Offline
<1> QED BY <1>1, <1>2, <1>3 DEF TimersInOrder

(* The end of close(). *)
LEMMA CloseEndOrder ==
  ASSUME TimerInv, CloseEnd, UNCHANGED socket
  PROVE  TimersInOrder'
<1> DEFINE n == Len(timers)
<1>1. /\ Len(timers') = n + 1 /\ n \in Nat /\ timers'[n + 1] = "sockclose"
      /\ \A i \in 1 .. n : timers'[i] = timers[i]
      /\ readyState' = "CLOSED"
  BY TimersSeq DEF TimerInv, CloseEnd
<1>2. ASSUME NEW i \in 1 .. n + 1, timers'[i] = "connect"
      PROVE  i \in 1 .. n /\ timers[i] = "connect"
  BY <1>1, <1>2
<1>3. ReconnectsWait'
  <2> SUFFICES ASSUME NEW i \in 1 .. n + 1, timers'[i] = "connect", ~ClosesBefore(i)'
               PROVE  Offline' /\ socket' = None
    BY <1>1 DEF ReconnectsWait
  <2>1. i \in 1 .. n /\ timers[i] = "connect"
    BY <1>2
  <2>2. ~ClosesBefore(i)
    BY <1>1, <2>1 DEF ClosesBefore
  <2> QED BY <1>1, <2>1, <2>2 DEF TimerInv, TimersInOrder, ReconnectsWait, Offline
<1>4. ReconnectsApart'
  <2> SUFFICES ASSUME NEW i \in 1 .. n + 1, NEW j \in 1 .. n + 1, i < j,
                      timers'[i] = "connect", timers'[j] = "connect"
               PROVE  \E k \in i .. j : timers'[k] = "sockclose"
    BY <1>1 DEF ReconnectsApart
  <2>1. PICK k \in i .. j : timers[k] = "sockclose"
    BY <1>2 DEF TimerInv, TimersInOrder, ReconnectsApart
  <2> QED BY <1>1, <1>2, <2>1
<1>5. SocketCloses'
  BY <1>1 DEF SocketCloses
<1> QED BY <1>3, <1>4, <1>5 DEF TimersInOrder

(* reconnect(): by open(), or by the check timer of a client offline.      *)
LEMMA ReconnectOrder ==
  ASSUME TimerInv, timers' = Append(timers, "connect"),
         UNCHANGED <<readyState, socket>>,
         ~checkTimer \/ (Connects = {} /\ Offline)
  PROVE  TimersInOrder'
<1> DEFINE n == Len(timers)
<1>1. /\ Len(timers') = n + 1 /\ n \in Nat /\ timers'[n + 1] = "connect"
      /\ \A i \in 1 .. n : timers'[i] = timers[i]
  BY TimersSeq DEF TimerInv
<1>2. \/ n > 0 /\ timers[n] = "sockclose"
      \/ Offline /\ socket = None /\ \A i \in 1 .. n : timers[i] # "connect"
      \/ /\ \E k \in 1 .. n : timers[k] = "sockclose"
         /\ \A i \in 1 .. n : timers[i] # "connect"
  <2>1. CASE ~checkTimer
    <3>1. CASE timers # <<>> /\ timers[n] = "sockclose"
      BY <3>1, TimersSeq DEF TimerInv
    <3>2. CASE timers = <<>> /\ Offline /\ socket = None
      BY <3>2
    <3> QED BY <2>1, <3>1, <3>2 DEF TimerInv, ClosedStaysClosed, Offline
  <2>2. CASE Connects = {} /\ Offline
    <3>1. \A i \in 1 .. n : timers[i] # "connect"
      BY <2>2 DEF Connects
    <3> QED BY <2>2, <3>1 DEF TimerInv, TimersInOrder, SocketCloses
  <2> QED BY <2>1, <2>2
<1>3. ReconnectsWait'
  <2> SUFFICES ASSUME NEW i \in 1 .. n + 1, timers'[i] = "connect", ~ClosesBefore(i)'
               PROVE  Offline' /\ socket' = None
    BY <1>1 DEF ReconnectsWait
  <2>1. CASE i = n + 1
    <3>1. \A k \in 1 .. n : timers[k] # "sockclose"
      BY <1>1, <2>1 DEF ClosesBefore
    <3> QED BY <1>1, <1>2, <3>1 DEF Offline
  <2>2. CASE i \in 1 .. n
    <3>1. timers[i] = "connect" /\ ~ClosesBefore(i)
      BY <1>1, <2>2 DEF ClosesBefore
    <3> QED BY <2>2, <3>1 DEF TimerInv, TimersInOrder, ReconnectsWait, Offline
  <2> QED BY <1>1, <2>1, <2>2
<1>4. ReconnectsApart'
  <2> SUFFICES ASSUME NEW i \in 1 .. n + 1, NEW j \in 1 .. n + 1, i < j,
                      timers'[i] = "connect", timers'[j] = "connect"
               PROVE  \E k \in i .. j : timers'[k] = "sockclose"
    BY <1>1 DEF ReconnectsApart
  <2>0. i \in 1 .. n /\ timers[i] = "connect"
    BY <1>1
  <2>1. CASE j = n + 1
    <3>1. n > 0 /\ timers[n] = "sockclose"
      BY <1>2, <2>0
    <3>2. n \in i .. j /\ timers'[n] = "sockclose"
      BY <1>1, <2>0, <2>1, <3>1
    <3> QED BY <3>2
  <2>2. CASE j \in 1 .. n
    <3>1. PICK k \in i .. j : timers[k] = "sockclose"
      BY <1>1, <2>0, <2>2 DEF TimerInv, TimersInOrder, ReconnectsApart
    <3> QED BY <1>1, <2>2, <3>1
  <2> QED BY <1>1, <2>1, <2>2
<1>5. SocketCloses'
  <2> SUFFICES ASSUME Offline, socket # None
               PROVE  \E k \in 1 .. n + 1 : timers'[k] = "sockclose"
    BY <1>1 DEF SocketCloses, Offline
  <2>1. PICK k \in 1 .. n : timers[k] = "sockclose"
    BY DEF TimerInv, TimersInOrder, SocketCloses
  <2> QED BY <1>1, <2>1
<1> QED BY <1>3, <1>4, <1>5 DEF TimersInOrder

(* The first timer fires: a deferred close, or the attempt of a reconnect. *)
LEMMA FiresOrder ==
  ASSUME TimerInv, NEW kind \in TimerKinds, TimerFires(kind),
         \/ kind = "sockclose" /\ readyState' = "CLOSED" /\ socket' = None
         \/ kind = "connect" /\ readyState' = "CONNECTING"
  PROVE  TimersInOrder'
<1> DEFINE n == Len(timers)
<1>1. /\ n \in Nat \ {0} /\ Len(timers') = n - 1 /\ timers[1] = kind
      /\ \A i \in 1 .. n - 1 : timers'[i] = timers[i + 1]
  <2>1. timers # <<>> /\ timers' = Tail(timers) /\ Head(timers) = kind
    BY TimersSeq DEF TimerInv, TimerFires, InTimers, DueQueued
  <2> QED BY <2>1, TimersSeq DEF TimerInv
<1>2. ReconnectsApart'
  <2> SUFFICES ASSUME NEW i \in 1 .. n - 1, NEW j \in 1 .. n - 1, i < j,
                      timers'[i] = "connect", timers'[j] = "connect"
               PROVE  \E k \in i .. j : timers'[k] = "sockclose"
    BY <1>1 DEF ReconnectsApart
  <2>1. PICK k \in (i + 1) .. (j + 1) : timers[k] = "sockclose"
    BY <1>1 DEF TimerInv, TimersInOrder, ReconnectsApart
  <2>2. k - 1 \in i .. j /\ timers'[k - 1] = "sockclose"
    BY <1>1, <2>1
  <2> QED BY <2>2
<1>3. CASE kind = "sockclose"
  BY <1>2, <1>3 DEF TimersInOrder, ReconnectsWait, SocketCloses, Offline
<1>4. CASE kind = "connect"
  <2>1. ReconnectsWait'
    <3> SUFFICES ASSUME NEW i \in 1 .. n - 1, timers'[i] = "connect"
                 PROVE  ClosesBefore(i)'
      BY <1>1 DEF ReconnectsWait
    <3>1. PICK k \in 1 .. (i + 1) : timers[k] = "sockclose"
      BY <1>1, <1>4 DEF TimerInv, TimersInOrder, ReconnectsApart
    <3>2. k # 1 /\ k # i + 1
      BY <1>1, <1>4, <3>1
    <3>3. k - 1 \in 1 .. i - 1 /\ timers'[k - 1] = "sockclose"
      BY <1>1, <3>1, <3>2
    <3> QED BY <3>3 DEF ClosesBefore
  <2>2. SocketCloses'
    BY <1>4 DEF SocketCloses, Offline
  <2> QED BY <1>2, <2>1, <2>2 DEF TimersInOrder
<1> QED BY <1>3, <1>4 DEF TimerKinds

LEMMA NextTimers == TimerInv /\ [Next]_vars => TimerInv'
<1> SUFFICES ASSUME TimerInv, [Next]_vars PROVE TimersInOrder'
  BY NextTyped, NextClosed DEF TimerInv
<1>1. CASE Application
  <2>1. CASE Open
    BY <2>1, ReconnectOrder DEF Open, Reconnect
  <2>2. CASE Close \/ CloseFinish
    BY <2>2, CloseEndOrder, SameTimers DEF Close, CloseFinish
  <2>3. UNCHANGED <<timers, readyState, socket>> \/ Open \/ Close \/ CloseFinish
    BY <1>1 DEF Application, PublishOffline, PublishOnline, UserSubscribe,
       UserUnsubscribe, client, loop
  <2> QED BY <2>1, <2>2, <2>3, SameTimers
<1>2. CASE Timers
  <2>1. CASE BeginTimers \/ EndTimers
    BY <2>1, SameTimers DEF BeginTimers, EndTimers
  <2>2. CASE \E a \in Attempts : StartAttempt(a)
    BY <2>2, FiresOrder DEF StartAttempt, TimerKinds
  <2>3. CASE DeferredClose
    BY <2>3, FiresOrder DEF DeferredClose, OnSocketClose, TimerKinds
  <2>4. CASE CheckReconnect
    BY <2>4, ReconnectOrder DEF CheckReconnect, Reconnect, Offline
  <2>5. CASE KeepAliveTimeout
    BY <2>5, SameTimers DEF KeepAliveTimeout, OnSocketClose, loop
  <2>6. CASE \/ \E a \in Attempts : AckTimeout(a)
             \/ \E m \in Msgs : PubackTimeout(m)
    BY <2>6, SameTimers DEF AckTimeout, PubackTimeout, client, loop
  <2> QED BY <1>2, <2>1, <2>2, <2>3, <2>4, <2>5, <2>6 DEF Timers
<1>3. ASSUME NEW a \in Attempts, Microtask(a) PROVE TimersInOrder'
  <2>1. UNCHANGED timers
    BY <1>3, MicrotaskFrame
  <2>2. \/ UNCHANGED <<readyState, socket>>
        \/ readyState' = "CLOSED" /\ socket' = None
        \/ readyState = "CONNECTING" /\ readyState' = "OPEN"
    BY <1>3 DEF Microtask, SendConnect, Connected, Resubscribe, ResubscribeEnd,
       FlushOne, FlushEnd, Catch, OnSocketClose, client
  <2> QED BY <2>1, <2>2, SameTimers
<1>4. ASSUME NEW a \in Attempts, AttemptIO(a) PROVE TimersInOrder'
  <2>1. UNCHANGED <<timers, readyState>>
    BY <1>4, AttemptIOFrame
  <2>2. readyState = "CONNECTING" \/ UNCHANGED socket
    BY <1>4 DEF AttemptIO, LookupDone, LookupFailed, TcpConnected, TcpFailed,
       ConnectWritten, SubscribeWritten, WriteFailed
  <2> QED BY <2>1, <2>2, SameTimers
<1>5. CASE Sending
  BY <1>5, SendingFrame, SameTimers DEF Sending
<1>6. CASE Network
  <2>1. UNCHANGED timers
    BY <1>6, NetworkFrame
  <2>2. \/ UNCHANGED <<readyState, socket>>
        \/ readyState' = "CLOSED" /\ socket' = None
    BY <1>6 DEF Network, Acknowledge, Refuse, SocketEnds, ReadBufferFull, OnSocketClose
  <2> QED BY <2>1, <2>2, SameTimers
<1>7. CASE UNCHANGED vars
  BY <1>7, SameTimers DEF vars, client, loop
<1> QED BY <1>1, <1>2, <1>3, <1>4, <1>5, <1>6, <1>7 DEF Next

LEMMA InitTimers == Init => TimerInv
<1> SUFFICES ASSUME Init PROVE TimersInOrder /\ ClosedStaysClosed
  BY InitTyped DEF TimerInv
<1>1. Len(timers) = 0 /\ socket = None
  BY DEF Init
<1>2. 1 .. Len(timers) = {}
  BY <1>1
<1> QED
  BY <1>1, <1>2
     DEF Init, ClosedStaysClosed, TimersInOrder, ReconnectsWait, ReconnectsApart,
         SocketCloses

(* Each reconnect() gets its attempt: its timer finds the client neither   *)
(* CONNECTING nor OPEN, so that the early return of connect()              *)
(* (mqtt.js:324) swallows none, even if lookups outlast attempts.          *)
THEOREM ReconnectsAreMade == Spec => []ReconnectNotSkipped
<1>1. TimerInv => ReconnectNotSkipped
  <2> SUFFICES ASSUME TimerInv, timers # <<>>, Head(timers) = "connect"
               PROVE  readyState \notin {"CONNECTING", "OPEN"}
    BY DEF ReconnectNotSkipped
  <2>1. 1 \in 1 .. Len(timers) /\ timers[1] = "connect"
    BY TimersSeq DEF TimerInv
  <2>2. ~ClosesBefore(1)
    BY DEF ClosesBefore
  <2> QED BY <2>1, <2>2 DEF TimerInv, TimersInOrder, ReconnectsWait, Offline
<1> QED BY InitTimers, NextTimers, <1>1, PTL DEF Spec

-----------------------------------------------------------------------------
(* One socket *)

(* Only one attempt looks up a name, and while CONNECTING it does so there *)
(* is no socket.  This is where lookups must not outlast attempts.         *)
LookupAlone ==
  \A a \in Attempts : pc[a] = "lookup" =>
    /\ readyState = "CONNECTING" => socket = None
    /\ \A b \in Attempts : pc[b] = "lookup" => a = b

NotYetAccepted == \A a \in Attempts : conn[a].state = "connecting" => ~conn[a].accepted

(* An attempt that heard of its CONNACK heard it on the current socket. *)
AcceptedOnSocket ==
  \A a \in Attempts : pc[a] = "accepted" /\ readyState = "CONNECTING"
    => socket # None /\ conn[socket].accepted

SocketParts == /\ SingleSocket /\ LookupAlone /\ NotYetAccepted
               /\ AcceptedOnSocket /\ OpenMeansAccepted

SocketInv == TimerInv /\ SocketParts

LEMMA SocketTypes ==
  ASSUME SocketInv
  PROVE  /\ conn \in [Attempts -> Conns] /\ pc \in [Attempts -> Places]
         /\ socket \in Attempts \cup {None} /\ None \notin Attempts
         /\ on \in [Attempts -> Attempts \cup {None}]
         /\ to \in [Msgs -> Attempts \cup {None}]
         /\ SingleSocket
BY Typed, ConnTyped, PcTyped, ConstantsAssumption DEF SocketInv, TimerInv, SocketParts

(* A connection that is neither made nor accepted in a step. *)
SocketKept(a) ==
  /\ conn'[a] # Gone => conn[a] # Gone
  /\ conn'[a].accepted = conn[a].accepted
  /\ conn'[a].state = "connecting" => conn[a].state = "connecting"

AttemptKept(a) ==
  /\ pc'[a] = "lookup" => pc[a] = "lookup"
  /\ pc'[a] = "accepted" => pc[a] = "accepted"

LEMMA SocketsKept ==
  ASSUME SocketInv, UNCHANGED socket, readyState' \in {readyState, "CLOSED"},
         \A a \in Attempts : SocketKept(a), \A a \in Attempts : AttemptKept(a)
  PROVE  SocketParts'
<1> USE DEF SocketKept, AttemptKept
<1>1. SingleSocket'
  BY DEF SocketInv, SocketParts, SingleSocket, Gone
<1>2. LookupAlone'
  BY DEF SocketInv, SocketParts, LookupAlone
<1>3. NotYetAccepted'
  BY DEF SocketInv, SocketParts, NotYetAccepted
<1>4. AcceptedOnSocket' /\ OpenMeansAccepted'
  BY SocketTypes DEF SocketInv, SocketParts, AcceptedOnSocket, OpenMeansAccepted
<1> QED BY <1>1, <1>2, <1>3, <1>4 DEF SocketParts

LEMMA SameSockets == ASSUME UNCHANGED conn PROVE \A a \in Attempts : SocketKept(a)
BY DEF SocketKept

(* _onSocketClose(), whoever calls it. *)
LEMMA SocketClosed ==
  ASSUME SocketInv, NEW cs \in [Attempts -> Conns], OnSocketClose(cs),
         \A a \in Attempts : cs[a] # conn[a] => a = socket,
         \A a \in Attempts : pc'[a] = "lookup" => pc[a] = "lookup"
  PROVE  SocketParts'
<1>1. \A a \in Attempts : conn'[a] = Gone
  BY SocketTypes DEF OnSocketClose, CloseCurrent, SingleSocket
<1>2. readyState' = "CLOSED" /\ socket' = None
  BY DEF OnSocketClose
<1>3. SingleSocket' /\ NotYetAccepted'
  BY <1>1 DEF SingleSocket, NotYetAccepted, Gone
<1>4. LookupAlone' /\ AcceptedOnSocket' /\ OpenMeansAccepted'
  BY <1>2 DEF SocketInv, SocketParts, LookupAlone, AcceptedOnSocket, OpenMeansAccepted
<1> QED BY <1>3, <1>4 DEF SocketParts

(* Another contents of a connection that is there. *)
LEMMA ChangedSocket ==
  ASSUME SocketInv, NEW s \in Attempts, conn[s].state # "closed", NEW c \in Conns,
         c.state = "connecting" => conn[s].state = "connecting",
         c.accepted = conn[s].accepted, conn' = [conn EXCEPT ![s] = c]
  PROVE  \A a \in Attempts : SocketKept(a)
<1>1. conn[s] # Gone
  BY DEF Gone
<1>2. \A a \in Attempts : conn'[a] = IF a = s THEN c ELSE conn[a]
  BY SocketTypes
<1> QED BY <1>1, <1>2 DEF SocketKept

LEMMA BrokenSockets ==
  ASSUME SocketInv, NEW s \in Attempts \cup {None}, conn' = Broken(s)
  PROVE  \A a \in Attempts : SocketKept(a)
<1>1. CASE conn' = conn
  BY <1>1, SameSockets
<1>2. CASE s # None /\ conn[s].state = "up" /\ conn' = [conn EXCEPT ![s].state = "broken"]
  <2> DEFINE c == [conn[s] EXCEPT !.state = "broken"]
  <2>1. s \in Attempts /\ conn[s] \in Conns
    BY <1>2, SocketTypes
  <2>2. c \in Conns /\ c.state = "broken" /\ c.accepted = conn[s].accepted
    BY <2>1 DEF Conns
  <2>3. conn' = [conn EXCEPT ![s] = c]
    BY <1>2
  <2> HIDE DEF c
  <2> QED BY <1>2, <2>1, <2>2, <2>3, ChangedSocket
<1> QED BY <1>1, <1>2 DEF Broken

(* What writing, and an acknowledgement, change of a connection. *)
LEMMA Updated ==
  ASSUME SocketInv, NEW s \in Attempts, conn[s].state # "closed",
         NEW T \in SUBSET Topics, NEW K \in SUBSET Keys,
         \/ conn' = [conn EXCEPT ![s].inflight = K]
         \/ conn' = [conn EXCEPT ![s].subs = T, ![s].inflight = K]
  PROVE  \A a \in Attempts : SocketKept(a)
<1>1. conn[s] \in Conns /\ conn \in [Attempts -> Conns]
  BY SocketTypes
<1>2. CASE conn' = [conn EXCEPT ![s].inflight = K]
  <2> DEFINE c == [conn[s] EXCEPT !.inflight = K]
  <2>1. c \in Conns /\ c.state = conn[s].state /\ c.accepted = conn[s].accepted
    BY <1>1 DEF Conns
  <2>2. conn' = [conn EXCEPT ![s] = c]
    BY <1>2
  <2> HIDE DEF c
  <2> QED BY <2>1, <2>2, ChangedSocket
<1>3. CASE conn' = [conn EXCEPT ![s].subs = T, ![s].inflight = K]
  <2> DEFINE c == [conn[s] EXCEPT !.subs = T, !.inflight = K]
  <2>1. c \in Conns /\ c.state = conn[s].state /\ c.accepted = conn[s].accepted
    BY <1>1 DEF Conns
  <2>2. conn' = [conn EXCEPT ![s] = c]
    BY <1>1, <1>3
  <2> HIDE DEF c
  <2> QED BY <2>1, <2>2, ChangedSocket
<1> QED BY <1>2, <1>3

(* A PUBLISH or CONNECT packet is written, or nothing without a socket. *)
LEMMA WireSockets ==
  ASSUME SocketInv, NEW s \in Attempts \cup {None}, NEW k \in Keys, CanWrite(s),
         conn' = OnWire(s, k)
  PROVE  \A a \in Attempts : SocketKept(a)
<1>1. CASE s = None
  BY <1>1, SameSockets DEF OnWire
<1>2. CASE s \in Attempts
  <2> DEFINE K == conn[s].inflight \cup {k}
  <2>1. K \in SUBSET Keys /\ conn[s].state # "closed"
    BY <1>2, SocketTypes DEF Conns, CanWrite
  <2>2. conn' = [conn EXCEPT ![s].inflight = K]
    BY <1>2, SocketTypes DEF OnWire
  <2> HIDE DEF K
  <2> QED BY <1>2, <2>1, <2>2, Updated
<1> QED BY <1>1, <1>2

(* A SUBSCRIBE or UNSUBSCRIBE packet is written. *)
LEMMA SubscribedSockets ==
  ASSUME SocketInv, NEW s \in Attempts, NEW T \in SUBSET Topics, NEW k \in Keys,
         CanWrite(s), conn' = [conn EXCEPT ![s].subs = T, ![s].inflight = @ \cup {k}]
  PROVE  \A a \in Attempts : SocketKept(a)
<1> DEFINE K == conn[s].inflight \cup {k}
<1>1. K \in SUBSET Keys /\ conn[s].state # "closed"
  BY SocketTypes DEF Conns, CanWrite
<1>2. conn' = [conn EXCEPT ![s].subs = T, ![s].inflight = K]
  BY SocketTypes
<1> HIDE DEF K
<1> QED BY <1>1, <1>2, Updated

LEMMA NextSocketApplication ==
  ASSUME SocketInv, Application
  PROVE  SocketParts'
<1> USE SocketTypes
<1>1. ASSUME UNCHANGED <<conn, socket>>, readyState' \in {readyState, "CLOSED"},
             \A a \in Attempts : pc'[a] \in {pc[a], "failed"}
      PROVE  SocketParts'
  BY <1>1, SameSockets, SocketsKept DEF AttemptKept
<1>2. CASE Open \/ CloseFinish
  BY <1>1, <1>2 DEF Open, CloseFinish, CloseEnd, attempt
<1>3. CASE Close
  BY <1>1, <1>3 DEF Close, CloseEnd
<1>4. ASSUME NEW m \in Msgs, PublishOffline(m) \/ PublishOnline(m) PROVE SocketParts'
  BY <1>1, <1>4 DEF PublishOffline, PublishOnline, client, attempt
<1>5. ASSUME NEW t \in Topics, UserSubscribe(t) \/ UserUnsubscribe(t) PROVE SocketParts'
  <2>1. UNCHANGED <<readyState, socket, pc>>
    BY <1>5 DEF UserSubscribe, UserUnsubscribe, attempt
  <2>2. \/ conn' = conn
        \/ conn' = Broken(socket)
        \/ /\ CanWrite(socket) /\ socket # None
           /\ \E T \in SUBSET Topics, k \in Keys :
                conn' = [conn EXCEPT ![socket].subs = T, ![socket].inflight = @ \cup {k}]
    <3>1. CASE socket = None \/ readyState # "OPEN" \/ conn' = Broken(socket)
      BY <1>5, <3>1 DEF UserSubscribe, UserUnsubscribe
    <3>2. CASE socket # None /\ readyState = "OPEN" /\ conn' # Broken(socket)
      <4>1. socket \in Attempts /\ conn[socket].subs \in SUBSET Topics
        BY <3>2 DEF Conns
      <4>2. CASE UserSubscribe(t)
        <5> DEFINE T == conn[socket].subs \cup {t}
        <5>1. conn' = [conn EXCEPT ![socket].subs = T,
                                   ![socket].inflight = @ \cup {Subscribe(t, "user")}]
          BY <3>2, <4>2 DEF UserSubscribe
        <5>2. T \in SUBSET Topics /\ Subscribe(t, "user") \in Keys /\ CanWrite(socket)
          BY <3>2, <4>1, <4>2, KeysTyped DEF UserSubscribe, Owners
        <5> QED BY <3>2, <5>1, <5>2
      <4>3. CASE UserUnsubscribe(t)
        <5> DEFINE T == conn[socket].subs \ {t}
        <5>1. conn' = [conn EXCEPT ![socket].subs = T,
                                   ![socket].inflight = @ \cup {Unsubscribe(t)}]
          BY <3>2, <4>3 DEF UserUnsubscribe
        <5>2. T \in SUBSET Topics /\ Unsubscribe(t) \in Keys /\ CanWrite(socket)
          BY <3>2, <4>1, <4>3, KeysTyped DEF UserUnsubscribe
        <5> QED BY <3>2, <5>1, <5>2
      <4> QED BY <1>5, <4>2, <4>3
    <3> QED BY <3>1, <3>2
  <2>3. \A a \in Attempts : SocketKept(a)
    <3>1. CASE conn' = conn
      BY <3>1, SameSockets
    <3>2. CASE conn' = Broken(socket)
      BY <3>2, BrokenSockets
    <3>3. ASSUME CanWrite(socket), socket # None, NEW T \in SUBSET Topics, NEW k \in Keys,
                 conn' = [conn EXCEPT ![socket].subs = T, ![socket].inflight = @ \cup {k}]
          PROVE  \A a \in Attempts : SocketKept(a)
      BY <3>3, SubscribedSockets
    <3> QED BY <2>2, <3>1, <3>2, <3>3
  <2>4. \A a \in Attempts : AttemptKept(a)
    BY <2>1 DEF AttemptKept
  <2> QED BY <2>1, <2>3, <2>4, SocketsKept
<1> QED BY <1>2, <1>3, <1>4, <1>5 DEF Application

LEMMA NextSocketTimers ==
  ASSUME SocketInv, ~LateLookup, Timers
  PROVE  SocketParts'
<1> USE SocketTypes
<1>1. ASSUME UNCHANGED <<conn, socket, readyState>>,
             \A a \in Attempts : pc'[a] \in {pc[a], "failed"}
      PROVE  SocketParts'
  BY <1>1, SameSockets, SocketsKept DEF AttemptKept
<1>2. CASE BeginTimers \/ EndTimers \/ CheckReconnect
  BY <1>1, <1>2 DEF BeginTimers, EndTimers, CheckReconnect, attempt
<1>3. CASE DeferredClose \/ KeepAliveTimeout
  BY <1>3, SocketClosed DEF DeferredClose, KeepAliveTimeout, attempt
<1>4. CASE \/ \E a \in Attempts : AckTimeout(a)
           \/ \E m \in Msgs : PubackTimeout(m)
  BY <1>1, <1>4 DEF AckTimeout, PubackTimeout, client
<1>5. ASSUME NEW a \in Attempts, StartAttempt(a) PROVE SocketParts'
  <2>1. /\ readyState' = "CONNECTING" /\ pc' = [pc EXCEPT ![a] = "lookup"]
        /\ UNCHANGED <<conn, socket>>
        /\ \A b \in Attempts : pc[b] # "accepted" /\ pc[b] # "lookup"
    BY <1>5 DEF StartAttempt, TimerFires, InTimers, Ready, Free
  <2>2. socket = None
    <3>1. timers # <<>> /\ Head(timers) = "connect"
      BY <1>5, TimersSeq DEF StartAttempt, TimerFires, InTimers, SocketInv, TimerInv, DueQueued
    <3>2. 1 \in 1 .. Len(timers) /\ timers[1] = "connect" /\ ~ClosesBefore(1)
      BY <3>1, TimersSeq DEF SocketInv, TimerInv, ClosesBefore
    <3> QED BY <3>2 DEF SocketInv, TimerInv, TimersInOrder, ReconnectsWait
  <2>3. LookupAlone' /\ AcceptedOnSocket' /\ OpenMeansAccepted'
    BY <2>1, <2>2 DEF LookupAlone, AcceptedOnSocket, OpenMeansAccepted
  <2>4. SingleSocket' /\ NotYetAccepted'
    BY <2>1 DEF SocketInv, SocketParts, SingleSocket, NotYetAccepted
  <2> QED BY <2>3, <2>4 DEF SocketParts
<1> QED BY <1>2, <1>3, <1>4, <1>5 DEF Timers

LEMMA NextSocketMicrotask ==
  ASSUME SocketInv, NEW a \in Attempts, Microtask(a)
  PROVE  SocketParts'
<1> USE SocketTypes
<1>0. \A b \in Attempts : AttemptKept(b)
  BY DEF AttemptKept, Microtask, SendConnect, Connected, Resubscribe, ResubscribeEnd,
     FlushOne, FlushEnd, Catch
<1>1. CASE UNCHANGED <<conn, socket, readyState>>
  BY <1>0, <1>1, SameSockets, SocketsKept
<1>2. CASE Catch(a)
  BY <1>0, <1>2, SocketClosed DEF Catch, AttemptKept
<1>3. CASE Connected(a) /\ readyState = "CONNECTING"
  <2>1. readyState' = "OPEN" /\ UNCHANGED <<conn, socket>> /\ pc[a] = "accepted"
    BY <1>3 DEF Connected
  <2>2. OpenMeansAccepted'
    BY <1>3, <2>1 DEF SocketInv, SocketParts, AcceptedOnSocket, OpenMeansAccepted
  <2>3. SingleSocket' /\ NotYetAccepted' /\ LookupAlone' /\ AcceptedOnSocket'
    BY <1>0, <2>1 DEF SocketInv, SocketParts, SingleSocket, NotYetAccepted, LookupAlone,
       AcceptedOnSocket, AttemptKept
  <2> QED BY <2>2, <2>3 DEF SocketParts
<1>4. Catch(a) \/ UNCHANGED <<conn, socket, readyState>> \/ (Connected(a) /\ readyState = "CONNECTING")
  BY DEF Microtask, SendConnect, Connected, Resubscribe, ResubscribeEnd, FlushOne,
     FlushEnd, client
<1> QED BY <1>1, <1>2, <1>3, <1>4

LEMMA NextSocketIO ==
  ASSUME SocketInv, NEW a \in Attempts, AttemptIO(a)
  PROVE  SocketParts'
<1> USE SocketTypes
<1>0. /\ UNCHANGED readyState
      /\ \A b \in Attempts : AttemptKept(b)
  BY AttemptIOFrame DEF AttemptKept, AttemptIO, LookupDone, LookupFailed, TcpConnected, TcpFailed,
     ConnectWritten, SubscribeWritten, WriteFailed
<1>1. CASE UNCHANGED <<conn, socket>>
  BY <1>0, <1>1, SameSockets, SocketsKept
<1>2. CASE LookupDone(a) /\ readyState = "CONNECTING"
  <2>1. /\ pc[a] = "lookup" /\ socket' = a /\ pc' = [pc EXCEPT ![a] = "tcp"]
        /\ conn' = [conn EXCEPT ![a].state = "connecting"]
    BY <1>2 DEF LookupDone
  <2>2. socket = None /\ \A b \in Attempts : conn[b] = Gone
    BY <1>2, <2>1 DEF SocketInv, SocketParts, LookupAlone, SingleSocket
  <2>3. \A b \in Attempts : pc'[b] # "lookup"
    BY <1>0, <2>1 DEF SocketInv, SocketParts, LookupAlone, AttemptKept
  <2>4. \A b \in Attempts : pc'[b] # "accepted"
    BY <1>0, <1>2, <2>2 DEF SocketInv, SocketParts, AcceptedOnSocket, AttemptKept
  <2>5. SingleSocket' /\ NotYetAccepted'
    <3>1. \A b \in Attempts : conn'[b] = IF b = a THEN [Gone EXCEPT !.state = "connecting"]
                                                   ELSE Gone
      BY <2>1, <2>2
    <3>2. ~Gone.accepted /\ ~[Gone EXCEPT !.state = "connecting"].accepted
      BY DEF Gone
    <3> QED BY <2>1, <3>1, <3>2 DEF SingleSocket, NotYetAccepted
  <2>6. readyState' = "CONNECTING"
    BY <1>0, <1>2
  <2>7. OpenMeansAccepted'
    BY <2>6 DEF OpenMeansAccepted
  <2>8. LookupAlone' /\ AcceptedOnSocket'
    BY <2>3, <2>4 DEF LookupAlone, AcceptedOnSocket
  <2> QED BY <2>5, <2>7, <2>8 DEF SocketParts
<1>3. CASE TcpConnected(a)
  <2>1. /\ conn[a].state = "connecting" /\ conn' = [conn EXCEPT ![a].state = "up"]
        /\ UNCHANGED socket
    BY <1>3 DEF TcpConnected
  <2> DEFINE c == [conn[a] EXCEPT !.state = "up"]
  <2>3. c \in Conns /\ c.state = "up" /\ c.accepted = conn[a].accepted
    BY DEF Conns
  <2>4. conn' = [conn EXCEPT ![a] = c] /\ conn[a].state # "closed"
    BY <2>1
  <2> HIDE DEF c
  <2>2. \A b \in Attempts : SocketKept(b)
    BY <2>3, <2>4, ChangedSocket
  <2> QED BY <1>0, <2>1, <2>2, SocketsKept
<1>4. CASE ConnectWritten(a) \/ SubscribeWritten(a)
  <2>1. on[a] \in Attempts \cup {None} /\ CanWrite(on[a]) /\ UNCHANGED socket
    BY <1>4 DEF ConnectWritten, SubscribeWritten
  <2>2. CASE ConnectWritten(a)
    <3>1. conn' = OnWire(on[a], Connect)
      BY <2>2 DEF ConnectWritten
    <3>2. \A b \in Attempts : SocketKept(b)
      BY <2>1, <3>1, WireSockets, KeysTyped
    <3> QED BY <1>0, <2>1, <3>2, SocketsKept
  <2>3. CASE SubscribeWritten(a) /\ on[a] # None
    <3>1. /\ on[a] \in Attempts /\ item[a] \in Topics
          /\ conn[on[a]].subs \cup {item[a]} \in SUBSET Topics
          /\ Subscribe(item[a], a) \in Keys
      BY <2>1, <2>3, KeysTyped
         DEF SubscribeWritten, SocketInv, TimerInv, TypeInv, ItemOfLoop, Owners, Conns
    <3> DEFINE T == conn[on[a]].subs \cup {item[a]}
    <3>2. conn' = [conn EXCEPT ![on[a]].subs = T,
                               ![on[a]].inflight = @ \cup {Subscribe(item[a], a)}]
      BY <2>3 DEF SubscribeWritten
    <3>3. \A b \in Attempts : SocketKept(b)
      BY <2>1, <3>1, <3>2, SubscribedSockets
    <3> QED BY <1>0, <2>1, <3>3, SocketsKept
  <2>4. CASE SubscribeWritten(a) /\ on[a] = None
    BY <1>1, <2>1, <2>4 DEF SubscribeWritten
  <2> QED BY <1>4, <2>2, <2>3, <2>4
<1>5. CASE WriteFailed(a)
  <2>1. UNCHANGED socket /\ conn' = Broken(on[a]) /\ on[a] \in Attempts \cup {None}
    BY <1>5 DEF WriteFailed
  <2> QED BY <1>0, <2>1, BrokenSockets, SocketsKept
<1>6. CASE \/ LookupFailed(a) \/ TcpFailed(a)
           \/ LookupDone(a) /\ readyState # "CONNECTING"
  BY <1>1, <1>6 DEF LookupFailed, TcpFailed, LookupDone
<1> QED BY <1>2, <1>3, <1>4, <1>5, <1>6 DEF AttemptIO

LEMMA NextSocketSending ==
  ASSUME SocketInv, NEW m \in Msgs, PublishWritten(m) \/ PublishFailed(m)
  PROVE  SocketParts'
<1> USE SocketTypes
<1>0. /\ UNCHANGED <<readyState, socket>> /\ to[m] \in Attempts \cup {None}
      /\ \A b \in Attempts : AttemptKept(b)
  BY SendingFrame DEF PublishWritten, PublishFailed, AttemptKept
<1>1. CASE UNCHANGED conn
  BY <1>0, <1>1, SameSockets, SocketsKept
<1>2. CASE CanWrite(to[m]) /\ conn' = OnWire(to[m], Publish(m))
  <2>1. \A b \in Attempts : SocketKept(b)
    BY <1>0, <1>2, WireSockets, KeysTyped
  <2> QED BY <1>0, <2>1, SocketsKept
<1>3. CASE conn' = Broken(to[m])
  BY <1>0, <1>3, BrokenSockets, SocketsKept
<1>4. \/ UNCHANGED conn \/ conn' = Broken(to[m])
      \/ CanWrite(to[m]) /\ conn' = OnWire(to[m], Publish(m))
  BY DEF PublishWritten, PublishFailed
<1> QED BY <1>1, <1>2, <1>3, <1>4

LEMMA NextSocketNetwork ==
  ASSUME SocketInv, Network
  PROVE  SocketParts'
<1> USE SocketTypes
<1>1. ASSUME NEW s \in Attempts, NEW k \in Keys, NEW b \in BOOLEAN, CanRead(s),
             conn' = [conn EXCEPT ![s].inflight = @ \ {k}, ![s].accepted = @ \/ b],
             UNCHANGED <<readyState, socket>>,
             \A a \in Attempts : /\ pc'[a] = "lookup" => pc[a] = "lookup"
                                 /\ pc'[a] = "accepted" => pc[a] = "accepted" \/ b
      PROVE  SocketParts'
  <2>1. conn[s] # Gone /\ conn[s].state # "connecting" /\ s = socket /\ s # None
    BY <1>1 DEF CanRead, Gone, SingleSocket
  <2>2. /\ \A a \in Attempts : /\ conn'[a] # Gone => conn[a] # Gone
                               /\ conn[a].accepted => conn'[a].accepted
                               /\ conn'[a].state = conn[a].state
                               /\ conn'[a].accepted => conn[a].accepted \/ a = s
        /\ b => conn'[s].accepted
    BY <1>1, <2>1 DEF Conns
  <2>3. CASE ~b
    <3>1. \A a \in Attempts : SocketKept(a)
      <4> DEFINE open == conn[s].inflight \ {k}
                 acc  == conn[s].accepted \/ b
                 c    == [conn[s] EXCEPT !.inflight = open, !.accepted = acc]
      <4>1. conn[s] \in Conns /\ open \in SUBSET Keys
        BY DEF Conns
      <4>2. acc \in BOOLEAN /\ acc = conn[s].accepted
        <5>1. conn[s].accepted \in BOOLEAN
          BY <4>1 DEF Conns
        <5> QED BY <2>3, <5>1
      <4>3. conn' = [conn EXCEPT ![s] = c] /\ conn[s].state # "closed"
        BY <1>1 DEF CanRead
      <4> HIDE DEF open, acc
      <4>4. c \in Conns /\ c.state = conn[s].state /\ c.accepted = acc
        BY <4>1, <4>2 DEF Conns
      <4> HIDE DEF c
      <4> QED BY <4>2, <4>3, <4>4, ChangedSocket
    <3>2. \A a \in Attempts : AttemptKept(a)
      BY <1>1, <2>3 DEF AttemptKept
    <3> QED BY <1>1, <3>1, <3>2, SocketsKept
  <2>4. CASE b
    <3>1. conn'[socket'].accepted /\ socket' # None
      BY <1>1, <2>1, <2>2, <2>4
    <3>2. AcceptedOnSocket' /\ OpenMeansAccepted'
      BY <3>1 DEF AcceptedOnSocket, OpenMeansAccepted
    <3>3. SingleSocket' /\ NotYetAccepted' /\ LookupAlone'
      BY <1>1, <2>1, <2>2 DEF SocketInv, SocketParts, SingleSocket, NotYetAccepted, LookupAlone
    <3> QED BY <3>2, <3>3 DEF SocketParts
  <2> QED BY <2>3, <2>4
<1>2. ASSUME NEW s \in Attempts, NEW k \in Keys, Acknowledge(s, k) PROVE SocketParts'
  <2>1. \A a \in Attempts : /\ pc'[a] = "lookup" => pc[a] = "lookup"
                            /\ pc'[a] = "accepted" => pc[a] = "accepted" \/ k = Connect
    BY <1>2 DEF Acknowledge
  <2>2. /\ CanRead(s) /\ UNCHANGED <<readyState, socket>>
        /\ conn' = [conn EXCEPT ![s].inflight = @ \ {k}, ![s].accepted = @ \/ k = Connect]
    BY <1>2 DEF Acknowledge
  <2>3. (k = Connect) \in BOOLEAN
    OBVIOUS
  <2> QED BY <1>1, <2>1, <2>2, <2>3
<1>3. ASSUME NEW s \in Attempts, Refuse(s) PROVE SocketParts'
  <2>1. /\ CanRead(s) /\ UNCHANGED <<readyState, socket>>
        /\ conn' = [conn EXCEPT ![s].inflight = @ \ {Connect}]
        /\ \A a \in Attempts : AttemptKept(a)
    BY <1>3 DEF Refuse, AttemptKept
  <2> DEFINE K == conn[s].inflight \ {Connect}
  <2>3. K \in SUBSET Keys /\ conn[s].state # "closed" /\ conn' = [conn EXCEPT ![s].inflight = K]
    BY <2>1 DEF CanRead, Conns
  <2> HIDE DEF K
  <2>2. \A a \in Attempts : SocketKept(a)
    BY <2>3, Updated
  <2> QED BY <2>1, <2>2, SocketsKept
<1>4. ASSUME NEW s \in Attempts, SocketEnds(s) PROVE SocketParts'
  <2> DEFINE cs == [conn EXCEPT ![s] = [Gone EXCEPT !.state = "eof"]]
  <2>1. OnSocketClose(cs) /\ UNCHANGED pc /\ CanRead(s)
    BY <1>4 DEF SocketEnds, attempt
  <2>2. s = socket
    BY <2>1 DEF CanRead, Gone, SingleSocket
  <2>3. cs \in [Attempts -> Conns]
    BY GoneTyped
  <2>4. \A a \in Attempts : cs[a] # conn[a] => a = socket
    BY <2>2
  <2> QED BY <2>1, <2>3, <2>4, SocketClosed
<1>5. ASSUME NEW s \in Attempts, ReadBufferFull(s) PROVE SocketParts'
  BY <1>5, SocketClosed DEF ReadBufferFull, attempt
<1> QED BY <1>2, <1>3, <1>4, <1>5 DEF Network

LEMMA NextSocket == ASSUME ~LateLookup PROVE SocketInv /\ [Next]_vars => SocketInv'
<1> SUFFICES ASSUME SocketInv, [Next]_vars PROVE SocketParts'
  BY NextTimers DEF SocketInv
<1>1. CASE UNCHANGED vars
  BY <1>1, SameSockets, SocketsKept DEF vars, client, attempt, AttemptKept
<1> QED
  BY <1>1, NextSocketApplication, NextSocketTimers, NextSocketMicrotask, NextSocketIO,
     NextSocketSending, NextSocketNetwork DEF Next, Sending

LEMMA InitSocket == Init => SocketInv
BY InitTimers DEF Init, SocketInv, SocketParts, SingleSocket, LookupAlone, NotYetAccepted,
   AcceptedOnSocket, OpenMeansAccepted, Gone

(* There is one socket at most and it is the client's: no attempt leaves   *)
(* one behind, if a lookup is over before the next attempt starts.         *)
THEOREM OneSocket == ASSUME LateLookup = FALSE PROVE Spec => []SingleSocket
<1>1. SocketInv => SingleSocket
  BY DEF SocketInv, SocketParts
<1>2. Init => SocketInv
  BY InitSocket
<1>3. SocketInv /\ [Next]_vars => SocketInv'
  BY NextSocket
<1> QED BY <1>1, <1>2, <1>3, PTL DEF Spec

(* OPEN means that the broker accepted the CONNECT on the current socket.  *)
THEOREM OpenIsAccepted == ASSUME LateLookup = FALSE PROVE Spec => []OpenMeansAccepted
<1>1. SocketInv => OpenMeansAccepted
  BY DEF SocketInv, SocketParts
<1>2. Init => SocketInv
  BY InitSocket
<1>3. SocketInv /\ [Next]_vars => SocketInv'
  BY NextSocket
<1> QED BY <1>1, <1>2, <1>3, PTL DEF Spec

-----------------------------------------------------------------------------
(* The subscriptions *)

Restoring(t, a) ==
  \/ t \in rest[a]
  \/ pc[a] = "subwrite" /\ item[a] = t /\ on[a] = socket
  \/ pc[a] = "failed"

SubscribeInv == ConnectInv /\ SocketInv /\ SubscriptionsRestored

LEMMA SubscribeTypes ==
  ASSUME SubscribeInv
  PROVE  /\ SocketInv /\ ConnectInv
         /\ rest \in [Attempts -> SUBSET Topics] /\ item \in [Attempts -> Topics \cup {None}]
         /\ topics \subseteq Topics
         /\ SocketInv => SubscriptionsRestored
BY DEF SubscribeInv, SocketInv, TimerInv, TypeInv, TypeOK

(* A subscription that is still under way stays so or has been made. *)
AttemptRestores(a) ==
  \A t \in topics' : Restoring(t, a) => Restoring(t, a)' \/ t \in conn'[socket].subs

ConnectionLasts ==
  conn'[socket].state = "up" =>
    /\ conn[socket].state = "up"
    /\ topics' \ conn'[socket].subs \subseteq topics \ conn[socket].subs

LEMMA SubscriptionsKept ==
  ASSUME SubscribeInv, readyState = "OPEN", UNCHANGED socket,
         socket # None => ConnectionLasts,
         socket # None => \A a \in Attempts : AttemptRestores(a)
  PROVE  SubscriptionsRestored'
<1> SUFFICES ASSUME socket # None, conn'[socket].state = "up",
                    NEW t \in topics' \ conn'[socket].subs
             PROVE  \E a \in Attempts : Restoring(t, a)'
  BY DEF SubscriptionsRestored, Restoring
<1>1. conn[socket].state = "up" /\ t \in topics \ conn[socket].subs
  BY DEF ConnectionLasts
<1>2. PICK a \in Attempts : Restoring(t, a)
  BY <1>1 DEF SubscribeInv, SubscriptionsRestored, Restoring
<1> QED BY <1>2 DEF AttemptRestores

LEMMA NotOpen == readyState' # "OPEN" => SubscriptionsRestored'
BY DEF SubscriptionsRestored

LEMMA SameConnections ==
  ASSUME UNCHANGED <<conn, socket, topics>> PROVE ConnectionLasts
BY DEF ConnectionLasts

LEMMA BrokenLasts ==
  ASSUME SubscribeInv, NEW s \in Attempts \cup {None}, socket # None, conn' = Broken(s),
         UNCHANGED <<socket, topics>>
  PROVE  ConnectionLasts
<1>1. conn \in [Attempts -> Conns] /\ socket \in Attempts
  BY SocketTypes, SubscribeTypes
<1>2. CASE conn' = conn
  BY <1>2 DEF ConnectionLasts
<1>3. CASE s # None /\ conn' = [conn EXCEPT ![s].state = "broken"]
  <2>1. conn'[socket].state = "up" => s # socket
    BY <1>1, <1>3
  <2>2. s # socket => conn'[socket] = conn[socket]
    BY <1>1, <1>3
  <2> QED BY <2>1, <2>2 DEF ConnectionLasts
<1> QED BY <1>2, <1>3 DEF Broken

LEMMA WireLasts ==
  ASSUME SubscribeInv, NEW s \in Attempts \cup {None}, NEW k, socket # None,
         conn' = OnWire(s, k), UNCHANGED <<socket, topics>>
  PROVE  ConnectionLasts
<1>1. conn \in [Attempts -> Conns] /\ socket \in Attempts
  BY SocketTypes, SubscribeTypes
<1>2. CASE s = None
  BY <1>2 DEF ConnectionLasts, OnWire
<1>3. CASE s # None
  <2>1. conn' = [conn EXCEPT ![s].inflight = @ \cup {k}]
    BY <1>3 DEF OnWire
  <2>2. conn'[socket].state = conn[socket].state /\ conn'[socket].subs = conn[socket].subs
    BY <1>1, <2>1 DEF Conns
  <2> QED BY <2>2 DEF ConnectionLasts
<1> QED BY <1>2, <1>3

LEMMA NextRestoreApplication ==
  ASSUME SubscribeInv, Application
  PROVE  SubscriptionsRestored'
<1> USE SubscribeTypes, SocketTypes
<1> SUFFICES ASSUME readyState' = "OPEN" PROVE SubscriptionsRestored'
  BY NotOpen
<1>0. /\ readyState = "OPEN" /\ UNCHANGED <<socket, rest, item, on>>
      /\ \A a \in Attempts : pc'[a] \in {pc[a], "failed"}
  BY DEF Application, Open, Close, CloseFinish, CloseEnd, PublishOffline, PublishOnline,
     UserSubscribe, UserUnsubscribe, client, attempt
<1>1. \A a \in Attempts : AttemptRestores(a)
  BY <1>0 DEF AttemptRestores, Restoring
<1>2. CASE UNCHANGED <<conn, topics>>
  BY <1>0, <1>1, <1>2, SameConnections, SubscriptionsKept
<1>3. ASSUME NEW t \in Topics, UserSubscribe(t) \/ UserUnsubscribe(t), socket # None
      PROVE  ConnectionLasts
  <2>0. socket \in Attempts
    BY <1>3
  <2>1. CASE conn' = Broken(socket)
    <3>1. conn'[socket].state # "up"
      <4>1. CASE conn[socket].state = "up"
        <5>1. conn' = [conn EXCEPT ![socket].state = "broken"]
          BY <1>3, <2>1, <4>1 DEF Broken
        <5> QED BY <2>0, <5>1
      <4>2. CASE conn[socket].state # "up"
        BY <2>1, <4>2 DEF Broken
      <4> QED BY <4>1, <4>2
    <3> QED BY <3>1 DEF ConnectionLasts
  <2>2. CASE UserSubscribe(t) /\ conn' # Broken(socket)
    <3>1. /\ topics' = topics \cup {t}
          /\ conn' = [conn EXCEPT ![socket].subs = @ \cup {t},
                                  ![socket].inflight = @ \cup {Subscribe(t, "user")}]
      BY <1>0, <1>3, <2>2 DEF UserSubscribe
    <3>2. /\ conn'[socket].state = conn[socket].state
          /\ conn'[socket].subs = conn[socket].subs \cup {t}
      BY <2>0, <3>1 DEF Conns
    <3> QED BY <3>1, <3>2 DEF ConnectionLasts
  <2>3. CASE UserUnsubscribe(t) /\ conn' # Broken(socket)
    <3>1. /\ topics' = topics \ {t}
          /\ conn' = [conn EXCEPT ![socket].subs = @ \ {t},
                                  ![socket].inflight = @ \cup {Unsubscribe(t)}]
      BY <1>0, <1>3, <2>3 DEF UserUnsubscribe
    <3>2. /\ conn'[socket].state = conn[socket].state
          /\ conn'[socket].subs = conn[socket].subs \ {t}
      BY <2>0, <3>1 DEF Conns
    <3> QED BY <3>1, <3>2 DEF ConnectionLasts
  <2> QED BY <1>3, <2>1, <2>2, <2>3
<1>4. CASE \E t \in Topics : UserSubscribe(t) \/ UserUnsubscribe(t)
  BY <1>0, <1>1, <1>3, <1>4, SubscriptionsKept
<1>5. UNCHANGED <<conn, topics>> \/ \E t \in Topics : UserSubscribe(t) \/ UserUnsubscribe(t)
  BY DEF Application, Open, Close, CloseFinish, PublishOffline, PublishOnline, client
<1> QED BY <1>2, <1>4, <1>5

LEMMA NextRestoreTimers ==
  ASSUME SubscribeInv, Timers
  PROVE  SubscriptionsRestored'
<1> USE SubscribeTypes, SocketTypes
<1> SUFFICES ASSUME readyState' = "OPEN" PROVE SubscriptionsRestored'
  BY NotOpen
<1>0. UNCHANGED <<topics, rest, item, on>>
  BY TimersFrame
<1>1. /\ readyState = "OPEN" /\ UNCHANGED <<socket, conn>>
      /\ \A a \in Attempts : pc'[a] \in {pc[a], "failed"}
  BY DEF Timers, BeginTimers, EndTimers, DeferredClose, CheckReconnect, KeepAliveTimeout,
     StartAttempt, AckTimeout, PubackTimeout, OnSocketClose, client, attempt
<1>2. \A a \in Attempts : AttemptRestores(a)
  BY <1>0, <1>1 DEF AttemptRestores, Restoring
<1> QED BY <1>0, <1>1, <1>2, SameConnections, SubscriptionsKept

LEMMA NextRestoreMicrotask ==
  ASSUME SubscribeInv, NEW a \in Attempts, Microtask(a)
  PROVE  SubscriptionsRestored'
<1> USE SubscribeTypes, SocketTypes
<1> SUFFICES ASSUME readyState' = "OPEN" PROVE SubscriptionsRestored'
  BY NotOpen
<1>0. UNCHANGED topics
  BY MicrotaskFrame
<1>1. CASE Connected(a) /\ readyState = "CONNECTING"
  <2>1. rest'[a] = topics
    BY <1>1 DEF Connected
  <2> QED BY <1>0, <2>1 DEF SubscriptionsRestored
<1>2. ASSUME readyState = "OPEN", UNCHANGED <<socket, conn>>,
             \A b \in Attempts : AttemptRestores(b)
      PROVE  SubscriptionsRestored'
  BY <1>0, <1>2, SameConnections, SubscriptionsKept
<1>3. ASSUME readyState = "OPEN", UNCHANGED <<socket, conn, rest, item>>,
             \A b \in Attempts \ {a} : pc'[b] = pc[b] /\ on'[b] = on[b],
             pc[a] \notin {"subwrite", "failed"}
      PROVE  SubscriptionsRestored'
  BY <1>2, <1>3 DEF AttemptRestores, Restoring
<1>4. CASE SendConnect(a) \/ FlushOne(a) \/ FlushEnd(a)
  BY <1>3, <1>4 DEF SendConnect, FlushOne, FlushEnd, client
<1>5. CASE Connected(a) /\ readyState # "CONNECTING"
  BY <1>3, <1>5 DEF Connected
<1>6. CASE Resubscribe(a)
  <2>1. PICK t \in rest[a] \cap topics :
          /\ rest' = [rest EXCEPT ![a] = @ \ {t}] /\ pc[a] = "resub"
          /\ readyState = "OPEN" /\ UNCHANGED <<socket, conn>>
          /\ item' = [item EXCEPT ![a] = t] /\ on' = [on EXCEPT ![a] = socket]
          /\ pc' = [pc EXCEPT ![a] = "subwrite"]
    BY <1>6 DEF Resubscribe, client
  <2>2. \A b \in Attempts \ {a} : AttemptRestores(b)
    BY <2>1 DEF AttemptRestores, Restoring
  <2>3. AttemptRestores(a)
    BY <2>1 DEF AttemptRestores, Restoring
  <2> QED BY <1>2, <2>1, <2>2, <2>3
<1>7. CASE ResubscribeEnd(a)
  <2>1. /\ pc[a] = "resub" /\ rest[a] \cap topics = {}
        /\ readyState = "OPEN" /\ UNCHANGED <<socket, conn, on>>
        /\ rest' = [rest EXCEPT ![a] = {}] /\ item' = [item EXCEPT ![a] = None]
        /\ pc' = [pc EXCEPT ![a] = "flush"]
    BY <1>7 DEF ResubscribeEnd, client
  <2>2. \A b \in Attempts \ {a} : AttemptRestores(b)
    BY <2>1 DEF AttemptRestores, Restoring
  <2>3. AttemptRestores(a)
    BY <1>0, <2>1 DEF AttemptRestores, Restoring
  <2> QED BY <1>2, <2>1, <2>2, <2>3
<1>8. CASE Catch(a)
  BY <1>8 DEF Catch, OnSocketClose
<1> QED BY <1>1, <1>4, <1>5, <1>6, <1>7, <1>8 DEF Microtask

LEMMA NextRestoreIO ==
  ASSUME SubscribeInv, NEW a \in Attempts, AttemptIO(a)
  PROVE  SubscriptionsRestored'
<1> USE SubscribeTypes, SocketTypes
<1>0. UNCHANGED <<readyState, topics, rest, item>>
  BY AttemptIOFrame
<1> SUFFICES ASSUME readyState = "OPEN" PROVE SubscriptionsRestored'
  BY <1>0, NotOpen
<1>1. ASSUME UNCHANGED socket, socket # None => ConnectionLasts,
             \A b \in Attempts \ {a} : pc'[b] = pc[b] /\ on'[b] = on[b],
             pc'[a] = "failed" \/ pc[a] \notin {"subwrite", "failed"}
      PROVE  SubscriptionsRestored'
  <2>1. \A b \in Attempts : AttemptRestores(b)
    BY <1>0, <1>1 DEF AttemptRestores, Restoring
  <2> QED BY <1>1, <2>1, SubscriptionsKept
<1>2. CASE LookupDone(a) \/ LookupFailed(a) \/ TcpFailed(a)
  <2>1. UNCHANGED <<socket, conn, on>>
    BY <1>2 DEF LookupDone, LookupFailed, TcpFailed
  <2> QED BY <1>0, <1>1, <1>2, <2>1, SameConnections DEF LookupDone, LookupFailed, TcpFailed
<1>3. CASE TcpConnected(a)
  <2>1. /\ conn[a].state = "connecting" /\ conn' = [conn EXCEPT ![a].state = "up"]
        /\ UNCHANGED <<socket, on>> /\ pc[a] = "tcp" /\ pc' = [pc EXCEPT ![a] = "tcpup"]
    BY <1>3 DEF TcpConnected
  <2>2. a # socket
    BY <2>1 DEF SocketInv, SocketParts, NotYetAccepted, OpenMeansAccepted
  <2>3. socket # None => conn'[socket] = conn[socket]
    BY <2>1, <2>2
  <2>4. socket # None => ConnectionLasts
    BY <1>0, <2>1, <2>3 DEF ConnectionLasts
  <2> QED BY <1>1, <2>1, <2>4
<1>4. CASE ConnectWritten(a)
  <2>1. /\ conn' = OnWire(on[a], Connect) /\ pc[a] = "connwrite"
        /\ pc' = [pc EXCEPT ![a] = "connack"] /\ on' = [on EXCEPT ![a] = None]
        /\ UNCHANGED socket
    BY <1>4 DEF ConnectWritten
  <2>2. socket # None => ConnectionLasts
    BY <1>0, <2>1, WireLasts
  <2> QED BY <1>1, <2>1, <2>2
<1>5. CASE WriteFailed(a)
  <2>1. /\ conn' = Broken(on[a]) /\ pc' = [pc EXCEPT ![a] = "failed"]
        /\ on' = [on EXCEPT ![a] = None] /\ UNCHANGED socket
    BY <1>5 DEF WriteFailed
  <2>2. socket # None => ConnectionLasts
    BY <1>0, <2>1, BrokenLasts
  <2> QED BY <1>1, <2>1, <2>2
<1>6. CASE SubscribeWritten(a)
  <2>1. /\ pc[a] = "subwrite" /\ pc' = [pc EXCEPT ![a] = "suback"]
        /\ on' = [on EXCEPT ![a] = None] /\ UNCHANGED socket
        /\ conn' = IF on[a] = None THEN conn
                   ELSE [conn EXCEPT ![on[a]].subs = @ \cup {item[a]},
                                     ![on[a]].inflight = @ \cup {Subscribe(item[a], a)}]
    BY <1>6 DEF SubscribeWritten
  <2>2. ASSUME socket # None
        PROVE  /\ conn'[socket].state = conn[socket].state
               /\ conn'[socket].subs = conn[socket].subs
                                         \cup (IF on[a] = socket THEN {item[a]} ELSE {})
    <3>1. socket \in Attempts
      BY <2>2
    <3>2. CASE on[a] = None
      BY <2>1, <2>2, <3>2
    <3>3. CASE on[a] # None
      BY <2>1, <3>1, <3>3 DEF Conns
    <3> QED BY <3>2, <3>3
  <2>3. socket # None => ConnectionLasts
    BY <1>0, <2>2 DEF ConnectionLasts
  <2>4. \A b \in Attempts \ {a} : AttemptRestores(b)
    BY <1>0, <2>1 DEF AttemptRestores, Restoring
  <2>5. socket # None => AttemptRestores(a)
    BY <1>0, <2>1, <2>2 DEF AttemptRestores, Restoring
  <2> QED BY <2>1, <2>3, <2>4, <2>5, SubscriptionsKept
<1> QED BY <1>2, <1>3, <1>4, <1>5, <1>6 DEF AttemptIO

LEMMA NextRestoreSending ==
  ASSUME SubscribeInv, NEW m \in Msgs, PublishWritten(m) \/ PublishFailed(m)
  PROVE  SubscriptionsRestored'
<1> USE SubscribeTypes, SocketTypes
<1>0. UNCHANGED <<readyState, topics, rest, item, on, socket>>
  BY SendingFrame
<1> SUFFICES ASSUME readyState = "OPEN" PROVE SubscriptionsRestored'
  BY <1>0, NotOpen
<1>1. by[m] \in Attempts => pc[by[m]] = "pub"
  BY DEF ConnectInv, SenderWaits, Sent, PublishWritten, PublishFailed
<1>2. \A a \in Attempts : pc'[a] \in {pc[a], "failed"} \/ pc[a] = "pub"
  BY <1>1 DEF PublishWritten, PublishFailed
<1>3. \A a \in Attempts : AttemptRestores(a)
  BY <1>0, <1>2 DEF AttemptRestores, Restoring
<1>4. conn' \in {conn, OnWire(to[m], Publish(m)), Broken(to[m])}
  BY DEF PublishWritten, PublishFailed
<1>5. socket # None => ConnectionLasts
  BY <1>0, <1>4, SameConnections, WireLasts, BrokenLasts
<1> QED BY <1>0, <1>3, <1>5, SubscriptionsKept

LEMMA NextRestoreNetwork ==
  ASSUME SubscribeInv, Network
  PROVE  SubscriptionsRestored'
<1> USE SubscribeTypes, SocketTypes
<1>0. UNCHANGED <<topics, rest, item, on>>
  BY NetworkFrame
<1> SUFFICES ASSUME readyState' = "OPEN" PROVE SubscriptionsRestored'
  BY NotOpen
<1>1. ASSUME NEW s \in Attempts, NEW k \in Keys, Acknowledge(s, k) PROVE SubscriptionsRestored'
  <2>1. /\ readyState = "OPEN" /\ UNCHANGED socket
        /\ conn' = [conn EXCEPT ![s].inflight = @ \ {k}, ![s].accepted = @ \/ k = Connect]
    BY <1>1 DEF Acknowledge
  <2>2. \A a \in Attempts : pc'[a] = pc[a] \/ Awaits(a, k)
    BY <1>1 DEF Acknowledge
  <2>3. ASSUME NEW a \in Attempts, Awaits(a, k) PROVE pc[a] \notin {"subwrite", "failed"}
    BY <2>3, AwaitsPublish DEF Awaits
  <2>4. \A a \in Attempts : AttemptRestores(a)
    BY <1>0, <2>1, <2>2, <2>3 DEF AttemptRestores, Restoring
  <2>5. socket # None => /\ conn'[socket].state = conn[socket].state
                         /\ conn'[socket].subs = conn[socket].subs
    BY <2>1 DEF Conns
  <2>6. socket # None => ConnectionLasts
    BY <1>0, <2>5 DEF ConnectionLasts
  <2> QED BY <2>1, <2>4, <2>6, SubscriptionsKept
<1>2. ASSUME NEW s \in Attempts, Refuse(s) PROVE SubscriptionsRestored'
  <2>1. /\ readyState = "OPEN" /\ UNCHANGED socket
        /\ conn' = [conn EXCEPT ![s].inflight = @ \ {Connect}]
        /\ \A a \in Attempts : pc'[a] \in {pc[a], "failed"}
    BY <1>2 DEF Refuse
  <2>2. \A a \in Attempts : AttemptRestores(a)
    BY <1>0, <2>1 DEF AttemptRestores, Restoring
  <2>3. socket # None => /\ conn'[socket].state = conn[socket].state
                         /\ conn'[socket].subs = conn[socket].subs
    BY <2>1 DEF Conns
  <2>4. socket # None => ConnectionLasts
    BY <1>0, <2>3 DEF ConnectionLasts
  <2> QED BY <2>1, <2>2, <2>4, SubscriptionsKept
<1>3. CASE \E s \in Attempts : SocketEnds(s) \/ ReadBufferFull(s)
  BY <1>3 DEF SocketEnds, ReadBufferFull, OnSocketClose
<1> QED BY <1>1, <1>2, <1>3 DEF Network

LEMMA NextRestore ==
  ASSUME ~LateLookup PROVE SubscribeInv /\ [Next]_vars => SubscribeInv'
<1> SUFFICES ASSUME SubscribeInv, [Next]_vars PROVE SubscriptionsRestored'
  BY NextConnecting, NextSocket DEF SubscribeInv
<1>1. CASE UNCHANGED vars
  BY <1>1 DEF vars, client, attempt, SubscribeInv, SubscriptionsRestored
<1> QED
  BY <1>1, NextRestoreApplication, NextRestoreTimers, NextRestoreMicrotask, NextRestoreIO,
     NextRestoreSending, NextRestoreNetwork DEF Next, Sending

(* Every topic is subscribed on the connection of an OPEN client or is     *)
(* about to be, whatever was subscribed meanwhile and however often the    *)
(* connection changed, if lookups do not outlast attempts.                 *)
THEOREM TopicsAreRestored ==
  ASSUME LateLookup = FALSE PROVE Spec => []SubscriptionsRestored
<1>1. Init => SubscribeInv
  BY InitConnecting, InitSocket DEF Init, SubscribeInv, SubscriptionsRestored
<1>2. SubscribeInv /\ [Next]_vars => SubscribeInv'
  BY NextRestore
<1>3. SubscribeInv => SubscriptionsRestored
  BY DEF SubscribeInv
<1> QED BY <1>1, <1>2, <1>3, PTL DEF Spec

=============================================================================
