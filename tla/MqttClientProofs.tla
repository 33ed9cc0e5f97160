-------------------------- MODULE MqttClientProofs --------------------------
(***************************************************************************)
(* Proofs about MqttClient, for any number of attempts, messages and       *)
(* topics, and any limit.                                                  *)
(***************************************************************************)
EXTENDS MqttClient, TLAPS

(* What makes the type invariant inductive: an attempt flushes only a      *)
(* cache that is there, the timers that are due are queued, and an attempt *)
(* that subscribes has a topic.                                            *)
CacheOfStore == \A a \in Attempts : cache[a] => store # None

DueQueued == due # None => due \in 0 .. Len(timers)

ItemOfLoop ==
  \A a \in Attempts : pc[a] \in {"subwrite", "suback"} => item[a] \in Topics

TypeInv == TypeOK /\ CacheOfStore /\ DueQueued /\ ItemOfLoop

Readies == [pending : BOOLEAN,
            promise : {"none", "pending", "resolved", "rejected"}]

TimerKinds == {"connect", "sockclose"}

ConnStates == {"closed", "connecting", "up", "broken", "eof"}

Places == {"idle"} \cup Waits \cup Ready

-----------------------------------------------------------------------------
(* The parts of the type invariant that proofs need apart from the rest *)

LEMMA Typed ==
  ASSUME TypeInv
  PROVE  /\ store \in Seq(Msgs) \cup {None}
         /\ timers \in Seq(TimerKinds)
         /\ outgoing \in [Keys -> Owners \cup {None}]
         /\ socket \in Attempts \cup {None}
         /\ on \in [Attempts -> Attempts \cup {None}]
         /\ to \in [Msgs -> Attempts \cup {None}]
         /\ by \in [Msgs -> Owners \cup {None}]
BY DEF TypeInv, TypeOK, TimerKinds

LEMMA ConnTyped == ASSUME TypeInv PROVE conn \in [Attempts -> Conns]
BY DEF TypeInv, TypeOK

LEMMA PcTyped == ASSUME TypeInv PROVE pc \in [Attempts -> Places]
BY DEF TypeInv, TypeOK, Places

LEMMA PhaseTyped == ASSUME TypeInv PROVE phase \in [Msgs -> Phases]
BY DEF TypeInv, TypeOK

-----------------------------------------------------------------------------
(* Types of the operators *)

LEMMA KeysTyped ==
  /\ Connect \in Keys
  /\ \A m \in Msgs : Publish(m) \in Keys
  /\ \A t \in Topics, o \in Owners : Subscribe(t, o) \in Keys
  /\ \A t \in Topics : Unsubscribe(t) \in Keys
BY DEF Keys

LEMMA GoneTyped == Gone \in Conns /\ [Gone EXCEPT !.state = "eof"] \in Conns
BY DEF Gone, Conns

LEMMA CloseCurrentTyped ==
  ASSUME socket \in Attempts \cup {None},
         NEW cs \in [Attempts -> Conns]
  PROVE  CloseCurrent(cs) \in [Attempts -> Conns]
BY GoneTyped DEF CloseCurrent

LEMMA OnSocketCloseTyped ==
  ASSUME socket \in Attempts \cup {None},
         NEW cs \in [Attempts -> Conns], OnSocketClose(cs)
  PROVE  /\ readyState' \in States
         /\ socket' \in Attempts \cup {None}
         /\ conn' \in [Attempts -> Conns]
BY CloseCurrentTyped DEF OnSocketClose, States

LEMMA OnWireTyped ==
  ASSUME conn \in [Attempts -> Conns],
         NEW s \in Attempts \cup {None}, NEW k \in Keys
  PROVE  OnWire(s, k) \in [Attempts -> Conns]
BY DEF OnWire, Conns

LEMMA BrokenTyped ==
  ASSUME conn \in [Attempts -> Conns], NEW s \in Attempts \cup {None}
  PROVE  Broken(s) \in [Attempts -> Conns]
BY DEF Broken, Conns

LEMMA ConnStateTyped ==
  ASSUME conn \in [Attempts -> Conns], NEW s \in Attempts,
         NEW st \in ConnStates
  PROVE  [conn EXCEPT ![s].state = st] \in [Attempts -> Conns]
BY DEF Conns, ConnStates

LEMMA ConnSubsTyped ==
  ASSUME conn \in [Attempts -> Conns], NEW s \in Attempts,
         NEW X \in SUBSET Topics, NEW K \in SUBSET Keys
  PROVE  [conn EXCEPT ![s].subs = X, ![s].inflight = K] \in [Attempts -> Conns]
BY DEF Conns

LEMMA SubscribedTyped ==
  ASSUME conn \in [Attempts -> Conns], NEW s \in Attempts,
         NEW t \in Topics, NEW k \in Keys
  PROVE  /\ [conn EXCEPT ![s].subs = @ \cup {t}, ![s].inflight = @ \cup {k}]
              \in [Attempts -> Conns]
         /\ [conn EXCEPT ![s].subs = @ \ {t}, ![s].inflight = @ \cup {k}]
              \in [Attempts -> Conns]
<1>1. /\ conn[s].subs \cup {t} \in SUBSET Topics
      /\ conn[s].subs \ {t} \in SUBSET Topics
      /\ conn[s].inflight \cup {k} \in SUBSET Keys
  BY DEF Conns
<1> QED BY <1>1, ConnSubsTyped

LEMMA ConnAcksTyped ==
  ASSUME conn \in [Attempts -> Conns], NEW s \in Attempts, NEW k \in Keys
  PROVE  /\ [conn EXCEPT ![s].inflight = @ \ {k}] \in [Attempts -> Conns]
         /\ [conn EXCEPT ![s].inflight = @ \ {k},
                         ![s].accepted = @ \/ k = Connect]
              \in [Attempts -> Conns]
<1>1. /\ conn[s].inflight \ {k} \in SUBSET Keys
      /\ (conn[s].accepted \/ k = Connect) \in BOOLEAN
  BY DEF Conns
<1>2. ASSUME NEW K \in SUBSET Keys, NEW b \in BOOLEAN
      PROVE  /\ [conn EXCEPT ![s].inflight = K] \in [Attempts -> Conns]
             /\ [conn EXCEPT ![s].inflight = K, ![s].accepted = b]
                  \in [Attempts -> Conns]
  BY DEF Conns
<1> QED BY <1>1, <1>2

LEMMA CreatePromiseTyped ==
  ASSUME outgoing \in [Keys -> Owners \cup {None}],
         NEW k \in Keys, NEW o \in Owners \cup {None}, CreatePromise(k, o)
  PROVE  outgoing' \in [Keys -> Owners \cup {None}]
BY DEF CreatePromise

LEMMA CloseEndTyped ==
  ASSUME timers \in Seq(TimerKinds), CloseEnd
  PROVE  /\ readyState' \in States
         /\ store' = None
         /\ cache' \in [Attempts -> BOOLEAN]
         /\ checkTimer' \in BOOLEAN
         /\ timers' \in Seq(TimerKinds)
<1>1. timers' \in Seq(TimerKinds)
  BY DEF CloseEnd, TimerKinds
<1>2. cache' \in [Attempts -> BOOLEAN]
  BY DEF CloseEnd
<1> QED BY <1>1, <1>2 DEF CloseEnd, States

LEMMA TimerFiresTyped ==
  ASSUME timers \in Seq(TimerKinds), due \in Nat \cup {None}, DueQueued,
         NEW kind, TimerFires(kind)
  PROVE  /\ timers' \in Seq(TimerKinds)
         /\ due' \in Nat
         /\ due' \in 0 .. Len(timers')
BY DEF TimerFires, InTimers, DueQueued, TimerKinds

LEMMA DrainsTyped == ASSUME Drains PROVE draining' \in BOOLEAN
BY DEF Drains

-----------------------------------------------------------------------------
(* The initial state *)

LEMMA InitTyped == Init => TypeInv
<1> SUFFICES ASSUME Init PROVE TypeInv
  OBVIOUS
<1>1. conn \in [Attempts -> Conns] /\ outgoing \in [Keys -> Owners \cup {None}]
  BY GoneTyped DEF Init
<1>2. store \in Seq(Msgs) \cup {None} /\ timers \in Seq(TimerKinds)
  BY DEF Init
<1>3. ready \in Readies
  BY DEF Init, Readies
<1>4. TypeOK
  BY <1>1, <1>2, <1>3 DEF Init, TypeOK, States, Phases, TimerKinds, Readies
<1> QED
  BY <1>4 DEF Init, TypeInv, CacheOfStore, DueQueued, ItemOfLoop

-----------------------------------------------------------------------------
(* Every step, group by group, keeps the types *)

(* The application's calls. *)
LEMMA ApplicationTyped ==
  ASSUME TypeInv, Application
  PROVE  TypeOK'
<1>0. TypeOK /\ CacheOfStore /\ DueQueued /\ ItemOfLoop
  BY DEF TypeInv
<1>1. CASE Open
  <2>1. ready' \in Readies
    BY <1>0, <1>1 DEF TypeOK, Open, Reconnect, Readies
  <2>2. timers' \in Seq(TimerKinds)
    BY <1>0, <1>1 DEF TypeOK, Open, Reconnect, TimerKinds
  <2> QED
    BY <1>0, <1>1, <2>1, <2>2
       DEF TypeOK, Open, attempt, message, Readies, TimerKinds
<1>2. CASE Close
  <2>1. outgoing' \in [Keys -> Owners \cup {None}]
    BY <1>0, <1>2 DEF Close
  <2>2. ready' \in Readies
    BY <1>0, <1>2 DEF TypeOK, Close, Readies
  <2>3. pc' \in [Attempts -> Places]
    BY <1>0, <1>2, PcTyped DEF Close, Places, Ready
  <2>4. phase' \in [Msgs -> Phases]
    BY <1>0, <1>2, PhaseTyped DEF Close, Discard, Phases
  <2>5. /\ readyState' \in States
        /\ store' \in Seq(Msgs) \cup {None}
        /\ cache' \in [Attempts -> BOOLEAN]
        /\ checkTimer' \in BOOLEAN
        /\ timers' \in Seq(TimerKinds)
        /\ closing' \in BOOLEAN
    BY <1>0, <1>2, CloseEndTyped DEF TypeOK, Close, TimerKinds
  <2> QED
    BY <1>0, <1>2, <2>1, <2>2, <2>3, <2>4, <2>5
       DEF TypeOK, Close, Places, Readies, TimerKinds
<1>3. CASE CloseFinish
  <2>1. phase' \in [Msgs -> Phases]
    BY <1>0, <1>3, PhaseTyped DEF CloseFinish, Discard, Phases
  <2>2. /\ readyState' \in States
        /\ store' \in Seq(Msgs) \cup {None}
        /\ cache' \in [Attempts -> BOOLEAN]
        /\ checkTimer' \in BOOLEAN
        /\ timers' \in Seq(TimerKinds)
    BY <1>0, <1>3, CloseEndTyped DEF TypeOK, CloseFinish, TimerKinds
  <2> QED
    BY <1>0, <1>3, <2>1, <2>2
       DEF TypeOK, CloseFinish, TimerKinds
<1>4. ASSUME NEW m \in Msgs, PublishOffline(m)
      PROVE  TypeOK'
  <2>1. phase' \in [Msgs -> Phases]
    BY <1>0, <1>4, PhaseTyped DEF PublishOffline, Phases
  <2>2. store' = store \/ (store # None /\ store' = Append(store, m))
    BY <1>0, <1>4 DEF PublishOffline
  <2>3. store \in Seq(Msgs) \cup {None} /\ m \in Msgs
    BY <1>4, Typed
  <2>4. store' \in Seq(Msgs) \cup {None}
    BY <2>2, <2>3
  <2> QED
    BY <1>0, <1>4, <2>1, <2>2, <2>3, <2>4
       DEF TypeOK, PublishOffline, loop, attempt
<1>5. ASSUME NEW m \in Msgs, PublishOnline(m)
      PROVE  TypeOK'
  BY <1>0, <1>5 DEF TypeOK, PublishOnline, SendPublish, client, loop, attempt,
     Phases, Owners
<1>6. ASSUME NEW t \in Topics, UserSubscribe(t)
      PROVE  TypeOK'
  <2>1. /\ Subscribe(t, "user") \in Keys
        /\ "user" \in Owners \cup {None}
    BY KeysTyped DEF Owners
  <2>2. \/ conn' = conn
        \/ conn' = Broken(socket)
        \/ /\ socket \in Attempts
           /\ conn' = [conn EXCEPT ![socket].subs = @ \cup {t},
                                  ![socket].inflight = @ \cup {Subscribe(t, "user")}]
    BY <1>0, <1>6, Typed DEF UserSubscribe
  <2>3. ASSUME socket \in Attempts
       PROVE  [conn EXCEPT ![socket].subs = @ \cup {t},
                           ![socket].inflight = @ \cup {Subscribe(t, "user")}]
                \in [Attempts -> Conns]
    BY <1>0, <1>6, <2>1, ConnTyped, SubscribedTyped
  <2>4. conn' \in [Attempts -> Conns]
    BY <2>2, <2>3, BrokenTyped, ConnTyped, Typed
  <2>5. outgoing' \in [Keys -> Owners \cup {None}]
    BY <1>0, <1>6, <2>1, CreatePromiseTyped, Typed DEF UserSubscribe
  <2> QED
    BY <1>0, <1>6, <2>1, <2>2, <2>3, <2>4, <2>5
       DEF TypeOK, UserSubscribe, loop, attempt, message
<1>7. ASSUME NEW t \in Topics, UserUnsubscribe(t)
      PROVE  TypeOK'
  <2>1. /\ Unsubscribe(t) \in Keys
        /\ "user" \in Owners \cup {None}
    BY KeysTyped DEF Owners
  <2>2. \/ conn' = conn
        \/ conn' = Broken(socket)
        \/ /\ socket \in Attempts
           /\ conn' = [conn EXCEPT ![socket].subs = @ \ {t},
                                  ![socket].inflight = @ \cup {Unsubscribe(t)}]
    BY <1>0, <1>7, Typed DEF UserUnsubscribe
  <2>3. ASSUME socket \in Attempts
       PROVE  [conn EXCEPT ![socket].subs = @ \ {t},
                           ![socket].inflight = @ \cup {Unsubscribe(t)}]
                \in [Attempts -> Conns]
    BY <1>0, <1>7, <2>1, ConnTyped, SubscribedTyped
  <2>4. conn' \in [Attempts -> Conns]
    BY <2>2, <2>3, BrokenTyped, ConnTyped, Typed
  <2>5. outgoing' \in [Keys -> Owners \cup {None}]
    BY <1>0, <1>7, <2>1, CreatePromiseTyped, Typed DEF UserUnsubscribe
  <2> QED
    BY <1>0, <1>7, <2>1, <2>2, <2>3, <2>4, <2>5
       DEF TypeOK, UserUnsubscribe, loop, attempt, message
<1> QED
  BY <1>1, <1>2, <1>3, <1>4, <1>5, <1>6, <1>7 DEF Application

(* The timers. *)
LEMMA TimersTyped ==
  ASSUME TypeInv, Timers
  PROVE  TypeOK'
<1>0. TypeOK /\ CacheOfStore /\ DueQueued /\ ItemOfLoop
  BY DEF TypeInv
<1>1. CASE BeginTimers \/ EndTimers
  BY <1>0, <1>1 DEF TypeOK, BeginTimers, EndTimers, attempt, message
<1>2. CASE DeferredClose
  <2>1. timers' \in Seq(TimerKinds) /\ due' \in Nat
    BY <1>0, <1>2, TimerFiresTyped DEF TypeOK, DeferredClose, TimerKinds
  <2>2. /\ readyState' \in States
        /\ socket' \in Attempts \cup {None}
        /\ conn' \in [Attempts -> Conns]
    BY <1>0, <1>2, OnSocketCloseTyped DEF TypeOK, DeferredClose
  <2> QED
    BY <1>0, <1>2, <2>1, <2>2
       DEF TypeOK, DeferredClose, attempt, message, TimerKinds
<1>3. CASE CheckReconnect
  <2>1. ready' \in Readies
    BY <1>0, <1>3 DEF TypeOK, CheckReconnect, Reconnect, Readies
  <2>2. timers' \in Seq(TimerKinds)
    BY <1>0, <1>3 DEF TypeOK, CheckReconnect, Reconnect, TimerKinds
  <2> QED
    BY <1>0, <1>3, <2>1, <2>2
       DEF TypeOK, CheckReconnect, attempt, message, Readies, TimerKinds
<1>4. CASE KeepAliveTimeout
  <2>1. /\ readyState' \in States
        /\ socket' \in Attempts \cup {None}
        /\ conn' \in [Attempts -> Conns]
    BY <1>0, <1>4, OnSocketCloseTyped DEF TypeOK, KeepAliveTimeout
  <2> QED
    BY <1>0, <1>4, <2>1
       DEF TypeOK, KeepAliveTimeout, loop, attempt, message
<1>5. ASSUME NEW a \in Attempts, StartAttempt(a)
      PROVE  TypeOK'
  <2>1. timers' \in Seq(TimerKinds) /\ due' \in Nat
    BY <1>0, <1>5, TimerFiresTyped DEF TypeOK, StartAttempt, TimerKinds
  <2>2. pc' \in [Attempts -> Places]
    BY <1>0, <1>5, PcTyped DEF StartAttempt, Places, Waits
  <2> QED
    BY <1>0, <1>5, <2>1, <2>2
       DEF TypeOK, StartAttempt, message, TimerKinds, Places, States
<1>6. ASSUME NEW a \in Attempts, AckTimeout(a)
      PROVE  TypeOK'
  <2>1. pc' \in [Attempts -> Places]
    BY <1>0, <1>6, PcTyped DEF AckTimeout, Places, Ready
  <2> QED
    BY <1>0, <1>6, <2>1
       DEF TypeOK, AckTimeout, client, loop, message, Places
<1>7. ASSUME NEW m \in Msgs, PubackTimeout(m)
      PROVE  TypeOK'
  <2>1. pc' \in [Attempts -> Places]
    BY <1>0, <1>7, PcTyped DEF PubackTimeout, Places, Ready
  <2>2. phase' \in [Msgs -> Phases]
    BY <1>0, <1>7, PhaseTyped DEF PubackTimeout, Phases
  <2> QED
    BY <1>0, <1>7, <2>1, <2>2
       DEF TypeOK, PubackTimeout, client, loop, Places
<1> QED
  BY <1>1, <1>2, <1>3, <1>4, <1>5, <1>6, <1>7 DEF Timers

(* The microtasks of an attempt. *)
LEMMA MicrotaskTyped ==
  ASSUME TypeInv, NEW a \in Attempts, Microtask(a)
  PROVE  TypeOK'
<1>0. TypeOK /\ CacheOfStore /\ DueQueued /\ ItemOfLoop
  BY DEF TypeInv
<1>1. CASE SendConnect(a)
  <2>1. pc' \in [Attempts -> Places]
    BY <1>0, <1>1, PcTyped DEF SendConnect, Places, Waits
  <2> QED
    BY <1>0, <1>1, <2>1
       DEF TypeOK, SendConnect, Drains, client, message, Places
<1>2. CASE Connected(a)
  <2>1. pc' \in [Attempts -> Places]
    <3>1. \E p \in {"idle", "resub"} : pc' = [pc EXCEPT ![a] = p]
      BY <1>2 DEF Connected
    <3>2. {"idle", "resub"} \subseteq Places
      BY DEF Places, Ready
    <3> QED BY <3>1, <3>2, PcTyped
  <2>2. readyState' \in States
    BY <1>0, <1>2 DEF TypeOK, Connected, States
  <2>3. rest' \in [Attempts -> SUBSET Topics]
    <3>1. rest \in [Attempts -> SUBSET Topics] /\ topics \in SUBSET Topics
      BY <1>0 DEF TypeOK
    <3>2. rest' = rest \/ rest' = [rest EXCEPT ![a] = topics]
      BY <1>2 DEF Connected
    <3> QED BY <3>1, <3>2
  <2>4. draining' \in BOOLEAN
    BY <1>0, <1>2 DEF TypeOK, Connected, Drains
  <2>5. UNCHANGED <<checkTimer, parser, store, topics, outgoing, ready, closing, timers,
                    due, socket, conn, on, item, cache, phase, by, to, copies>>
    BY <1>2 DEF Connected, message
  <2> QED BY <1>0, <2>1, <2>2, <2>3, <2>4, <2>5 DEF TypeOK, Places
<1>3. CASE Resubscribe(a)
  <2>1. pc' \in [Attempts -> Places]
    BY <1>0, <1>3, PcTyped DEF Resubscribe, Places, Waits
  <2>2. /\ rest \in [Attempts -> SUBSET Topics]
        /\ item \in [Attempts -> Topics \cup {None}]
    BY <1>0, <1>3 DEF TypeOK
  <2>3. /\ item' \in [Attempts -> Topics \cup {None}]
        /\ rest' \in [Attempts -> SUBSET Topics]
    BY <1>0, <1>3, <2>2 DEF Resubscribe
  <2>4. on' \in [Attempts -> Attempts \cup {None}]
    BY <1>0, <1>3 DEF TypeOK, Resubscribe
  <2> QED
    BY <1>0, <1>3, <2>1, <2>2, <2>3, <2>4
       DEF TypeOK, Resubscribe, Drains, client, message, Places
<1>4. CASE ResubscribeEnd(a)
  <2>1. pc' \in [Attempts -> Places]
    BY <1>0, <1>4, PcTyped DEF ResubscribeEnd, Places, Ready
  <2> QED
    BY <1>0, <1>4, <2>1
       DEF TypeOK, ResubscribeEnd, Drains, client, message, Places
<1>5. CASE FlushOne(a)
  <2>1. pc' \in [Attempts -> Places]
    BY <1>0, <1>5, PcTyped DEF FlushOne, Places, Waits
  <2>2. store \in Seq(Msgs) /\ store # <<>>
    BY <1>0, <1>5 DEF TypeOK, FlushOne, CacheOfStore
  <2>3. store' \in Seq(Msgs) /\ Head(store) \in Msgs
    BY <1>0, <1>5, <2>2 DEF FlushOne
  <2> QED
    BY <1>0, <1>5, <2>1, <2>2, <2>3
       DEF TypeOK, FlushOne, SendPublish, Drains, Places, Phases, Owners
<1>6. CASE FlushEnd(a)
  <2>1. pc' \in [Attempts -> Places]
    BY <1>0, <1>6, PcTyped DEF FlushEnd, Places
  <2>2. ready' \in Readies
    BY <1>0, <1>6 DEF TypeOK, FlushEnd, SettleReady, Readies
  <2> QED
    BY <1>0, <1>6, <2>1, <2>2
       DEF TypeOK, FlushEnd, Drains, message, Places, Readies
<1>7. CASE Catch(a)
  <2>1. pc' \in [Attempts -> Places]
    BY <1>0, <1>7, PcTyped DEF Catch, Places
  <2>2. ready' \in Readies
    BY <1>0, <1>7 DEF TypeOK, Catch, SettleReady, Readies
  <2>3. /\ readyState' \in States
        /\ socket' \in Attempts \cup {None}
        /\ conn' \in [Attempts -> Conns]
    BY <1>0, <1>7, OnSocketCloseTyped DEF TypeOK, Catch
  <2> QED
    BY <1>0, <1>7, <2>1, <2>2, <2>3
       DEF TypeOK, Catch, Drains, message, Places, Readies
<1> QED
  BY <1>1, <1>2, <1>3, <1>4, <1>5, <1>6, <1>7 DEF Microtask

(* The awaits of an attempt. *)
LEMMA AttemptIOTyped ==
  ASSUME TypeInv, NEW a \in Attempts, AttemptIO(a)
  PROVE  TypeOK'
<1>0. TypeOK /\ CacheOfStore /\ DueQueued /\ ItemOfLoop
  BY DEF TypeInv
<1>1. CASE LookupDone(a)
  <2>1. pc' \in [Attempts -> Places]
    BY <1>0, <1>1, PcTyped DEF LookupDone, Places, Waits
  <2>2. conn' = conn \/ conn' = [conn EXCEPT ![a].state = "connecting"]
    BY <1>0, <1>1 DEF LookupDone
  <2>3. conn' \in [Attempts -> Conns]
    BY <1>0, <1>1, <2>2, ConnStateTyped, ConnTyped, Typed DEF ConnStates
  <2> QED
    BY <1>0, <1>1, <2>1, <2>2, <2>3
       DEF TypeOK, LookupDone, client, loop, message, Places
<1>2. CASE LookupFailed(a)
  <2>1. pc' \in [Attempts -> Places]
    BY <1>0, <1>2, PcTyped DEF LookupFailed, Places, Ready
  <2> QED
    BY <1>0, <1>2, <2>1
       DEF TypeOK, LookupFailed, client, loop, message, Places
<1>3. CASE TcpConnected(a)
  <2>1. pc' \in [Attempts -> Places]
    BY <1>0, <1>3, PcTyped DEF TcpConnected, Places, Ready
  <2>2. conn' = [conn EXCEPT ![a].state = "up"]
    BY <1>0, <1>3 DEF TcpConnected
  <2>3. conn' \in [Attempts -> Conns]
    BY <1>0, <1>3, <2>2, ConnStateTyped, ConnTyped, Typed DEF ConnStates
  <2> QED
    BY <1>0, <1>3, <2>1, <2>2, <2>3
       DEF TypeOK, TcpConnected, client, loop, message, Places
<1>4. CASE TcpFailed(a)
  <2>1. pc' \in [Attempts -> Places]
    BY <1>0, <1>4, PcTyped DEF TcpFailed, Places, Ready
  <2> QED
    BY <1>0, <1>4, <2>1
       DEF TypeOK, TcpFailed, client, loop, message, Places
<1>5. CASE ConnectWritten(a)
  <2>1. pc' \in [Attempts -> Places]
    BY <1>0, <1>5, PcTyped DEF ConnectWritten, Places, Waits
  <2>2. conn' \in [Attempts -> Conns]
    BY <1>0, <1>5, OnWireTyped, KeysTyped, ConnTyped, Typed DEF ConnectWritten
  <2>3. outgoing' \in [Keys -> Owners \cup {None}]
    BY <1>0, <1>5, CreatePromiseTyped, KeysTyped, Typed DEF ConnectWritten, Owners
  <2>4. on' \in [Attempts -> Attempts \cup {None}]
    BY <1>0, <1>5 DEF TypeOK, ConnectWritten
  <2>5. UNCHANGED <<readyState, checkTimer, parser, store, topics, ready, closing,
                    timers, due, draining, socket, item, rest, cache, phase, by, to,
                    copies>>
    BY <1>5 DEF ConnectWritten, loop, message
  <2> QED BY <1>0, <2>1, <2>2, <2>3, <2>4, <2>5 DEF TypeOK, Places
<1>6. CASE SubscribeWritten(a)
  <2>1. pc' \in [Attempts -> Places]
    BY <1>0, <1>6, PcTyped DEF SubscribeWritten, Places, Waits
  <2>2. /\ item[a] \in Topics
        /\ Subscribe(item[a], a) \in Keys
    BY <1>0, <1>6, KeysTyped DEF ItemOfLoop, SubscribeWritten, Owners
  <2>3. conn' \in [Attempts -> Conns]
    BY <1>0, <1>6, <2>2, SubscribedTyped, ConnTyped, Typed DEF SubscribeWritten
  <2>4. outgoing' \in [Keys -> Owners \cup {None}]
    BY <1>0, <1>6, <2>2, CreatePromiseTyped, Typed DEF SubscribeWritten, Owners
  <2> QED
    BY <1>0, <1>6, <2>1, <2>2, <2>3, <2>4
       DEF TypeOK, SubscribeWritten, loop, message, Places
<1>7. CASE WriteFailed(a)
  <2>1. pc' \in [Attempts -> Places]
    BY <1>0, <1>7, PcTyped DEF WriteFailed, Places, Ready
  <2>2. conn' \in [Attempts -> Conns]
    BY <1>0, <1>7, BrokenTyped, ConnTyped, Typed DEF WriteFailed
  <2>3. on' \in [Attempts -> Attempts \cup {None}]
    BY <1>0, <1>7 DEF TypeOK, WriteFailed
  <2>4. UNCHANGED <<client, loop, socket, item, rest, cache, message>>
    BY <1>7 DEF WriteFailed
  <2> QED
    BY <1>0, <2>1, <2>2, <2>3, <2>4 DEF TypeOK, client, loop, message, Places
<1> QED
  BY <1>1, <1>2, <1>3, <1>4, <1>5, <1>6, <1>7 DEF AttemptIO

(* PUBLISH packets. *)
LEMMA SendingTyped ==
  ASSUME TypeInv, NEW m \in Msgs, PublishWritten(m) \/ PublishFailed(m)
  PROVE  TypeOK'
<1>0. TypeOK /\ CacheOfStore /\ DueQueued /\ ItemOfLoop
  BY DEF TypeInv
<1>1. CASE PublishWritten(m)
  <2>1. pc' \in [Attempts -> Places]
    BY <1>0, <1>1, PcTyped DEF PublishWritten, Places, Ready
  <2>2. phase' \in [Msgs -> Phases]
    BY <1>0, <1>1, PhaseTyped DEF PublishWritten, Phases
  <2>3. /\ Publish(m) \in Keys
        /\ to[m] \in Attempts \cup {None}
        /\ by[m] \in Owners \cup {None}
    BY <1>0, <1>1, KeysTyped DEF TypeOK
  <2>4. conn' \in [Attempts -> Conns]
    BY <1>0, <1>1, <2>3, OnWireTyped, ConnTyped, Typed DEF PublishWritten
  <2>5. outgoing' \in [Keys -> Owners \cup {None}]
    BY <1>0, <1>1, <2>3, CreatePromiseTyped, Typed DEF PublishWritten
  <2>6. copies' \in [Msgs -> Nat] /\ to' \in [Msgs -> Attempts \cup {None}]
    BY <1>0, <1>1 DEF TypeOK, PublishWritten
  <2> QED
    BY <1>0, <1>1, <2>1, <2>2, <2>3, <2>4, <2>5, <2>6
       DEF TypeOK, PublishWritten, loop, Places
<1>2. CASE PublishFailed(m)
  <2>1. pc' \in [Attempts -> Places]
    BY <1>0, <1>2, PcTyped DEF PublishFailed, Places, Ready
  <2>2. phase' \in [Msgs -> Phases]
    BY <1>0, <1>2, PhaseTyped DEF PublishFailed, Phases
  <2>3. conn' \in [Attempts -> Conns]
    BY <1>0, <1>2, BrokenTyped, ConnTyped, Typed DEF PublishFailed
  <2> QED
    BY <1>0, <1>2, <2>1, <2>2, <2>3
       DEF TypeOK, PublishFailed, client, loop, Places
<1> QED
  BY <1>1, <1>2

(* The broker and the network. *)
LEMMA NetworkTyped ==
  ASSUME TypeInv, NEW s \in Attempts,
         \/ \E k \in Keys : Acknowledge(s, k)
         \/ Refuse(s) \/ SocketEnds(s) \/ ReadBufferFull(s)
  PROVE  TypeOK'
<1>0. TypeOK /\ CacheOfStore /\ DueQueued /\ ItemOfLoop
  BY DEF TypeInv
<1>1. ASSUME NEW k \in Keys, Acknowledge(s, k)
      PROVE  TypeOK'
  <2>1. pc' \in [Attempts -> Places]
    BY <1>0, <1>1, PcTyped DEF Acknowledge, Places, Ready
  <2>2. phase' \in [Msgs -> Phases]
    BY <1>0, <1>1, PhaseTyped DEF Acknowledge, Phases
  <2>3. conn' \in [Attempts -> Conns]
    BY <1>0, <1>1, ConnAcksTyped, ConnTyped, Typed DEF Acknowledge
  <2>4. outgoing' \in [Keys -> Owners \cup {None}]
    BY <1>0, <1>1, Typed DEF Acknowledge
  <2> QED
    BY <1>0, <1>1, <2>1, <2>2, <2>3, <2>4
       DEF TypeOK, Acknowledge, loop, Places
<1>2. CASE Refuse(s)
  <2>1. pc' \in [Attempts -> Places]
    BY <1>0, <1>2, PcTyped DEF Refuse, Places, Ready
  <2>2. conn' \in [Attempts -> Conns]
    BY <1>0, <1>2, ConnAcksTyped, KeysTyped, ConnTyped, Typed DEF Refuse
  <2>3. outgoing' \in [Keys -> Owners \cup {None}]
    BY <1>0, <1>2, Typed DEF Refuse
  <2> QED
    BY <1>0, <1>2, <2>1, <2>2, <2>3
       DEF TypeOK, Refuse, loop, message, Places
<1>3. CASE SocketEnds(s)
  <2>1. [conn EXCEPT ![s] = [Gone EXCEPT !.state = "eof"]] \in [Attempts -> Conns]
    BY <1>0, <1>3, GoneTyped DEF TypeOK
  <2>2. /\ readyState' \in States
        /\ socket' \in Attempts \cup {None}
        /\ conn' \in [Attempts -> Conns]
    BY <1>0, <1>3, <2>1, OnSocketCloseTyped DEF TypeOK, SocketEnds
  <2> QED
    BY <1>0, <1>3, <2>1, <2>2
       DEF TypeOK, SocketEnds, loop, attempt, message
<1>4. CASE ReadBufferFull(s)
  <2>1. /\ readyState' \in States
        /\ socket' \in Attempts \cup {None}
        /\ conn' \in [Attempts -> Conns]
    BY <1>0, <1>4, OnSocketCloseTyped DEF TypeOK, ReadBufferFull
  <2> QED
    BY <1>0, <1>4, <2>1
       DEF TypeOK, ReadBufferFull, loop, attempt, message
<1> QED
  BY <1>1, <1>2, <1>3, <1>4

LEMMA NextTypeOK == TypeInv /\ [Next]_vars => TypeOK'
<1> SUFFICES ASSUME TypeInv, [Next]_vars PROVE TypeOK'
  OBVIOUS
<1>1. CASE Next
  BY <1>1, ApplicationTyped, TimersTyped, MicrotaskTyped, AttemptIOTyped,
     SendingTyped, NetworkTyped DEF Next, Sending, Network
<1>2. CASE UNCHANGED vars
  BY <1>2 DEF vars, client, loop, attempt, message, TypeInv, TypeOK
<1> QED BY <1>1, <1>2

-----------------------------------------------------------------------------
(* What each group of actions leaves alone *)

LEMMA TimersFrame ==
  Timers => UNCHANGED <<topics, outgoing, store, parser, closing, draining,
                        item, rest, cache, on, by, to, copies>>
<1> SUFFICES ASSUME Timers
             PROVE  UNCHANGED <<topics, outgoing, store, parser, closing,
                                draining, item, rest, cache, on, by, to, copies>>
  OBVIOUS
<1>1. CASE BeginTimers \/ EndTimers \/ DeferredClose
  BY <1>1 DEF BeginTimers, EndTimers, DeferredClose, attempt,
     message
<1>2. CASE CheckReconnect \/ KeepAliveTimeout
  BY <1>2 DEF CheckReconnect, KeepAliveTimeout, loop, attempt, message
<1>3. ASSUME NEW a \in Attempts, StartAttempt(a) \/ AckTimeout(a)
      PROVE  UNCHANGED <<topics, outgoing, store, parser, closing, draining,
                         item, rest, cache, on, by, to, copies>>
  BY <1>3 DEF StartAttempt, AckTimeout, client, loop, message
<1>4. ASSUME NEW m \in Msgs, PubackTimeout(m)
      PROVE  UNCHANGED <<topics, outgoing, store, parser, closing, draining,
                         item, rest, cache, on, by, to, copies>>
  BY <1>4 DEF PubackTimeout, client, loop
<1> QED BY <1>1, <1>2, <1>3, <1>4 DEF Timers

LEMMA MicrotaskFrame ==
  ASSUME NEW a \in Attempts, Microtask(a)
  PROVE  UNCHANGED <<checkTimer, parser, topics, outgoing, closing, timers, due,
                     copies>>
BY DEF Microtask, SendConnect, Connected, Resubscribe, ResubscribeEnd, FlushOne,
   FlushEnd, Catch, SendPublish, client, message

LEMMA AttemptIOFrame ==
  ASSUME NEW a \in Attempts, AttemptIO(a)
  PROVE  UNCHANGED <<readyState, checkTimer, parser, store, topics, ready, closing,
                     timers, due, draining, item, rest, cache, phase, by, to,
                     copies>>
BY DEF AttemptIO, LookupDone, LookupFailed, TcpConnected, TcpFailed,
   ConnectWritten, SubscribeWritten, WriteFailed, client, loop, message

LEMMA SendingFrame ==
  ASSUME NEW m \in Msgs, PublishWritten(m) \/ PublishFailed(m)
  PROVE  UNCHANGED <<readyState, checkTimer, parser, store, topics, ready, closing,
                     timers, due, draining, socket, on, item, rest, cache, by>>
BY DEF PublishWritten, PublishFailed, client, loop

LEMMA NetworkFrame ==
  Network => UNCHANGED <<checkTimer, parser, store, topics, ready, closing,
                         timers, due, draining, on, item, rest, cache, by, to,
                         copies>>
BY DEF Network, Acknowledge, Refuse, SocketEnds, ReadBufferFull, loop, attempt,
   message

-----------------------------------------------------------------------------
(* The rest of the invariant *)

LEMMA NextCacheOfStore == TypeInv /\ [Next]_vars => CacheOfStore'
<1> SUFFICES ASSUME TypeInv, [Next]_vars PROVE CacheOfStore'
  OBVIOUS
<1>0. /\ CacheOfStore /\ store \in Seq(Msgs) \cup {None}
      /\ cache \in [Attempts -> BOOLEAN] /\ None \notin Seq(Msgs)
  BY ConstantsAssumption DEF TypeInv, TypeOK
<1>1. CASE Open
  <2>1. store' \in Seq(Msgs)
    BY <1>1 DEF Open
  <2> QED BY <1>0, <2>1 DEF CacheOfStore
<1>2. CASE Close \/ CloseFinish
  BY <1>0, <1>2 DEF Close, CloseFinish, CloseEnd, CacheOfStore
<1>3. ASSUME NEW m \in Msgs, PublishOffline(m) PROVE CacheOfStore'
  <2>1. /\ cache' = cache
        /\ store' = store \/ (store # None /\ store' = Append(store, m))
    BY <1>3 DEF PublishOffline, attempt
  <2>2. Append(store, m) # None \/ store = None
    BY <1>0, <1>3
  <2> QED BY <1>0, <2>1, <2>2 DEF CacheOfStore
<1>4. ASSUME NEW a \in Attempts, Microtask(a) PROVE CacheOfStore'
  <2>1. CASE ResubscribeEnd(a)
    BY <1>0, <1>4, <2>1 DEF ResubscribeEnd, client, CacheOfStore
  <2>2. CASE FlushOne(a)
    <3>1. store \in Seq(Msgs) /\ store # <<>> /\ store' = Tail(store)
      BY <1>0, <1>4, <2>2 DEF FlushOne, CacheOfStore
    <3>2. store' \in Seq(Msgs)
      BY <3>1
    <3> QED BY <1>0, <3>2 DEF CacheOfStore
  <2>3. CASE FlushEnd(a) \/ Catch(a)
    BY <1>0, <1>4, <2>3 DEF FlushEnd, Catch, CacheOfStore
  <2>4. CASE SendConnect(a) \/ Connected(a) \/ Resubscribe(a)
    BY <1>0, <1>4, <2>4 DEF SendConnect, Connected, Resubscribe, client,
       CacheOfStore
  <2> QED BY <1>4, <2>1, <2>2, <2>3, <2>4 DEF Microtask
<1>5. CASE UNCHANGED <<store, cache>>
  BY <1>0, <1>5 DEF CacheOfStore
<1>6. ASSUME NEW m \in Msgs, NEW t \in Topics,
             PublishOnline(m) \/ UserSubscribe(t) \/ UserUnsubscribe(t)
      PROVE  CacheOfStore'
  BY <1>5, <1>6 DEF PublishOnline, UserSubscribe, UserUnsubscribe, client, attempt
<1>7. CASE UNCHANGED vars
  BY <1>5, <1>7 DEF vars, client, attempt
<1>8. CASE Application
  BY <1>1, <1>2, <1>3, <1>5, <1>8
     DEF Application, PublishOnline, UserSubscribe, UserUnsubscribe, client,
         attempt
<1> QED
  BY <1>4, <1>5, <1>7, <1>8, TimersFrame, AttemptIOFrame, SendingFrame,
     NetworkFrame DEF Next, Sending

LEMMA NextDueQueued == TypeInv /\ [Next]_vars => DueQueued'
<1> SUFFICES ASSUME TypeInv, [Next]_vars PROVE DueQueued'
  OBVIOUS
<1>0. /\ DueQueued /\ timers \in Seq(TimerKinds) /\ due \in Nat \cup {None}
  BY DEF TypeInv, TypeOK, TimerKinds
<1>1. CASE UNCHANGED <<timers, due>>
  BY <1>0, <1>1 DEF DueQueued
<1>2. ASSUME NEW kind \in TimerKinds, timers' = Append(timers, kind), due' = due
      PROVE  DueQueued'
  BY <1>0, <1>2 DEF DueQueued
<1>3. CASE Application
  BY <1>1, <1>2, <1>3
     DEF Application, Open, Reconnect, Close, CloseFinish, CloseEnd,
         PublishOffline, PublishOnline, UserSubscribe, UserUnsubscribe, loop,
         TimerKinds
<1>4. CASE BeginTimers \/ EndTimers
  BY <1>0, <1>4 DEF BeginTimers, EndTimers, DueQueued
<1>5. ASSUME NEW kind, TimerFires(kind) PROVE DueQueued'
  BY <1>0, <1>5, TimerFiresTyped DEF DueQueued
<1>6. CASE Timers
  BY <1>1, <1>2, <1>4, <1>5, <1>6
     DEF Timers, DeferredClose, StartAttempt, CheckReconnect,
         Reconnect, KeepAliveTimeout, AckTimeout, PubackTimeout, loop, TimerKinds
<1>7. CASE UNCHANGED vars
  BY <1>1, <1>7 DEF vars, loop
<1> QED
  BY <1>1, <1>3, <1>6, <1>7, MicrotaskFrame, AttemptIOFrame, SendingFrame,
     NetworkFrame DEF Next, Sending

LEMMA NextItemOfLoop == TypeInv /\ [Next]_vars => ItemOfLoop'
<1> SUFFICES ASSUME TypeInv, [Next]_vars PROVE ItemOfLoop'
  OBVIOUS
<1> DEFINE In(p) == p \in {"subwrite", "suback"}
<1>0. /\ ItemOfLoop /\ pc \in [Attempts -> Places]
      /\ item \in [Attempts -> Topics \cup {None}]
      /\ rest \in [Attempts -> SUBSET Topics]
  BY DEF TypeInv, TypeOK, Places
<1>1. ASSUME item' = item, \A a \in Attempts : In(pc'[a]) => In(pc[a])
      PROVE  ItemOfLoop'
  BY <1>0, <1>1 DEF ItemOfLoop
<1>2. CASE Application
  BY <1>0, <1>1, <1>2
     DEF Application, Open, Close, CloseFinish, PublishOffline, PublishOnline,
         UserSubscribe, UserUnsubscribe, attempt
<1>3. CASE Timers
  <2>1. item' = item
    BY <1>3, TimersFrame
  <2>2. \A a \in Attempts : In(pc'[a]) => In(pc[a])
    BY <1>0, <1>3
       DEF Timers, BeginTimers, EndTimers, DeferredClose,
           StartAttempt, CheckReconnect, KeepAliveTimeout, AckTimeout,
           PubackTimeout, attempt
  <2> QED BY <1>1, <2>1, <2>2
<1>4. ASSUME NEW a \in Attempts, Microtask(a) PROVE ItemOfLoop'
  <2>1. CASE Resubscribe(a)
    BY <1>0, <1>4, <2>1 DEF Resubscribe, ItemOfLoop
  <2>2. CASE ResubscribeEnd(a) \/ Catch(a)
    BY <1>0, <1>4, <2>2 DEF ResubscribeEnd, Catch, ItemOfLoop
  <2>3. CASE SendConnect(a) \/ Connected(a) \/ FlushOne(a) \/ FlushEnd(a)
    BY <1>0, <1>1, <1>4, <2>3 DEF SendConnect, Connected, FlushOne, FlushEnd
  <2> QED BY <1>4, <2>1, <2>2, <2>3 DEF Microtask
<1>5. ASSUME NEW a \in Attempts, AttemptIO(a) PROVE ItemOfLoop'
  <2>1. item' = item
    BY <1>5, AttemptIOFrame
  <2>2. \A b \in Attempts : In(pc'[b]) => In(pc[b])
    BY <1>0, <1>5 DEF AttemptIO, LookupDone, LookupFailed, TcpConnected,
       TcpFailed, ConnectWritten, SubscribeWritten, WriteFailed
  <2> QED BY <1>1, <2>1, <2>2
<1>6. ASSUME NEW m \in Msgs, PublishWritten(m) \/ PublishFailed(m)
      PROVE  ItemOfLoop'
  BY <1>0, <1>1, <1>6 DEF PublishWritten, PublishFailed
<1>7. CASE Network
  <2>1. item' = item
    BY <1>7, NetworkFrame
  <2>2. ASSUME NEW s \in Attempts, NEW k \in Keys, Acknowledge(s, k)
        PROVE  \A a \in Attempts : In(pc'[a]) => In(pc[a])
    <3> DEFINE next == IF k = Connect THEN "accepted"
                       ELSE IF \E m \in Msgs : k = Publish(m) THEN "flush" ELSE "resub"
    <3>1. pc' = IF Awaits(outgoing[k], k) THEN [pc EXCEPT ![outgoing[k]] = next] ELSE pc
      BY <2>2 DEF Acknowledge
    <3>2. ~In(next)
      OBVIOUS
    <3> HIDE DEF next
    <3> QED BY <1>0, <3>1, <3>2
  <2>3. ASSUME NEW s \in Attempts, Refuse(s)
        PROVE  \A a \in Attempts : In(pc'[a]) => In(pc[a])
    BY <1>0, <2>3 DEF Refuse
  <2>4. ASSUME NEW s \in Attempts, SocketEnds(s) \/ ReadBufferFull(s)
        PROVE  pc' = pc
    BY <2>4 DEF SocketEnds, ReadBufferFull, attempt
  <2>5. \A a \in Attempts : In(pc'[a]) => In(pc[a])
    BY <1>7, <2>2, <2>3, <2>4 DEF Network
  <2> QED BY <1>1, <2>1, <2>5
<1>8. CASE UNCHANGED vars
  BY <1>1, <1>8 DEF vars, attempt
<1> QED BY <1>2, <1>3, <1>4, <1>5, <1>6, <1>7, <1>8 DEF Next, Sending

-----------------------------------------------------------------------------
LEMMA NextTyped == TypeInv /\ [Next]_vars => TypeInv'
BY NextTypeOK, NextCacheOfStore, NextDueQueued, NextItemOfLoop DEF TypeInv

(* TypeInv holds throughout, whatever the network and the application do. *)
THEOREM TypeInvariant == Spec => []TypeInv
BY InitTyped, NextTyped, PTL DEF Spec

(* Every variable of the client keeps its type. *)
THEOREM TypeCorrect == Spec => []TypeOK
<1>1. TypeInv => TypeOK
  BY DEF TypeInv
<1> QED BY TypeInvariant, <1>1, PTL
=============================================================================
