------------------------ MODULE MqttKeepAliveProofs ------------------------
(* Proofs about MqttKeepAlive, for any keep-alive time, period and delay.   *)
EXTENDS MqttKeepAlive, TLAPS

Limit == BackoffLimit * MinPeriod
Round == CheckPeriod + Late

(* The timer is never late by more than Late, and only an open client       *)
(* waits for an answer.                                                    *)
Punctual ==
  /\ state # "off" => sinceCheck <= Round
  /\ state # "open" => asked = None

(* What the last run of the check timer left of an open connection.         *)
Alive ==
  (state = "open" /\ KeepAlive > 0) =>
    /\ sincePong <= KeepAlive + sinceCheck
    /\ 2 * sincePing <= KeepAlive + 2 * sinceCheck

(* The last answer is no older than the last ping that was answered was     *)
(* due.                                                                    *)
Answered ==
  (state = "open" /\ KeepAlive > 0) =>
    /\ asked = None => sincePong <= sincePing
    /\ asked # None => /\ sincePing <= asked
                       /\ 2 * sincePong <= 2 * asked + KeepAlive + 2 * Round

(* A client that was closed at the last run of the timer was not due yet.   *)
Waiting ==
  (state = "closed" /\ MinPeriod > 0) =>
    /\ sinceClosed <= sinceConnect
    /\ sinceClosed <= sinceCheck \/ sinceClosed <= Limit + sinceCheck

ClockInv == TypeOK /\ Punctual /\ Alive /\ Answered /\ Waiting

LEMMA Constants ==
  /\ KeepAlive \in Nat /\ MinPeriod \in Nat /\ CheckPeriod \in Nat /\ Late \in Nat
  /\ AnswerTime \in Nat /\ Horizon \in Nat /\ Limit \in Nat /\ Round \in Nat
  /\ CheckPeriod > 0 /\ CheckPeriod <= Round
  /\ Horizon > KeepAlive + Round
  /\ Horizon > Limit + Round
  /\ None \notin Nat
  /\ MinPeriod <= Limit
<1>1. BackoffLimit \in Nat /\ BackoffLimit >= 1 /\ MinPeriod \in Nat
  BY ConstantsAssumption
<1>2. BackoffLimit * MinPeriod \in Nat /\ MinPeriod <= BackoffLimit * MinPeriod
  BY <1>1
<1> QED
  BY <1>2, ConstantsAssumption DEF Limit, Round

(* The delay is within the limit. *)
LEMMA DelayLimited ==
  ASSUME TypeOK
  PROVE  Delay \in Nat /\ Delay <= Limit
BY Constants DEF Delay, Limit, TypeOK

LEMMA OlderGrows ==
  ASSUME NEW x \in Nat
  PROVE  /\ Older(x) \in Nat /\ Older(x) <= Horizon
         /\ x < Horizon => Older(x) = x + 1
         /\ x >= Horizon => Older(x) = Horizon
BY Constants DEF Older

LEMMA Initially == Init => ClockInv
BY Constants DEF Init, ClockInv, TypeOK, Punctual, Alive, Answered, Waiting

LEMMA Preserved == ClockInv /\ [Next]_vars => ClockInv'
<1> SUFFICES ASSUME ClockInv, [Next]_vars
             PROVE  ClockInv'
  OBVIOUS
<1> USE Constants
<1>0. /\ sinceCheck \in Nat /\ sincePing \in Nat /\ sincePong \in Nat
      /\ sinceConnect \in Nat /\ sinceClosed \in Nat /\ period \in Nat
      /\ asked \in Nat \cup {None}
  BY DEF ClockInv, TypeOK
<1>d. Delay \in Nat /\ Delay <= Limit
  BY DelayLimited DEF ClockInv
<1>1. CASE Open
  BY <1>0, <1>1 DEF ClockInv, TypeOK, Punctual, Alive, Answered, Waiting, Open
<1>2. CASE Close
  BY <1>0, <1>2 DEF ClockInv, TypeOK, Punctual, Alive, Answered, Waiting, Close
<1>3. CASE ConnectAck
  BY <1>0, <1>3
     DEF ClockInv, TypeOK, Punctual, Alive, Answered, Waiting, ConnectAck
<1>4. CASE SocketClose
  BY <1>0, <1>4
     DEF ClockInv, TypeOK, Punctual, Alive, Answered, Waiting, SocketClose
<1>5. CASE Pong
  BY <1>0, <1>5 DEF ClockInv, TypeOK, Punctual, Alive, Answered, Waiting, Pong
<1>6. CASE CheckPing
  BY <1>0, <1>6
     DEF ClockInv, TypeOK, Punctual, Alive, Answered, Waiting, CheckPing
<1>7. CASE CheckTimeout
  BY <1>0, <1>7
     DEF ClockInv, TypeOK, Punctual, Alive, Answered, Waiting, CheckTimeout
<1>8. CASE CheckReconnect
  BY <1>0, <1>d, <1>8
     DEF ClockInv, TypeOK, Punctual, Alive, Answered, Waiting, CheckReconnect
<1>9. CASE CheckNothing
  BY <1>0, <1>9
     DEF ClockInv, TypeOK, Punctual, Alive, Answered, Waiting, CheckNothing
<1>10. CASE Pass
  <2>1. /\ state' = state /\ period' = period
        /\ sincePing' = Older(sincePing) /\ sincePong' = Older(sincePong)
        /\ sinceConnect' = Older(sinceConnect)
        /\ sinceClosed' = Older(sinceClosed)
        /\ asked' = IF asked = None THEN None ELSE Older(asked)
        /\ state = "off" => sinceCheck' = sinceCheck
        /\ state # "off" => /\ sinceCheck' = sinceCheck + 1
                            /\ sinceCheck < Round
    BY <1>10 DEF Pass, Round
  <2>2. TypeOK'
    BY <1>0, <2>1, OlderGrows DEF ClockInv, TypeOK
  <2>3. Punctual'
    BY <1>0, <2>1 DEF ClockInv, Punctual
  <2>4. Alive'
    BY <1>0, <2>1, OlderGrows DEF ClockInv, Alive
  <2>5. Answered'
    <3> SUFFICES ASSUME state = "open", KeepAlive > 0
                 PROVE  /\ asked' = None => sincePong' <= sincePing'
                        /\ asked' # None =>
                             /\ sincePing' <= asked'
                             /\ 2 * sincePong' <= 2 * asked' + KeepAlive + 2 * Round
      BY <2>1 DEF Answered
    <3>1. sincePing < Horizon /\ sincePong < Horizon
      BY <1>0, <2>1 DEF ClockInv, Alive
    <3>2. sincePing' = sincePing + 1 /\ sincePong' = sincePong + 1
      BY <1>0, <2>1, <3>1, OlderGrows
    <3>3. CASE asked = None
      BY <1>0, <2>1, <3>2, <3>3 DEF ClockInv, Answered
    <3>4. CASE asked # None /\ asked < Horizon
      BY <1>0, <2>1, <3>2, <3>4, OlderGrows DEF ClockInv, Answered
    <3>5. CASE asked # None /\ asked >= Horizon
      BY <1>0, <2>1, <3>1, <3>2, <3>5, OlderGrows DEF ClockInv, Answered
    <3> QED
      BY <1>0, <3>3, <3>4, <3>5
  <2>6. Waiting'
    <3> SUFFICES ASSUME state = "closed", MinPeriod > 0
                 PROVE  /\ sinceClosed' <= sinceConnect'
                        /\ \/ sinceClosed' <= sinceCheck'
                           \/ sinceClosed' <= Limit + sinceCheck'
      BY <2>1 DEF Waiting
    <3>1. sinceClosed' <= sinceClosed + 1
      BY <1>0, <2>1, OlderGrows
    <3>2. sinceClosed' <= sinceConnect'
      BY <1>0, <2>1, OlderGrows DEF ClockInv, Waiting
    <3> QED
      BY <1>0, <2>1, <3>1, <3>2, OlderGrows DEF ClockInv, Waiting
  <2> QED
    BY <2>2, <2>3, <2>4, <2>5, <2>6 DEF ClockInv
<1>11. CASE UNCHANGED vars
  BY <1>0, <1>11
     DEF ClockInv, TypeOK, Punctual, Alive, Answered, Waiting, vars
<1> QED
  BY <1>1, <1>2, <1>3, <1>4, <1>5, <1>6, <1>7, <1>8, <1>9, <1>10, <1>11 DEF Next

LEMMA ClockInvariant == Spec => []ClockInv
BY Initially, Preserved, PTL DEF Spec

(* The types of the clock's variables. *)
THEOREM ClockTyped == Spec => []TypeOK
<1>1. ClockInv => TypeOK
  BY DEF ClockInv
<1> QED
  BY <1>1, ClockInvariant, PTL

(* A broker that no longer answers is given up within the keep-alive time   *)
(* and one round of the check timer.                                       *)
THEOREM DeadPeersAreDetected == Spec => []DeadPeerDetected
<1>1. ClockInv => DeadPeerDetected
  BY Constants
     DEF ClockInv, TypeOK, Punctual, Alive, DeadPeerDetected, Round
<1> QED
  BY <1>1, ClockInvariant, PTL

(* The broker hears from an open client once in half of the keep-alive      *)
(* time and one round of the check timer.                                  *)
THEOREM PingsAreInTime == Spec => []PingsInTime
<1>1. ClockInv => PingsInTime
  BY Constants DEF ClockInv, TypeOK, Punctual, Alive, PingsInTime, Round
<1> QED
  BY <1>1, ClockInvariant, PTL

(* A connection whose broker answers every ping within AnswerTime is not    *)
(* given up, if the keep-alive time leaves room for it.                    *)
THEOREM LivePeersAreKept == Spec => LivePeerKept
<1>1. ClockInv /\ [Next]_vars
        => [CheckTimeout /\ Roomy => asked # None /\ asked >= AnswerTime]_vars
  <2> SUFFICES ASSUME ClockInv, CheckTimeout, Roomy
               PROVE  asked # None /\ asked >= AnswerTime
    OBVIOUS
  <2>1. /\ sincePing \in Nat /\ sincePong \in Nat /\ sinceCheck \in Nat
        /\ asked \in Nat \cup {None}
    BY DEF ClockInv, TypeOK
  <2>2. state = "open" /\ KeepAlive > 0 /\ sincePong > KeepAlive
    BY DEF CheckTimeout
  <2>3. KeepAlive >= 2 * Round + 2 * AnswerTime
    BY Constants DEF Roomy, Round
  <2>4. sinceCheck <= Round
    BY <2>2 DEF ClockInv, Punctual
  <2>5. asked # None
    BY <2>1, <2>2, <2>3, <2>4, Constants DEF ClockInv, Alive, Answered
  <2>6. 2 * sincePong <= 2 * asked + KeepAlive + 2 * Round
    BY <2>2, <2>5 DEF ClockInv, Answered
  <2> QED
    BY <2>1, <2>2, <2>3, <2>5, <2>6, Constants
<1> QED
  BY <1>1, ClockInvariant, PTL DEF Spec, LivePeerKept

(* A closed client is tried again within the longest delay and one round    *)
(* of the check timer.                                                     *)
THEOREM RetriesAreInTime == Spec => []RetriesInTime
<1>1. ClockInv => RetriesInTime
  BY Constants
     DEF ClockInv, TypeOK, Punctual, Waiting, RetriesInTime, Round, Limit
<1> QED
  BY <1>1, ClockInvariant, PTL
=============================================================================
