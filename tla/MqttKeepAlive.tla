--------------------------- MODULE MqttKeepAlive ---------------------------
(***************************************************************************)
(* The clock of the MQTT client, core/js/tjs/mqtt.js: the check timer that *)
(* startTimer() sets, the pings and the keep-alive timeout of an open      *)
(* connection (_onCheckKeepAlive) and the growing delay before a closed    *)
(* one is tried again (_onCheckReconnect).  MqttClient lets these timers   *)
(* fire at any moment; here time passes, in units of any length.           *)
(*                                                                         *)
(* The code keeps the times of the last ping, pong and reconnect() and     *)
(* subtracts them from Date.now(); the module keeps the differences, in a  *)
(* clock that is never set.  An age stops at Horizon, which no comparison  *)
(* in the module exceeds.                                                  *)
(***************************************************************************)
EXTENDS Naturals

CONSTANTS
  KeepAlive,      \* options.keepalive; 0 turns it off
  MinPeriod,      \* options.reconnectPeriod; 0 turns reconnection off
  BackoffLimit,   \* the 60 of _onCheckReconnect
  CheckPeriod,    \* the 2 s of startTimer
  Late,           \* how late the event loop may run the check timer
  AnswerTime,     \* the time in which a live broker answers a ping
  Horizon,        \* bound of the model: the oldest age
  None

ASSUME ConstantsAssumption ==
  /\ KeepAlive \in Nat /\ MinPeriod \in Nat /\ BackoffLimit \in Nat \ {0}
  /\ CheckPeriod \in Nat \ {0} /\ Late \in Nat /\ AnswerTime \in Nat
  /\ Horizon \in Nat
  /\ Horizon > KeepAlive + CheckPeriod + Late
  /\ Horizon > BackoffLimit * MinPeriod + CheckPeriod + Late
  /\ None \notin Nat

VARIABLES
  state,          \* readyState: "off" while the check timer is not set
  sinceCheck,     \* since the check timer was set or last ran
  sincePing,      \* Date.now() - this._lastPingTime
  sincePong,      \* Date.now() - this._lastPongTime
  sinceConnect,   \* Date.now() - this._lastConnectTime
  period,         \* this._statInfo.reconnectPeriod
  asked,          \* age of the oldest ping that is not answered, or None
  sinceClosed     \* since the client was last closed (history)

vars == <<state, sinceCheck, sincePing, sincePong, sinceConnect, period, asked,
          sinceClosed>>

TypeOK ==
  /\ state \in {"off", "connecting", "open", "closed"}
  /\ sinceCheck \in Nat /\ sincePing \in Nat /\ sincePong \in Nat
  /\ sinceConnect \in Nat /\ sinceClosed \in Nat
  /\ period \in Nat
  /\ asked \in Nat \cup {None}

Init ==
  /\ state = "off"
  /\ sinceCheck = 0 /\ sincePing = Horizon /\ sincePong = Horizon
  /\ sinceConnect = Horizon /\ sinceClosed = Horizon
  /\ period = 0
  /\ asked = None

-----------------------------------------------------------------------------
(* Mutant: the delay has no upper limit. *)
DelayUnlimited == IF period <= MinPeriod THEN MinPeriod ELSE period

(* The delay before the next attempt: Math.min(Math.max(...)). *)
Delay ==
  IF period <= MinPeriod THEN MinPeriod
  ELSE IF period <= BackoffLimit * MinPeriod THEN period
  ELSE BackoffLimit * MinPeriod

Older(age) == IF age < Horizon THEN age + 1 ELSE Horizon

(* open(): the check timer, then reconnect(). *)
Open ==
  /\ state = "off"
  /\ state' = "connecting"
  /\ sinceCheck' = 0
  /\ sinceConnect' = 0
  /\ UNCHANGED <<sincePing, sincePong, period, asked,
                 sinceClosed>>

Close ==
  /\ state # "off"
  /\ state' = "off"
  /\ asked' = None
  /\ UNCHANGED <<sinceCheck, sincePing, sincePong, sinceConnect, period,
                 sinceClosed>>

(* Mutant: only the time of the last ping is set. *)
ConnectAckPing ==
  /\ state = "connecting"
  /\ state' = "open"
  /\ sincePing' = 0
  /\ UNCHANGED <<sinceCheck, sincePong, sinceConnect, period, asked,
                 sinceClosed>>

(* handleConnectAck() *)
ConnectAck ==
  /\ state = "connecting"
  /\ state' = "open"
  /\ sincePing' = 0
  /\ sincePong' = 0
  /\ UNCHANGED <<sinceCheck, sinceConnect, period, asked,
                 sinceClosed>>

(* The attempt fails, or the open connection ends. *)
SocketClose ==
  /\ state \in {"connecting", "open"}
  /\ state' = "closed"
  /\ asked' = None
  /\ sinceClosed' = 0
  /\ UNCHANGED <<sinceCheck, sincePing, sincePong, sinceConnect, period>>

(* Mutant: the timeout counts from the last ping. *)
CheckLenient ==
  /\ state = "open" /\ sinceCheck >= CheckPeriod
  /\ KeepAlive > 0 => sincePing <= KeepAlive
  /\ sinceCheck' = 0
  /\ IF KeepAlive > 0 /\ 2 * sincePing > KeepAlive
     THEN /\ sincePing' = 0
          /\ asked' = IF asked = None THEN 0 ELSE asked
     ELSE UNCHANGED <<sincePing, asked>>
  /\ UNCHANGED <<state, sincePong, sinceConnect, period,
                 sinceClosed>>

(* Mutant: the ping waits until the timeout is near. *)
PingLate ==
  /\ state = "open" /\ sinceCheck >= CheckPeriod
  /\ KeepAlive > 0 => sincePong <= KeepAlive
  /\ sinceCheck' = 0
  /\ IF KeepAlive > 0 /\ sincePing + CheckPeriod > KeepAlive
     THEN /\ sincePing' = 0
          /\ asked' = IF asked = None THEN 0 ELSE asked
     ELSE UNCHANGED <<sincePing, asked>>
  /\ UNCHANGED <<state, sincePong, sinceConnect, period,
                 sinceClosed>>

(* _onCheckKeepAlive(), no timeout: a ping when the last one is more than  *)
(* half of the keep-alive time old.                                        *)
CheckPing ==
  /\ state = "open" /\ sinceCheck >= CheckPeriod
  /\ KeepAlive > 0 => sincePong <= KeepAlive
  /\ sinceCheck' = 0
  /\ IF KeepAlive > 0 /\ 2 * sincePing > KeepAlive
     THEN /\ sincePing' = 0
          /\ asked' = IF asked = None THEN 0 ELSE asked
     ELSE UNCHANGED <<sincePing, asked>>
  /\ UNCHANGED <<state, sincePong, sinceConnect, period,
                 sinceClosed>>

(* _onKeepAliveTimeout(): the connection is closed. *)
CheckTimeout ==
  /\ state = "open" /\ sinceCheck >= CheckPeriod
  /\ KeepAlive > 0 /\ sincePong > KeepAlive
  /\ state' = "closed"
  /\ sinceCheck' = 0
  /\ asked' = None
  /\ sinceClosed' = 0
  /\ UNCHANGED <<sincePing, sincePong, sinceConnect, period>>

(* _onCheckReconnect() *)
CheckReconnect ==
  /\ state = "closed" /\ sinceCheck >= CheckPeriod
  /\ sinceCheck' = 0
  /\ IF MinPeriod > 0 /\ sinceConnect >= Delay
     THEN /\ period' = 2 * Delay
          /\ state' = "connecting"
          /\ sinceConnect' = 0
     ELSE UNCHANGED <<period, state, sinceConnect>>
  /\ UNCHANGED <<sincePing, sincePong, asked,
                 sinceClosed>>

(* A TODO: nothing is done while CONNECTING. *)
CheckNothing ==
  /\ state = "connecting" /\ sinceCheck >= CheckPeriod
  /\ sinceCheck' = 0
  /\ UNCHANGED <<state, sincePing, sincePong, sinceConnect, period, asked,
                 sinceClosed>>

(* handlePong(): the oldest ping is answered. *)
Pong ==
  /\ state = "open" /\ asked # None
  /\ sincePong' = 0
  /\ asked' = IF sincePing < asked THEN sincePing ELSE None
  /\ UNCHANGED <<state, sinceCheck, sincePing, sinceConnect, period,
                 sinceClosed>>

(* Time passes, up to the moment the check timer must run. *)
Pass ==
  /\ state = "off" \/ sinceCheck < CheckPeriod + Late
  /\ sinceCheck' = IF state = "off" THEN sinceCheck ELSE sinceCheck + 1
  /\ sincePing' = Older(sincePing)
  /\ sincePong' = Older(sincePong)
  /\ sinceConnect' = Older(sinceConnect)
  /\ sinceClosed' = Older(sinceClosed)
  /\ asked' = IF asked = None THEN None ELSE Older(asked)
  /\ UNCHANGED <<state, period>>

Next ==
  \/ Open \/ Close \/ ConnectAck \/ SocketClose \/ Pong
  \/ CheckPing \/ CheckTimeout \/ CheckReconnect \/ CheckNothing
  \/ Pass

Spec == Init /\ [][Next]_vars

-----------------------------------------------------------------------------
(* A connection whose broker no longer answers is given up: an open one    *)
(* has had a PINGRESP, or its CONNACK, within the keep-alive time and one  *)
(* round of the check timer (mqtt.js:666-670).                             *)
DeadPeerDetected ==
  (state = "open" /\ KeepAlive > 0)
     => sincePong <= KeepAlive + CheckPeriod + Late

(* The broker hears from an open client, whatever it answers, at least     *)
(* once in half of the keep-alive time and one round of the check timer    *)
(* (mqtt.js:673-676).                                                      *)
PingsInTime ==
  (state = "open" /\ KeepAlive > 0)
     => 2 * sincePing <= KeepAlive + 2 * (CheckPeriod + Late)

(* The connection to a live broker is never given up: at a keep-alive      *)
(* timeout some ping has gone unanswered for AnswerTime, provided the      *)
(* keep-alive time leaves room for two rounds of the timer and two answers.*)
Roomy == KeepAlive >= 2 * (CheckPeriod + Late + AnswerTime)

LivePeerKept ==
  [][CheckTimeout /\ Roomy => asked # None /\ asked >= AnswerTime]_vars

(* The same without the proviso: what "default 60 seconds, set to 0 to     *)
(* disable" (lib.net.d.ts:576) says of every other value.                  *)
AnyKeepAliveWorks ==
  [][CheckTimeout => asked # None /\ asked >= AnswerTime]_vars

(* A closed client is tried again at the latest one round of the timer     *)
(* after the delay, which stays within BackoffLimit times the period the   *)
(* application asked for (mqtt.js:686-699).                                *)
RetriesInTime ==
  (state = "closed" /\ MinPeriod > 0)
     => sinceClosed <= BackoffLimit * MinPeriod + CheckPeriod + Late

(* reconnectPeriod is the "interval between two reconnections"             *)
(* (lib.net.d.ts:570): at every round of the timer that finds the client   *)
(* closed for that long a reconnection starts.                             *)
ReconnectsAtPeriod ==
  [][(CheckReconnect /\ MinPeriod > 0 /\ sinceConnect >= MinPeriod)
        => state' = "connecting"]_vars
=============================================================================
