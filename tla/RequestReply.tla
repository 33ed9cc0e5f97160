---------------------------- MODULE RequestReply ----------------------------
(***************************************************************************)
(* What a client that sends requests and awaits replies promises to its    *)
(* callers, whatever becomes of connections, queues and timers: a call     *)
(* that is pending sends its request once, a call is settled at most once, *)
(* and it is answered by nothing but the reply to its own request, which   *)
(* was sent while the call was pending.  Calls may fail at any time,       *)
(* several at once, and a reply that comes after that reaches nobody.      *)
(***************************************************************************)
CONSTANT Calls

VARIABLES stage,   \* how far each call has come
          replies  \* the requests whose replies each call was given

vars == <<stage, replies>>

Stages == {"new", "made", "sent", "replied", "failed"}

Init ==
  /\ stage = [c \in Calls |-> "new"]
  /\ replies = [c \in Calls |-> {}]

Moves(c, from, to) == stage[c] = from /\ stage' = [stage EXCEPT ![c] = to]

(* The program makes a call, which may be refused at once. *)
Make(c) ==
  /\ Moves(c, "new", "made") \/ Moves(c, "new", "failed")
  /\ UNCHANGED replies

Send(c) == Moves(c, "made", "sent") /\ UNCHANGED replies

Reply(c) ==
  /\ Moves(c, "sent", "replied")
  /\ replies' = [replies EXCEPT ![c] = {c}]

(* A timeout, a lost connection or a close fails calls that are pending. *)
Fail(S) ==
  /\ \A c \in S : stage[c] \in {"made", "sent"}
  /\ stage' = [c \in Calls |-> IF c \in S THEN "failed" ELSE stage[c]]
  /\ UNCHANGED replies

Next ==
  \/ \E c \in Calls : Make(c) \/ Send(c) \/ Reply(c)
  \/ \E S \in SUBSET Calls : Fail(S)

Spec == Init /\ [][Next]_vars
=============================================================================
