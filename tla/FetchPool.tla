------------------------------ MODULE FetchPool ------------------------------
(***************************************************************************)
(* fetch() and the pool of keep-alive connections of core/js/tjs/fetch.js, *)
(* all to one host.  A fetch takes an idle connection or makes a new one   *)
(* (FetchManager.open, FetchConnection.connect), sends its request, waits  *)
(* for the head of the response and leaves the body to the reader of the   *)
(* response, while the server, the expiry timer and the application go on. *)
(*                                                                         *)
(* What a result of libuv leads to, up to the next wait for libuv, is one  *)
(* step: the promise jobs run in the same round of the loop, before the    *)
(* next event of that socket and before any timer.  Only the jobs of a     *)
(* fetch that reuses a connection are a step of their own, SendRequest:    *)
(* fetch() may be called in a callback that other events follow.           *)
(***************************************************************************)
EXTENDS Naturals, Sequences

CONSTANTS
  Fetches,      \* the calls of fetch()
  Conns,        \* bound of the model: FetchConnection objects at a time
  LateLookup,   \* may a lookup still be under way when its connection closes?
  EarlyReply,   \* may the server answer before the whole request is sent?
  None

ASSUME ConstantsAssumption ==
  /\ {LateLookup, EarlyReply} \subseteq BOOLEAN
  /\ None \notin Fetches \cup Conns
  /\ Fetches \cap {"none", "null", "error"} = {}

VARIABLES
  pool,         \* FetchManager.fetchConnections
  checkTimer,   \* is FetchManager.checkTimer set?
  conn,         \* the fields of each FetchConnection
  fetch,        \* each call: where it is suspended, and what came of it
  wire          \* of each connection: the requests the server has to answer

vars == <<pool, checkTimer, conn, fetch, wire>>

States == {"INIT", "CLOSED", "LOOKUPING", "CONNECTING", "CONNECTED",
           "REQUEST_START", "REQUEST_END", "RESPONSE_START", "IDLE"}

(* Between the steps of one fetch; "ready" is the pending job of a reuse.  *)
Pending == {"lookup", "tcp", "ready", "head", "body", "response"}

TypeOK ==
  /\ pool \subseteq Conns /\ checkTimer \in BOOLEAN
  /\ conn \in [Conns ->
       [state : States, socket : {"none", "opening", "up"},
        context : BOOLEAN,                \* this.context, still there?
        callback : Fetches \cup {None},   \* context.callback: whose it is
        reader : Fetches \cup {None},     \* context.readController: whose
        request : Fetches \cup {None},
        isKeepAlive : BOOLEAN,
        old : BOOLEAN]]                   \* are 10 s gone since `updated`?
  /\ fetch \in [Fetches ->
       [pc : Pending \cup {"new", "done"}, conn : Conns \cup {None},
        answer : Fetches \cup {"none", "null", "error"},
        body : {"none", "open", "whole", "cut"}]]
  /\ wire \in [Conns -> [asked : Seq(Fetches), sending : BOOLEAN]]

NewConnection ==
  [state |-> "INIT", socket |-> "none", context |-> TRUE, callback |-> None,
   reader |-> None, request |-> None, isKeepAlive |-> TRUE, old |-> FALSE]

Silent == [asked |-> <<>>, sending |-> FALSE]

Init ==
  /\ pool = {} /\ checkTimer = FALSE
  /\ conn = [c \in Conns |-> NewConnection]
  /\ fetch = [f \in Fetches |->
                [pc |-> "new", conn |-> None, answer |-> "none", body |-> "none"]]
  /\ wire = [c \in Conns |-> Silent]

-----------------------------------------------------------------------------
(* FetchConnection.close() on each connection of S. *)
ClosedConnection(c) ==
  [conn[c] EXCEPT !.state = "CLOSED", !.socket = "none", !.context = FALSE,
                  !.callback = None, !.reader = None, !.request = None]

(* Mutant: the reader of the body is not told. *)
EndFetchesOnly(fs, S) ==
  [f \in Fetches |->
     IF \E c \in S : conn[c].callback = f
     THEN [fs[f] EXCEPT !.pc = "done", !.answer = "null"] ELSE fs[f]]

(* close() calls the waiting callback with null and ends the reader.       *)
EndFetches(fs, S) ==
  [f \in Fetches |->
     LET waits == \E c \in S : conn[c].callback = f
         reads == \E c \in S : conn[c].reader = f
     IN [fs[f] EXCEPT !.pc     = IF waits THEN "done" ELSE @,
                      !.answer = IF waits THEN "null" ELSE @,
                      !.body   = IF reads THEN "cut" ELSE @]]

CloseAll(S) ==
  /\ conn' = [c \in Conns |-> IF c \in S THEN ClosedConnection(c) ELSE conn[c]]
  /\ wire' = [c \in Conns |-> IF c \in S THEN Silent ELSE wire[c]]

(* The promise of fetch() is rejected. *)
Rejected(f) == [fetch EXCEPT ![f].pc = "done", ![f].answer = "error"]

At(f, pc) == fetch[f].pc = pc

(* A FetchConnection that nobody refers to. *)
Free(c) ==
  /\ c \notin pool /\ conn[c].socket = "none"
  /\ \A f \in Fetches : fetch[f].pc \in Pending => fetch[f].conn # c

-----------------------------------------------------------------------------
(* fetch() *)

(* Mutant: a connection that waits for its response is taken too. *)
IdleOrBusy(c) ==
  c \in pool /\ conn[c].context /\ conn[c].state \in {"IDLE", "REQUEST_END"}

(* FetchManager.get() *)
Idle(c) == c \in pool /\ conn[c].context /\ conn[c].state = "IDLE"

(* open() and connect() find an idle connection, any of them. *)
Reuse(f, c) ==
  /\ At(f, "new") /\ Idle(c)
  /\ conn' = [conn EXCEPT ![c].request = f, ![c].state = "CONNECTED"]
  /\ fetch' = [fetch EXCEPT ![f].pc = "ready", ![f].conn = c]
  /\ UNCHANGED <<pool, checkTimer, wire>>

(* open() makes a connection, connect() looks the name up. *)
NewFetch(f, c) ==
  /\ At(f, "new") /\ ~\E d \in Conns : Idle(d)
  /\ Free(c)
  /\ pool' = pool \cup {c}
  /\ conn' = [conn EXCEPT ![c] = [NewConnection EXCEPT !.request = f,
                                                       !.state = "LOOKUPING"]]
  /\ fetch' = [fetch EXCEPT ![f].pc = "lookup", ![f].conn = c]
  /\ UNCHANGED <<checkTimer, wire>>

(* connect() goes on whatever has become of the connection. *)
LookupDone(f) ==
  /\ At(f, "lookup")
  /\ conn' = [conn EXCEPT ![fetch[f].conn].socket = "opening",
                          ![fetch[f].conn].state = "CONNECTING",
                          ![fetch[f].conn].old = FALSE]
  /\ fetch' = [fetch EXCEPT ![f].pc = "tcp"]
  /\ UNCHANGED <<pool, checkTimer, wire>>

(* The catch of connect() and of sendRequest(): close() and throw. *)
Fail(f) ==
  /\ CloseAll({fetch[f].conn})
  /\ fetch' = EndFetches(Rejected(f), {fetch[f].conn})
  /\ UNCHANGED <<pool, checkTimer>>

LookupFailed(f) == At(f, "lookup") /\ Fail(f)

(* The connection is refused, times out or was closed. *)
ConnectFailed(f) == At(f, "tcp") /\ Fail(f)

(* sendRequest() begins: the head of the request is written. *)
StartRequest(f, c, cs) ==
  /\ conn' = [cs EXCEPT ![c].state = "REQUEST_START"]
  /\ fetch' = [fetch EXCEPT ![f].pc = "head"]

(* connect() ends, open() starts the timer, and sendRequest() follows; it  *)
(* throws, with the socket left open, if close() took the request away.    *)
Connected(f) ==
  LET c  == fetch[f].conn
      cs == [conn EXCEPT ![c].socket = "up", ![c].state = "CONNECTED",
                         ![c].old = FALSE]
  IN /\ At(f, "tcp") /\ conn[c].socket = "opening"
     /\ checkTimer' = TRUE
     /\ IF conn[c].request = None
        THEN conn' = cs /\ fetch' = Rejected(f)
        ELSE StartRequest(f, c, cs)
     /\ UNCHANGED <<pool, wire>>

(* sendRequest() on a reused connection, which may be closed by now. *)
SendRequest(f) ==
  LET c == fetch[f].conn
  IN /\ At(f, "ready")
     /\ IF conn[c].socket = "none"
        THEN conn' = conn /\ fetch' = Rejected(f)
        ELSE StartRequest(f, c, conn)
     /\ UNCHANGED <<pool, checkTimer, wire>>

(* onRequestEnd() and waitResponse() *)
RequestSent(f, c) ==
  /\ conn' = [conn EXCEPT ![c].state = "REQUEST_END", ![c].callback = f,
                          ![c].old = FALSE]
  /\ fetch' = [fetch EXCEPT ![f].pc = "response"]

(* The head is written; a request without a body is complete. *)
HeadWritten(f) ==
  LET c == fetch[f].conn
  IN /\ At(f, "head") /\ conn[c].socket = "up"
     /\ wire' = [wire EXCEPT ![c].asked = Append(@, f)]
     /\ \/ RequestSent(f, c)
        \/ /\ fetch' = [fetch EXCEPT ![f].pc = "body"]
           /\ conn' = [conn EXCEPT ![c].old = FALSE]
     /\ UNCHANGED <<pool, checkTimer>>

BodyWritten(f) ==
  /\ At(f, "body") /\ conn[fetch[f].conn].socket = "up"
  /\ RequestSent(f, fetch[f].conn)
  /\ UNCHANGED <<pool, checkTimer, wire>>

WriteFailed(f) == fetch[f].pc \in {"head", "body"} /\ Fail(f)

-----------------------------------------------------------------------------
(* The response *)

(* onResponseBodyEnd() in RESPONSE_START: the body is complete.  The       *)
(* connection is idle again, or closed if one side does not keep it.       *)
ResponseEnds(c, cs, fs) ==
  LET done == IF cs[c].reader = None THEN fs
              ELSE [fs EXCEPT ![cs[c].reader].body = "whole"]
  IN /\ fetch' = done
     /\ conn' = [cs EXCEPT ![c] =
          IF cs[c].isKeepAlive
          THEN [cs[c] EXCEPT !.state = "IDLE", !.reader = None,
                             !.request = None, !.old = FALSE]
          ELSE ClosedConnection(c)]

(* The head of a response, with a body to come or without one.             *)
(* onResponseBodyStart() takes it only after the whole request was sent.   *)
ReplyHead(c, hasBody, keep) ==
  LET f  == Head(wire[c].asked)
      cs == [conn EXCEPT ![c].state = "RESPONSE_START", ![c].callback = None,
                         ![c].isKeepAlive = conn[c].isKeepAlive /\ keep, ![c].old = FALSE,
                         ![c].reader = IF hasBody THEN conn[c].callback
                                       ELSE None]
      w  == conn[c].callback
      fs == IF w = None THEN fetch
            ELSE [fetch EXCEPT ![w].pc = "done", ![w].answer = f,
                               ![w].body = IF hasBody THEN "open"
                                             ELSE fetch[w].body]
  IN /\ conn[c].socket = "up" /\ wire[c].asked # <<>> /\ ~wire[c].sending
     /\ EarlyReply \/ fetch[f].pc # "body"
     /\ IF conn[c].context /\ conn[c].state = "REQUEST_END"
        THEN IF hasBody THEN conn' = cs /\ fetch' = fs
                        ELSE ResponseEnds(c, cs, fs)
        ELSE UNCHANGED <<conn, fetch>>
     /\ wire' = [wire EXCEPT ![c] =
          IF conn'[c].socket = "none" THEN Silent
          ELSE IF hasBody THEN [wire[c] EXCEPT !.sending = TRUE]
          ELSE [wire[c] EXCEPT !.asked = Tail(wire[c].asked)]]
     /\ UNCHANGED <<pool, checkTimer>>

(* Some of the body. *)
ReplyData(c) ==
  /\ wire[c].sending
  /\ conn' = [conn EXCEPT ![c].old = IF conn[c].context THEN FALSE ELSE @]
  /\ UNCHANGED <<pool, checkTimer, fetch, wire>>

(* The last of the body: onResponseBodyEnd(). *)
ReplyEnd(c) ==
  /\ wire[c].sending
  /\ IF conn[c].context /\ conn[c].state = "RESPONSE_START"
     THEN ResponseEnds(c, conn, fetch)
     ELSE UNCHANGED <<conn, fetch>>
  /\ wire' = [wire EXCEPT ![c] =
       IF conn'[c].socket = "none" THEN Silent
       ELSE [asked |-> Tail(wire[c].asked), sending |-> FALSE]]
  /\ UNCHANGED <<pool, checkTimer>>

(* The end of the socket, at any moment: onmessage(null) and close(). *)
SocketEnds(c) ==
  /\ conn[c].socket = "up"
  /\ CloseAll({c})
  /\ fetch' = EndFetches(fetch, {c})
  /\ UNCHANGED <<pool, checkTimer>>

-----------------------------------------------------------------------------
(* Time and the application *)

NoJobs == \A f \in Fetches : ~At(f, "ready")

(* 10 s pass without an `updated`. *)
Age(c) ==
  /\ NoJobs /\ c \in pool /\ ~conn[c].old
  /\ conn[c].state = "LOOKUPING" => LateLookup
  /\ conn' = [conn EXCEPT ![c].old = TRUE]
  /\ UNCHANGED <<pool, checkTimer, fetch, wire>>

(* isExpired() *)
Expired(c) == ~conn[c].context \/ conn[c].state = "CLOSED" \/ conn[c].old

CloseConnections(S) ==
  /\ CloseAll(S)
  /\ fetch' = EndFetches(fetch, S)
  /\ pool' = pool \ S

(* Mutant: the connections are dropped, not closed. *)
CheckForgets ==
  /\ checkTimer /\ NoJobs
  /\ pool' = pool \ {c \in pool : Expired(c)}
  /\ UNCHANGED <<conn, wire, fetch, checkTimer>>

(* Mutant: the connections are closed, not dropped. *)
CheckKeeps ==
  /\ checkTimer /\ NoJobs
  /\ LET S == {c \in pool : Expired(c)}
     IN CloseAll(S) /\ fetch' = EndFetches(fetch, S)
  /\ UNCHANGED <<pool, checkTimer>>

(* Mutant: only idle connections expire. *)
CheckIdle ==
  /\ checkTimer /\ NoJobs
  /\ CloseConnections({c \in pool : conn[c].state \in {"IDLE", "CLOSED"}
                                      /\ Expired(c)})
  /\ UNCHANGED checkTimer

(* closeExpiredConnections(), every second. *)
CheckTimer ==
  /\ checkTimer /\ NoJobs
  /\ CloseConnections({c \in pool : Expired(c)})
  /\ UNCHANGED checkTimer

CloseIdleConnections ==
  /\ \E c \in pool : conn[c].state = "IDLE"
  /\ CloseConnections({c \in pool : conn[c].state = "IDLE"})
  /\ UNCHANGED checkTimer

(* FetchManager.close() *)
Close ==
  /\ LateLookup \/ \A c \in pool : conn[c].state # "LOOKUPING"
  /\ CloseConnections(pool)
  /\ checkTimer' = FALSE

Call(f) == \E c \in Conns : Reuse(f, c) \/ NewFetch(f, c)

Lookup(f) == LookupDone(f) \/ LookupFailed(f)

Connect(f) == Connected(f) \/ ConnectFailed(f)

Write(f) == HeadWritten(f) \/ BodyWritten(f) \/ WriteFailed(f)

Server(c) ==
  \/ \E hasBody, keep \in BOOLEAN : ReplyHead(c, hasBody, keep)
  \/ ReplyData(c) \/ ReplyEnd(c) \/ SocketEnds(c)

Next ==
  \/ \E f \in Fetches : Call(f) \/ SendRequest(f) \/ Lookup(f) \/ Connect(f)
                          \/ Write(f)
  \/ \E c \in Conns : Server(c) \/ Age(c)
  \/ CheckTimer \/ CloseIdleConnections \/ Close

Spec == Init /\ [][Next]_vars

(* Jobs run, lookups and connects end, a request on a closed socket fails, *)
(* time passes and the timer fires.  A server may stay silent.             *)
FairSpec ==
  /\ Spec
  /\ \A f \in Fetches :
       /\ WF_vars(SendRequest(f)) /\ WF_vars(Lookup(f)) /\ WF_vars(Connect(f))
       /\ WF_vars(WriteFailed(f) /\ conn[fetch[f].conn].socket = "none")
  /\ \A c \in Conns : SF_vars(Age(c))
  /\ SF_vars(CheckTimer)

-----------------------------------------------------------------------------
(* The response a fetch resolves to is the one to its own request,         *)
(* whatever connection it was sent on and however that one was used and    *)
(* closed before (fetch.js:1594-1603, 1618-1630).                          *)
OwnResponse == \A f \in Fetches : fetch[f].answer \in Fetches => fetch[f].answer = f

(* Every open socket is known to somebody who will close it: the expiry    *)
(* timer, by way of the pool, or a fetch that is still in connect() or     *)
(* sendRequest() on it (fetch.js:916-977, "close this connection, release  *)
(* all resources").                                                *)
NoLostSocket ==
  \A c \in Conns : conn[c].socket # "none" =>
    \/ c \in pool
    \/ \E f \in Fetches : fetch[f].pc \in Pending /\ fetch[f].conn = c

(* A reader that waits for more of a body has a connection that is         *)
(* receiving it for the very request, and no other reader has that one.    *)
ReaderServed ==
  \A f \in Fetches : fetch[f].body = "open" =>
    \E c \in Conns : /\ conn[c].reader = f /\ conn[c].request = f
                     /\ conn[c].state = "RESPONSE_START" /\ c \in pool

(* A request is written only to a connection that nothing else is on: the  *)
(* server owes no response there and no other fetch waits for one, so a    *)
(* connection that was kept can be used again (fetch.js:1122-1166, 1594).  *)
CleanReuse ==
  \A f \in Fetches : LET c == fetch[f].conn IN
    fetch[f].pc \in {"ready", "head"} /\ conn[c].socket = "up" =>
      /\ wire[c] = Silent /\ conn[c].callback = None /\ conn[c].reader = None
      /\ \A g \in Fetches \ {f} : fetch[g].pc \in Pending => fetch[g].conn # c

(* What a call of fetch() has come to, as its caller and the server see it. *)
Stage(f) ==
  CASE At(f, "new")                                       -> "new"
    [] fetch[f].pc \in {"lookup", "tcp", "ready", "head"} -> "made"
    [] fetch[f].pc \in {"body", "response"}               -> "sent"
    [] At(f, "done") /\ fetch[f].answer \in Fetches       -> "replied"
    [] OTHER                                              -> "failed"

Caller == INSTANCE RequestReply
            WITH Calls <- Fetches, stage <- [f \in Fetches |-> Stage(f)],
                 replies <- [f \in Fetches |-> {fetch[f].answer} \cap Fetches]

(* Whatever the pool, the expiry timer and the server do to connections, a *)
(* caller of fetch() sees its request sent and its promise settled once,   *)
(* by the response to that request or by a failure; what comes of the      *)
(* connection afterwards is nothing to it (fetch.js:898-1203).             *)
KeepsFetches == Caller!Spec

(* Responses do not go on for ever. *)
FiniteBodies == <>[][\A c \in Conns : ~ReplyData(c)]_vars

(* Every fetch ends: with a response, an error, or null when the timer     *)
(* closed a connection on which nothing moved for 10 s.                    *)
FetchEnds ==
  FiniteBodies =>
    \A f \in Fetches : fetch[f].pc \in Pending ~> fetch[f].pc = "done"

(* So does the body of a response. *)
BodyEnds ==
  FiniteBodies => \A f \in Fetches : fetch[f].body = "open" ~> fetch[f].body # "open"

(* A closed connection does not stay in the pool while the timer runs. *)
PoolDrains ==
  \A c \in Conns :
    (c \in pool /\ conn[c].state = "CLOSED" /\ checkTimer)
      ~> (c \notin pool \/ ~checkTimer)

(* The reader of a body that came to its end has had all of it. *)
BodyWhole == \A f \in Fetches : fetch[f].body # "cut"
=============================================================================
