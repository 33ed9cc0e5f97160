---------------------------- MODULE NativeHandles ----------------------------
(***************************************************************************)
(* The native objects of the runtime: streams (streams.c, streams_tcp.c),  *)
(* child processes (process.c), signal handlers (signals.c), UDP sockets   *)
(* (udp.c) and timers (timers.c).  Each is a C structure that holds a      *)
(* libuv handle; a script object points to it, libuv points to it, and     *)
(* the C callbacks that libuv is in the middle of point to it.             *)
(*                                                                         *)
(* `stack' is the C stack above the event loop, innermost frame first.  A  *)
(* frame is a C function that has called a script function: while its      *)
(* `script' is TRUE that script runs, and may call native methods, which   *)
(* may call scripts again; afterwards the C function goes on (the action   *)
(* named after the frame).  libuv calls nothing while the stack is used.   *)
(*                                                                         *)
(* A promise that a native method returned is pending until the request   *)
(* or the structure that holds it settles it; a settled promise is a job   *)
(* of the script engine.  The engine runs jobs in the order they were      *)
(* made; here in any order.  Reads, names and data are left out, and so    *)
(* are servers (listen, accept), pipes, terminals, ref and unref.          *)
(***************************************************************************)
EXTENDS Naturals, Sequences

CONSTANTS Handles,      \* the structures other than timers
          Timers,       \* the timers
          Promises,     \* the promises of native methods
          Kinds,        \* the kinds of handles the script makes
          Listeners,    \* the events the script sets a callback for
          MaxDepth,     \* bound: native calls inside of one another
          KeepWaiting,  \* a script waits once for a process, and keeps it till then
          None

ASSUME NamesAreDistinct ==
  /\ Handles \cap Timers = {}
  /\ None \notin Handles \cup Timers \cup Promises
ASSUME DepthIsNat == MaxDepth \in Nat
ASSUME KindsAreKnown == Kinds \subseteq {"stream", "process", "signal", "udp"}
ASSUME ProvisoIsBoolean == KeepWaiting \in BOOLEAN

VARIABLES handle, timer, promise, stack

hvars == <<handle, timer, promise, stack>>
-----------------------------------------------------------------------------
AllEvents == {"connect", "message", "error", "close", "signal"}
ASSUME ListenersAreEvents == Listeners \subseteq AllEvents

(* The callbacks of the enumerations that the code ever calls. *)
EventsOf(k) == CASE k = "stream" -> {"connect", "message", "error", "close"}
                 [] k = "udp"    -> {"message", "error"}
                 [] OTHER        -> {}

(* The callback libuv has been given for a handle and will call.           *)
Watches == {"none", "read", "child", "signal", "recv", "message"}

Structure ==
  [kind: {"none", "stream", "process", "signal", "udp"}, memory: BOOLEAN,
   uv: {"open", "closing", "closed"}, ref: BOOLEAN, finalized: BOOLEAN,
   events: SUBSET AllEvents, watch: Watches, connected: BOOLEAN,
   read_start: BOOLEAN, slot: Promises \cup {None}]

Unused == [kind |-> "none", memory |-> FALSE, uv |-> "closed", ref |-> FALSE,
           finalized |-> TRUE, events |-> {}, watch |-> "none",
           connected |-> FALSE, read_start |-> FALSE, slot |-> None]

(* `self' is timer->obj, `func' whether timer->func is still there,        *)
(* `again' whether libuv restarts the timer when it is due.                *)
TimerStructure ==
  [memory: BOOLEAN, uv: {"open", "closing", "closed"}, ref: BOOLEAN,
   self: BOOLEAN, func: BOOLEAN, interval: BOOLEAN, again: BOOLEAN,
   running: BOOLEAN]

UnusedTimer == [memory |-> FALSE, uv |-> "closed", ref |-> FALSE,
                self |-> FALSE, func |-> FALSE, interval |-> FALSE,
                again |-> FALSE, running |-> FALSE]

(* "slot" is a promise kept in the structure of a process or UDP socket,   *)
(* the next four are requests that libuv has.                              *)
Requests == {"connect", "write", "shutdown", "send"}
Promise == [state: {"free", "settled", "slot"} \cup Requests,
            on: Handles \cup {None}]
NoPromise == [state |-> "free", on |-> None]
Settled   == [state |-> "settled", on |-> None]

Functions == {"main", "jobs", "connect", "eof", "failed", "ended", "clear",
              "close", "udp_error", "timer"}
Frame == [fn: Functions, on: Handles \cup Timers \cup {None}, script: BOOLEAN]

Init == /\ handle = [h \in Handles |-> Unused]
        /\ timer = [t \in Timers |-> UnusedTimer]
        /\ promise = [p \in Promises |-> NoPromise]
        /\ stack = <<[fn |-> "main", on |-> None, script |-> TRUE]>>
-----------------------------------------------------------------------------
Top == Head(stack)
Script == stack # <<>> /\ Top.script
Goes(f) == stack # <<>> /\ ~Top.script /\ Top.fn = f

F(f, x, s) == [fn |-> f, on |-> x, script |-> s]
Push(f, x, s) == stack' = <<F(f, x, s)>> \o stack
Turn(f, x, s) == stack' = <<F(f, x, s)>> \o Tail(stack)
Pop == stack' = Tail(stack)
Frames == {stack[i] : i \in DOMAIN stack}
OnStack(x) == \E f \in Frames : f.on = x

Jobs == {p \in Promises : promise[p].state = "settled"}
Waiting(h, s) == {p \in Promises : promise[p] = [state |-> s, on |-> h]}
RequestsOn(h) == {p \in Promises : promise[p].on = h}
SettleAll(P) == promise' = [p \in Promises |-> IF p \in P THEN Settled ELSE promise[p]]
Start(p, s, h) == /\ promise[p].state = "free"
                  /\ promise' = [promise EXCEPT ![p] = [state |-> s, on |-> h]]

(* The script has the object and calls a method of it. *)
Calls(h, k) == Script /\ handle[h].ref /\ handle[h].kind = k
Fires(h, k, w) == /\ stack = <<>>
                  /\ handle[h].kind = k /\ handle[h].uv = "open" /\ handle[h].watch = w

(* maybe_close of each kind: uv_close() once, which stops the callbacks.   *)
MaybeClose(r) == IF r.uv = "open" THEN [r EXCEPT !.uv = "closing", !.watch = "none"] ELSE r

(* free(): the contents are gone, and those who point to it still do.      *)
FreeStructure(r) == [Unused EXCEPT !.uv = r.uv, !.ref = r.ref]

(* Mutant: the finalizer does not wait for the close callback.             *)
FinalizedAtOnce(r) ==
  FreeStructure([MaybeClose(r) EXCEPT !.ref = FALSE])

(* Mutant: the finalizer leaves the handle open.                           *)
FinalizedOnly(r) ==
  LET c == [r EXCEPT !.finalized = TRUE, !.ref = FALSE, !.events = {},
                     !.read_start = FALSE, !.slot = None]
  IN  IF r.uv = "closed" THEN FreeStructure(c) ELSE c

(* The finalizers: clear, then free the structure, or close the handle and *)
(* leave the structure to its close callback.                              *)
Finalized(r) ==
  LET c == [r EXCEPT !.finalized = TRUE, !.ref = FALSE, !.events = {},
                     !.read_start = FALSE, !.slot = None]
  IN  IF r.uv = "closed" THEN FreeStructure(c) ELSE MaybeClose(c)

(* The receive that a UDP socket settles when it is cleared.               *)
Cut(r) == IF r.kind = "udp" THEN {r.slot} ELSE {}

New(h, k, w) ==
  /\ Script /\ ~handle[h].memory /\ k \in Kinds
  /\ handle' = [handle EXCEPT ![h] =
       [kind |-> k, memory |-> TRUE, uv |-> "open", ref |-> TRUE, finalized |-> FALSE,
        events |-> IF k = "signal" THEN {"signal"} ELSE {}, watch |-> w,
        connected |-> FALSE, read_start |-> FALSE, slot |-> None]]
  /\ UNCHANGED <<timer, promise, stack>>

NewStream(h) == New(h, "stream", "none")
Spawn(h)     == New(h, "process", "child")
NewSignal(h) == New(h, "signal", "signal")
NewUdp(h)    == New(h, "udp", "none")

(* The last reference of the script goes, and with it the object: the      *)
(* finalizer runs.  A method that is under way holds its object.           *)
Drop(h) ==
  /\ Script /\ handle[h].ref
  /\ ~\E f \in Frames : f.fn = "close" /\ f.on = h
  /\ KeepWaiting /\ handle[h].kind = "process" => handle[h].slot = None
  /\ handle' = [handle EXCEPT ![h] = Finalized(@)]
  /\ SettleAll(Cut(handle[h]))
  /\ UNCHANGED <<timer, stack>>

Unset(h, e) ==
  /\ Script /\ handle[h].ref /\ e \in EventsOf(handle[h].kind)
  /\ e \in handle[h].events
  /\ handle' = [handle EXCEPT ![h].events = @ \ {e}]
  /\ UNCHANGED <<timer, promise, stack>>
-----------------------------------------------------------------------------
(* Streams.  uv_read_start() fails unless the stream is connected.         *)
ReadStart(r) ==
  [r EXCEPT !.read_start = TRUE,
            !.watch = IF r.connected /\ r.uv = "open" THEN "read" ELSE @]

(* tjs_stream_read_start() does nothing when the flag is set already. *)
Resumed(r) == IF r.read_start THEN r ELSE ReadStart(r)

WithCallback(r, e) == [r EXCEPT !.events = @ \cup {e}]

SetStreamEvent(h, e) ==
  /\ Calls(h, "stream") /\ e \in EventsOf("stream")
  /\ LET r == IF e = "message" THEN Resumed(handle[h]) ELSE handle[h]
     IN  handle' = [handle EXCEPT ![h] = WithCallback(r, e)]
  /\ UNCHANGED <<timer, promise, stack>>

Resume(h) ==
  /\ Calls(h, "stream")
  /\ handle' = [handle EXCEPT ![h] = Resumed(@)]
  /\ UNCHANGED <<timer, promise, stack>>

Pause(h) ==
  /\ Calls(h, "stream")
  /\ handle' = [handle EXCEPT ![h] = [@ EXCEPT !.read_start = FALSE, !.watch = "none"]]
  /\ UNCHANGED <<timer, promise, stack>>

Connect(h, p) ==
  /\ Calls(h, "stream") /\ handle[h].uv = "open" /\ ~handle[h].connected
  /\ Waiting(h, "connect") = {}
  /\ Start(p, "connect", h)
  /\ UNCHANGED <<handle, timer, stack>>

(* A write that uv_try_write() did at once is a resolved promise. *)
Write(h, p) ==
  /\ Calls(h, "stream") /\ handle[h].uv = "open"
  /\ \/ handle[h].connected /\ Start(p, "settled", None)
     \/ /\ handle[h].connected \/ Waiting(h, "connect") # {}
        /\ Start(p, "write", h)
  /\ UNCHANGED <<handle, timer, stack>>

Shutdown(h, p) ==
  /\ Calls(h, "stream") /\ handle[h].uv = "open" /\ handle[h].connected
  /\ Waiting(h, "shutdown") = {}
  /\ Start(p, "shutdown", h)
  /\ UNCHANGED <<handle, timer, stack>>

(* tjs_stream_clear() as far as the event CLOSE that it emits. *)
Quieted(r) == [r EXCEPT !.read_start = FALSE, !.watch = IF r.read_start THEN "none" ELSE @]

CloseStream(h) ==
  /\ Calls(h, "stream") /\ Len(stack) < MaxDepth
  /\ handle' = [handle EXCEPT ![h] = Quieted(@)]
  /\ Push("close", h, "close" \in handle[h].events)
  /\ UNCHANGED <<timer, promise>>

CloseStreamGoes ==
  /\ Goes("close")
  /\ handle' = [handle EXCEPT ![Top.on] = MaybeClose([@ EXCEPT !.events = {}])]
  /\ Pop
  /\ UNCHANGED <<timer, promise>>

ConnectDone(h) ==
  /\ stack = <<>> /\ handle[h].uv = "open" /\ Waiting(h, "connect") # {}
  /\ handle' = [handle EXCEPT ![h].connected = TRUE]
  /\ Push("connect", h, "connect" \in handle[h].events)
  /\ UNCHANGED <<timer, promise>>

(* Mutant: reading is not started again when the connection is there. *)
ConnectGoesIdle ==
  /\ Goes("connect")
  /\ SettleAll(Waiting(Top.on, "connect"))
  /\ Pop
  /\ UNCHANGED <<handle, timer>>

ConnectGoes ==
  /\ Goes("connect")
  /\ handle' = [handle EXCEPT ![Top.on] = IF @.read_start THEN ReadStart(@) ELSE @]
  /\ SettleAll(Waiting(Top.on, "connect"))
  /\ Pop
  /\ UNCHANGED timer

ConnectFails(h) ==
  /\ stack = <<>> /\ handle[h].uv = "open" /\ Waiting(h, "connect") # {}
  /\ SettleAll(Waiting(h, "connect"))
  /\ UNCHANGED <<handle, timer, stack>>

(* The callbacks of write, shutdown and send. *)
RequestDone(h, p) ==
  /\ stack = <<>> /\ handle[h].uv = "open"
  /\ p \in RequestsOn(h) /\ Waiting(h, "connect") = {}
  /\ SettleAll({p})
  /\ UNCHANGED <<handle, timer, stack>>

Data(h) ==
  /\ Fires(h, "stream", "read") /\ "message" \in handle[h].events
  /\ Push("main", h, TRUE)
  /\ UNCHANGED <<handle, timer, promise>>

(* The end of the stream, where libuv stops reading, or an error, after    *)
(* which the stream is neither readable nor writable.                      *)
ReadEnded(r, eof) ==
  [r EXCEPT !.watch = IF eof THEN "none" ELSE "read", !.connected = eof]

ReadEnds(h, eof) ==
  /\ Fires(h, "stream", "read")
  /\ handle' = [handle EXCEPT ![h] = ReadEnded(handle[h], eof)]
  /\ Push(IF eof THEN "eof" ELSE "failed", h, "message" \in handle[h].events)
  /\ UNCHANGED <<timer, promise>>

EofGoes ==
  /\ Goes("eof")
  /\ Turn("ended", Top.on, "close" \in handle[Top.on].events)
  /\ UNCHANGED <<handle, timer, promise>>

FailedGoes ==
  /\ Goes("failed")
  /\ handle' = [handle EXCEPT ![Top.on].watch = "none"]
  /\ Turn("ended", Top.on, "error" \in handle[Top.on].events)
  /\ UNCHANGED <<timer, promise>>

EndedGoes ==
  /\ Goes("ended")
  /\ handle' = [handle EXCEPT ![Top.on] = Quieted(@)]
  /\ Turn("clear", Top.on, ~handle[Top.on].finalized /\ "close" \in handle[Top.on].events)
  /\ UNCHANGED <<timer, promise>>

ClearGoes ==
  /\ Goes("clear")
  /\ handle' = [handle EXCEPT ![Top.on].events = {}]
  /\ Pop
  /\ UNCHANGED <<timer, promise>>
-----------------------------------------------------------------------------
(* Child processes: `exited' is that libuv no longer watches the child.    *)
Wait(h, p) ==
  /\ Calls(h, "process")
  /\ KeepWaiting => handle[h].slot = None
  /\ IF handle[h].watch = "none"
     THEN Start(p, "settled", None) /\ UNCHANGED handle
     ELSE /\ Start(p, "slot", None)
          /\ handle' = [handle EXCEPT ![h].slot = p]
  /\ UNCHANGED <<timer, stack>>

ChildExits(h) ==
  /\ Fires(h, "process", "child")
  /\ handle' = [handle EXCEPT ![h] = [MaybeClose(@) EXCEPT !.slot = None]]
  /\ SettleAll({handle[h].slot})
  /\ UNCHANGED <<timer, stack>>

(* Signals. *)
SignalArrives(h) ==
  /\ Fires(h, "signal", "signal")
  /\ Push("main", h, TRUE)
  /\ UNCHANGED <<handle, timer, promise>>

CloseSignal(h) ==
  /\ Calls(h, "signal")
  /\ handle' = [handle EXCEPT ![h] = MaybeClose(@)]
  /\ UNCHANGED <<timer, promise, stack>>

(* UDP.  uv_udp_recv_start() fails while the handle receives already, and  *)
(* the setter of onmessage does not look at its result.                    *)
RecvStart(r) ==
  [r EXCEPT !.read_start = TRUE, !.watch = IF @ = "none" THEN "message" ELSE @]

SetUdpEvent(h, e) ==
  /\ Calls(h, "udp") /\ e \in EventsOf("udp") /\ handle[h].uv = "open"
  /\ LET r == IF e = "message" /\ ~handle[h].read_start THEN RecvStart(handle[h])
              ELSE handle[h]
     IN  handle' = [handle EXCEPT ![h] = WithCallback(r, e)]
  /\ UNCHANGED <<timer, promise, stack>>

Recv(h, p) ==
  /\ Calls(h, "udp") /\ handle[h].uv = "open"
  /\ handle[h].slot = None /\ handle[h].watch = "none"
  /\ Start(p, "slot", None)
  /\ handle' = [handle EXCEPT ![h] = [@ EXCEPT !.slot = p, !.watch = "recv"]]
  /\ UNCHANGED <<timer, stack>>

Send(h, p) ==
  /\ Calls(h, "udp") /\ handle[h].uv = "open"
  /\ Start(p, "settled", None) \/ Start(p, "send", h)
  /\ UNCHANGED <<handle, timer, stack>>

(* Mutant: a receive that is pending is forgotten. *)
CloseUdpSilently(h) ==
  /\ Calls(h, "udp")
  /\ handle' = [handle EXCEPT ![h] = MaybeClose([@ EXCEPT !.slot = None, !.events = {}])]
  /\ UNCHANGED <<timer, promise, stack>>

CloseUdp(h) ==
  /\ Calls(h, "udp")
  /\ handle' = [handle EXCEPT ![h] = MaybeClose([@ EXCEPT !.slot = None, !.events = {}])]
  /\ SettleAll({handle[h].slot})
  /\ UNCHANGED <<timer, stack>>

Received(h) ==
  /\ Fires(h, "udp", "recv")
  /\ handle' = [handle EXCEPT ![h] = [@ EXCEPT !.slot = None, !.watch = "none"]]
  /\ SettleAll({handle[h].slot})
  /\ UNCHANGED <<timer, stack>>

Datagram(h) ==
  /\ Fires(h, "udp", "message") /\ "message" \in handle[h].events
  /\ Push("main", h, TRUE)
  /\ UNCHANGED <<handle, timer, promise>>

UdpFails(h) ==
  /\ Fires(h, "udp", "message")
  /\ Push("udp_error", h, "error" \in handle[h].events)
  /\ UNCHANGED <<handle, timer, promise>>

UdpErrorGoes ==
  /\ Goes("udp_error")
  /\ Turn("main", Top.on, "message" \in handle[Top.on].events)
  /\ UNCHANGED <<handle, timer, promise>>
-----------------------------------------------------------------------------
(* The close callbacks.  libuv first cancels the requests of the handle.   *)
CloseCallback(h) ==
  /\ stack = <<>> /\ handle[h].uv = "closing"
  /\ SettleAll(RequestsOn(h))
  /\ LET r == [handle[h] EXCEPT !.uv = "closed"]
     IN  handle' = [handle EXCEPT ![h] = IF r.finalized THEN FreeStructure(r) ELSE r]
  /\ UNCHANGED <<timer, stack>>

(* Timers: `zero' is an interval of no time, which libuv takes for none.   *)
SetTimeout(t, interval, zero) ==
  /\ Script /\ ~timer[t].memory
  /\ timer' = [timer EXCEPT ![t] =
       [memory |-> TRUE, uv |-> "open", ref |-> TRUE, self |-> TRUE, func |-> TRUE,
        interval |-> interval, again |-> interval /\ ~zero, running |-> TRUE]]
  /\ UNCHANGED <<handle, promise, stack>>

(* tjs_timer_clear(): the timer may hold the last reference to its object, *)
(* whose finalizer closes the handle.                                      *)
Cleared(r) ==
  [r EXCEPT !.func = FALSE, !.self = FALSE,
            !.uv = IF r.self /\ ~r.ref THEN "closing" ELSE @,
            !.running = @ /\ ~(r.self /\ ~r.ref)]

ClearTimeout(t) ==
  /\ Script /\ timer[t].ref
  /\ timer' = [timer EXCEPT ![t] = [Cleared(@) EXCEPT !.running = FALSE]]
  /\ UNCHANGED <<handle, promise, stack>>

DroppedTimer(r) ==
  [r EXCEPT !.ref = FALSE, !.func = @ /\ r.self,
            !.uv = IF r.self THEN @ ELSE "closing"]

DropTimer(t) ==
  /\ Script /\ timer[t].ref
  /\ timer' = [timer EXCEPT ![t] = DroppedTimer(@)]
  /\ UNCHANGED <<handle, promise, stack>>

TimerDue(t) ==
  /\ stack = <<>> /\ timer[t].running
  /\ timer' = [timer EXCEPT ![t].running = timer[t].again]
  /\ Push("jobs", t, FALSE)
  /\ UNCHANGED <<handle, promise>>

TimerGoes ==
  /\ Goes("timer")
  /\ timer' = [timer EXCEPT ![Top.on] = IF @.interval THEN @ ELSE Cleared(@)]
  /\ Pop
  /\ UNCHANGED <<handle, promise>>

TimerClosed(t) ==
  /\ stack = <<>> /\ timer[t].uv = "closing"
  /\ timer' = [timer EXCEPT ![t] = [UnusedTimer EXCEPT !.ref = timer[t].ref, !.self = timer[t].self]]
  /\ UNCHANGED <<handle, promise, stack>>
-----------------------------------------------------------------------------
(* tjs_execute_pending_jobs(): a frame of its own in the check callback    *)
(* (on = None), and the first part of a timer's callback (on = the timer). *)
StartJobs ==
  /\ stack = <<>> /\ Jobs # {}
  /\ Push("jobs", None, FALSE)
  /\ UNCHANGED <<handle, timer, promise>>

RunJob(p) ==
  /\ Goes("jobs") /\ p \in Jobs
  /\ promise' = [promise EXCEPT ![p] = NoPromise]
  /\ Turn("jobs", Top.on, TRUE)
  /\ UNCHANGED <<handle, timer>>

JobsDone ==
  /\ Goes("jobs") /\ Jobs = {}
  /\ IF Top.on \in Timers
     THEN Turn("timer", Top.on, timer[Top.on].func)
     ELSE Pop
  /\ UNCHANGED <<handle, timer, promise>>

(* The script function returns to its caller. *)
Return ==
  /\ Script
  /\ IF Top.fn = "main" THEN Pop ELSE Turn(Top.fn, Top.on, FALSE)
  /\ UNCHANGED <<handle, timer, promise>>

(* A message without a listener. *)
MainGoes == Goes("main") /\ Pop /\ UNCHANGED <<handle, timer, promise>>

(* TJS_FreeRuntime() frees the context: no script runs again, its jobs are *)
(* dropped and every object is finalized that nothing else holds.          *)
FreeContext ==
  /\ stack = <<>>
  /\ handle' = [h \in Handles |-> IF handle[h].ref THEN Finalized(handle[h]) ELSE handle[h]]
  /\ timer' = [t \in Timers |-> IF timer[t].ref THEN DroppedTimer(timer[t]) ELSE timer[t]]
  /\ promise' = [p \in Promises |-> IF promise[p].on = None THEN NoPromise ELSE promise[p]]
  /\ UNCHANGED stack
-----------------------------------------------------------------------------
(* What a script may do, what the C functions go on with, what libuv calls *)
(* for timers, for I/O and for closed handles.                             *)
ScriptStep ==
  \/ Return
  \/ \E h \in Handles :
       \/ NewStream(h) \/ Spawn(h) \/ NewSignal(h) \/ NewUdp(h) \/ Drop(h)
       \/ Resume(h) \/ Pause(h) \/ CloseStream(h) \/ CloseSignal(h) \/ CloseUdp(h)
       \/ \E e \in Listeners : SetStreamEvent(h, e) \/ SetUdpEvent(h, e) \/ Unset(h, e)
       \/ \E p \in Promises : \/ Connect(h, p) \/ Write(h, p) \/ Shutdown(h, p)
                              \/ Wait(h, p) \/ Recv(h, p) \/ Send(h, p)
  \/ \E t \in Timers :
       \/ \E interval, zero \in BOOLEAN : SetTimeout(t, interval, zero)
       \/ ClearTimeout(t) \/ DropTimer(t)

Continues ==
  \/ CloseStreamGoes \/ ConnectGoes \/ EofGoes \/ FailedGoes \/ EndedGoes \/ ClearGoes
  \/ UdpErrorGoes \/ TimerGoes \/ JobsDone \/ MainGoes
  \/ \E p \in Promises : RunJob(p)

IoCallback ==
  \E h \in Handles :
    \/ ConnectDone(h) \/ ConnectFails(h) \/ Data(h) \/ ReadEnds(h, TRUE) \/ ReadEnds(h, FALSE)
    \/ ChildExits(h) \/ SignalArrives(h) \/ Received(h) \/ Datagram(h) \/ UdpFails(h)
    \/ \E p \in Promises : RequestDone(h, p)

Closed == (\E h \in Handles : CloseCallback(h)) \/ (\E t \in Timers : TimerClosed(t))

Next == \/ ScriptStep \/ Continues \/ IoCallback \/ Closed
        \/ \E t \in Timers : TimerDue(t)
        \/ StartJobs \/ FreeContext

Spec == Init /\ [][Next]_hvars
-----------------------------------------------------------------------------
TypeOK ==
  /\ handle \in [Handles -> Structure]
  /\ timer \in [Timers -> TimerStructure]
  /\ promise \in [Promises -> Promise]
  /\ stack \in Seq(Frame)

(* A structure is freed once and only when nothing points to it any more:  *)
(* not a script object, not libuv (an open or closing handle, a request),  *)
(* not a C function that a script has interrupted.  The finalizer and the  *)
(* close callback of each kind leave it to one another (streams.c:91, 200, *)
(* process.c:54, 90, signals.c:46, 69, udp.c:107, 231, timers.c:80, 106).   *)
NoUseAfterFree ==
  /\ \A h \in Handles : ~handle[h].memory =>
       ~handle[h].ref /\ handle[h].uv = "closed" /\ ~OnStack(h) /\ RequestsOn(h) = {}
  /\ \A t \in Timers : ~timer[t].memory =>
       ~timer[t].ref /\ ~timer[t].self /\ timer[t].uv = "closed" /\ ~OnStack(t)

(* Somebody will settle every promise that a native method returned: a     *)
(* request that libuv has on a handle that is not closed, or a structure   *)
(* that is not finalized and that keeps just this promise.                 *)
NoLostPromise ==
  \A p \in Promises :
    /\ promise[p].state \in Requests =>
         \E h \in Handles : promise[p].on = h /\ handle[h].uv # "closed"
    /\ promise[p].state = "slot" =>
         \E h \in Handles : handle[h].slot = p /\ handle[h].uv = "open" /\ ~handle[h].finalized

(* A promise is settled once: by what it waits for, while it does.  No     *)
(* late, cancelled or repeated callback settles a promise that nobody has  *)
(* asked for or that was settled before, and a job is lost only with its   *)
(* context (utils.c:329, streams.c:183, process.c:188, udp.c:131, 367).    *)
SettledOnce ==
  [][\A p \in Promises : promise'[p] # promise[p] =>
       \/ promise[p].state = "free" /\ Script
       \/ promise[p].state \in Requests \cup {"slot"} /\ promise'[p] = Settled
       \/ promise[p].state = "settled" /\ RunJob(p)
       \/ promise'[p] = NoPromise /\ FreeContext]_hvars

(* The flag read_start and libuv agree when no callback is under way: a    *)
(* connected stream that has not been paused delivers what arrives,        *)
(* whichever of connect(), resume(), pause() and the setter of onmessage   *)
(* came first (streams.c:172, 258, 384, 456).                              *)
ReaderListens ==
  stack = <<>> =>
    \A h \in Handles :
      handle[h].kind = "stream" /\ handle[h].uv = "open" /\ handle[h].connected
        => handle[h].read_start = (handle[h].watch = "read")
=============================================================================
