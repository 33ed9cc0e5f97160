------------------------- MODULE NativeHandlesProofs -------------------------
(***************************************************************************)
(* Theorems about the native objects, for any number of handles, timers    *)
(* and promises and any depth of calls inside of one another: memory is    *)
(* used safely, no promise is lost, and a connected stream listens as its  *)
(* flag says.                                                              *)
(***************************************************************************)
EXTENDS NativeHandles, TLAPS

(* What holds of a structure at every moment: it is either unused or has   *)
(* an object, or else its handle is closing and its close callback will    *)
(* free it.  A callback, a receive or a wait needs an open handle.         *)
Sound(r) ==
  /\ ~r.memory => r = Unused
  /\ r.memory => r.ref = ~r.finalized /\ (r.finalized => r.uv = "closing")
  /\ r.watch # "none" => r.uv = "open"
  /\ r.watch = "read" => r.read_start /\ r.kind = "stream"
  /\ r.kind = "process" => r.watch \in {"none", "child"}
  /\ r.connected => r.kind = "stream"
  /\ r.slot # None => \/ r.kind = "process" /\ r.watch = "child"
                      \/ r.kind = "udp" /\ r.watch = "recv"

(* A timer is open as long as its object exists: the script or the timer   *)
(* itself refers to it.                                                    *)
SoundTimer(r) ==
  /\ ~r.memory => r = UnusedTimer
  /\ r.memory => r.uv # "closed" /\ (r.uv = "open" <=> (r.ref \/ r.self))

StreamFunctions == {"connect", "eof", "failed", "ended", "clear", "close"}

(* What a C function that a script has interrupted may rely on. *)
FrameInv(f) ==
  /\ f.fn \in StreamFunctions \cup {"udp_error"} => f.on \in Handles
  /\ f.fn \in {"main"} => f.on \in Handles \cup {None}
  /\ f.fn = "timer" => f.on \in Timers
  /\ f.fn = "jobs" => f.on \in Timers \cup {None}
  /\ f.fn \in StreamFunctions => handle[f.on].kind = "stream"
  /\ f.fn = "close" => handle[f.on].ref
  /\ f.fn # "close" /\ f.on \in Handles => handle[f.on].uv # "closed"
  /\ f.on \in Timers => timer[f.on].uv # "closed"

RequestInv(p) ==
  /\ promise[p].state \in Requests <=> promise[p].on # None
  /\ promise[p].on # None => handle[promise[p].on].uv # "closed"
  /\ promise[p].state = "connect" => handle[promise[p].on].kind = "stream"

HandlesOK == handle \in [Handles -> Structure] /\ \A h \in Handles : Sound(handle[h])
TimersOK == timer \in [Timers -> TimerStructure] /\ \A t \in Timers : SoundTimer(timer[t])
FramesOK == stack \in Seq(Frame) /\ \A f \in Frames : FrameInv(f)
RequestsOK == promise \in [Promises -> Promise] /\ \A p \in Promises : RequestInv(p)

MemoryInv == HandlesOK /\ TimersOK /\ FramesOK /\ RequestsOK

-----------------------------------------------------------------------------
(* The stack as a set of frames *)

LEMMA FrameShape ==
  ASSUME NEW f \in Functions, NEW x \in Handles \cup Timers \cup {None}, NEW b \in BOOLEAN
  PROVE  F(f, x, b) \in Frame /\ F(f, x, b).fn = f /\ F(f, x, b).on = x /\ F(f, x, b).script = b
BY DEF F, Frame

LEMMA TopFrame ==
  ASSUME stack \in Seq(Frame)
  PROVE  /\ stack # <<>> => Top \in Frames /\ Top \in Frame
         /\ stack = <<>> => Frames = {}
         /\ Frames \subseteq Frame
<1>1. Frames \subseteq Frame
  BY DEF Frames
<1>2. ASSUME stack # <<>> PROVE Top \in Frames
  <2>1. Len(stack) \in Nat /\ Len(stack) > 0 /\ DOMAIN stack = 1 .. Len(stack) /\ Head(stack) = stack[1]
    BY <1>2
  <2> QED BY <2>1 DEF Frames, Top
<1>3. stack = <<>> => Frames = {}
  BY DEF Frames
<1> QED BY <1>1, <1>2, <1>3

LEMMA Pushed ==
  ASSUME stack \in Seq(Frame), NEW f \in Frame, stack' = <<f>> \o stack
  PROVE  stack' \in Seq(Frame) /\ Frames' = Frames \cup {f}
<1>1. <<f>> \in Seq(Frame)
  OBVIOUS
<1>2. stack' \in Seq(Frame) /\ Len(stack') = 1 + Len(stack)
  BY <1>1
<1>3. /\ stack'[1] = f
      /\ \A i \in 1 .. Len(stack) : stack'[i + 1] = stack[i]
      /\ \A i \in 2 .. Len(stack) + 1 : stack'[i] = stack[i - 1]
  BY <1>1
<1>4. Frames' \subseteq Frames \cup {f}
  BY <1>2, <1>3 DEF Frames
<1>5. f \in Frames'
  BY <1>2, <1>3 DEF Frames
<1>6. ASSUME NEW i \in 1 .. Len(stack) PROVE stack[i] \in Frames'
  <2>1. i + 1 \in DOMAIN stack' /\ stack'[i + 1] = stack[i]
    BY <1>2, <1>3
  <2> QED BY <2>1 DEF Frames
<1>7. Frames \subseteq Frames'
  BY <1>6 DEF Frames
<1> QED BY <1>2, <1>4, <1>5, <1>7

LEMMA Popped ==
  ASSUME stack \in Seq(Frame), stack # <<>>, stack' = Tail(stack)
  PROVE  /\ stack' \in Seq(Frame)
         /\ Frames' \subseteq Frames /\ Frames \subseteq Frames' \cup {Top}
<1>1. /\ stack' \in Seq(Frame) /\ Len(stack') = Len(stack) - 1 /\ Len(stack) \in Nat
      /\ \A i \in 1 .. Len(stack) - 1 : stack'[i] = stack[i + 1]
      /\ Top = stack[1]
  BY DEF Top
<1>2. Frames' \subseteq Frames
  BY <1>1 DEF Frames
<1>3. ASSUME NEW i \in 1 .. Len(stack), i # 1 PROVE stack[i] \in Frames'
  <2>1. i - 1 \in 1 .. Len(stack) - 1 /\ (i - 1) + 1 = i
    BY <1>1, <1>3
  <2>2. stack'[i - 1] = stack[i] /\ i - 1 \in DOMAIN stack'
    BY <1>1, <2>1
  <2> QED BY <2>2 DEF Frames
<1> QED BY <1>1, <1>2, <1>3 DEF Frames

LEMMA Turned ==
  ASSUME stack \in Seq(Frame), stack # <<>>, NEW f \in Frame, stack' = <<f>> \o Tail(stack)
  PROVE  /\ stack' \in Seq(Frame) /\ f \in Frames'
         /\ Frames' \subseteq Frames \cup {f} /\ Frames \subseteq Frames' \cup {Top}
<1>1. /\ Tail(stack) \in Seq(Frame) /\ Len(Tail(stack)) = Len(stack) - 1 /\ Len(stack) \in Nat
      /\ Len(stack) > 0 /\ <<f>> \in Seq(Frame)
  OBVIOUS
<1>2. stack' \in Seq(Frame) /\ Len(stack') = Len(stack)
  BY <1>1
<1>3. /\ stack'[1] = f /\ Top = stack[1]
      /\ \A i \in 2 .. Len(stack) : stack'[i] = stack[i]
  BY <1>1 DEF Top
<1>4. DOMAIN stack = 1 .. Len(stack) /\ DOMAIN stack' = 1 .. Len(stack)
  BY <1>2
<1>5. f \in Frames'
  BY <1>1, <1>3, <1>4 DEF Frames
<1>6. ASSUME NEW i \in 1 .. Len(stack) PROVE stack'[i] \in Frames \cup {f}
  BY <1>1, <1>3, <1>4 DEF Frames
<1>7. ASSUME NEW i \in 1 .. Len(stack) PROVE stack[i] \in Frames' \cup {Top}
  <2>1. CASE i = 1
    BY <1>3, <2>1
  <2>2. CASE i # 1
    <3>1. stack'[i] = stack[i] /\ i \in DOMAIN stack'
      BY <1>1, <1>3, <1>4, <2>2
    <3> QED BY <3>1 DEF Frames
  <2> QED BY <2>1, <2>2
<1>8. Frames' \subseteq Frames \cup {f}
  BY <1>4, <1>6 DEF Frames
<1>9. Frames \subseteq Frames' \cup {Top}
  BY <1>4, <1>7 DEF Frames
<1> QED BY <1>2, <1>5, <1>8, <1>9

LEMMA FramesKept == UNCHANGED stack => UNCHANGED Frames
BY DEF Frames

-----------------------------------------------------------------------------
(* What the operators on structures change, and what they leave alone *)

UvStates == {"open", "closing", "closed"}

LEMMA StructureFields ==
  ASSUME NEW r \in Structure
  PROVE  /\ \A u \in UvStates : [r EXCEPT !.uv = u] \in Structure
         /\ \A w \in Watches : [r EXCEPT !.watch = w] \in Structure
         /\ \A p \in Promises \cup {None} : [r EXCEPT !.slot = p] \in Structure
         /\ \A E \in SUBSET AllEvents : [r EXCEPT !.events = E] \in Structure
         /\ \A b \in BOOLEAN : [r EXCEPT !.read_start = b] \in Structure
         /\ \A b \in BOOLEAN : [r EXCEPT !.connected = b] \in Structure
<1>1. \A u \in UvStates : [r EXCEPT !.uv = u] \in Structure
  BY DEF Structure, UvStates
<1>2. \A w \in Watches : [r EXCEPT !.watch = w] \in Structure
  BY DEF Structure
<1>3. \A p \in Promises \cup {None} : [r EXCEPT !.slot = p] \in Structure
  BY DEF Structure
<1>4. \A E \in SUBSET AllEvents : [r EXCEPT !.events = E] \in Structure
  BY DEF Structure
<1>5. \A b \in BOOLEAN : [r EXCEPT !.read_start = b] \in Structure
  BY DEF Structure
<1>6. \A b \in BOOLEAN : [r EXCEPT !.connected = b] \in Structure
  BY DEF Structure
<1> QED BY <1>1, <1>2, <1>3, <1>4, <1>5, <1>6

(* uv_close() changes the state of the handle and its callback. *)
LEMMA MaybeCloseShape ==
  ASSUME NEW r \in Structure
  PROVE  /\ MaybeClose(r) \in Structure
         /\ MaybeClose(r).kind = r.kind /\ MaybeClose(r).memory = r.memory
         /\ MaybeClose(r).ref = r.ref /\ MaybeClose(r).finalized = r.finalized
         /\ MaybeClose(r).slot = r.slot /\ MaybeClose(r).connected = r.connected
         /\ r.uv = "open" => MaybeClose(r).uv = "closing" /\ MaybeClose(r).watch = "none"
         /\ r.uv # "open" => MaybeClose(r) = r
<1>1. CASE r.uv = "open"
  <2> DEFINE s == [r EXCEPT !.uv = "closing"]
             c == [s EXCEPT !.watch = "none"]
  <2>1. s \in Structure
    BY StructureFields DEF UvStates
  <2>2. c \in Structure
    BY <2>1, StructureFields DEF Watches
  <2>3. MaybeClose(r) = c
    BY <1>1 DEF MaybeClose
  <2>4. /\ c.kind = r.kind /\ c.memory = r.memory /\ c.ref = r.ref
        /\ c.finalized = r.finalized /\ c.slot = r.slot /\ c.connected = r.connected
        /\ c.uv = "closing" /\ c.watch = "none"
    BY DEF Structure
  <2> HIDE DEF c
  <2> QED BY <1>1, <2>2, <2>3, <2>4
<1>2. CASE r.uv # "open"
  BY <1>2 DEF MaybeClose
<1> QED BY <1>1, <1>2

(* The promise that is kept in a structure stays in it. *)
LEMMA SlotShapes ==
  ASSUME NEW r \in Structure
  PROVE  /\ MaybeClose(r).slot = r.slot
         /\ ReadStart(r).slot = r.slot /\ ReadStart(r) \in Structure
         /\ Resumed(r).slot = r.slot /\ Resumed(r) \in Structure
         /\ Quieted(r).slot = r.slot
         /\ RecvStart(r).slot = r.slot /\ RecvStart(r) \in Structure
         /\ \A eof \in BOOLEAN : ReadEnded(r, eof).slot = r.slot
         /\ \A E : [r EXCEPT !.events = E].slot = r.slot
<1>1. MaybeClose(r).slot = r.slot
  BY MaybeCloseShape
<1>2. ReadStart(r).slot = r.slot
  BY DEF ReadStart, Structure
<1>3. ReadStart(r) \in Structure
  <2> DEFINE w == IF r.connected /\ r.uv = "open" THEN "read" ELSE r.watch
  <2>1. w \in Watches
    BY DEF Structure, Watches
  <2>2. [r EXCEPT !.read_start = TRUE] \in Structure
    BY StructureFields
  <2>3. ReadStart(r) = [[r EXCEPT !.read_start = TRUE] EXCEPT !.watch = w]
    BY DEF ReadStart, Structure
  <2> HIDE DEF w
  <2> QED BY <2>1, <2>2, <2>3, StructureFields
<1>4. Resumed(r).slot = r.slot /\ Resumed(r) \in Structure
  BY <1>2, <1>3 DEF Resumed
<1>5. Quieted(r).slot = r.slot
  BY DEF Quieted, Structure
<1>6. RecvStart(r).slot = r.slot
  BY DEF RecvStart, Structure
<1>7. RecvStart(r) \in Structure
  <2> DEFINE w == IF r.watch = "none" THEN "message" ELSE r.watch
  <2>1. w \in Watches
    BY DEF Structure, Watches
  <2>2. [r EXCEPT !.read_start = TRUE] \in Structure
    BY StructureFields
  <2>3. RecvStart(r) = [[r EXCEPT !.read_start = TRUE] EXCEPT !.watch = w]
    BY DEF RecvStart, Structure
  <2> HIDE DEF w
  <2> QED BY <2>1, <2>2, <2>3, StructureFields
<1>8. \A eof \in BOOLEAN : ReadEnded(r, eof).slot = r.slot
  BY DEF ReadEnded, Structure
<1>9. \A E : [r EXCEPT !.events = E].slot = r.slot
  BY DEF Structure
<1> QED BY <1>1, <1>2, <1>3, <1>4, <1>5, <1>6, <1>7, <1>8, <1>9
-----------------------------------------------------------------------------
(* What a step may do to the four parts of the invariant *)

(* Nothing that frames and requests rely on is taken away. *)
HandlesKeep ==
  \A h \in Handles : /\ handle'[h].kind = handle[h].kind /\ handle'[h].ref = handle[h].ref
                     /\ handle[h].uv # "closed" => handle'[h].uv # "closed"
TimersKeep == \A t \in Timers : timer[t].uv # "closed" => timer'[t].uv # "closed"

(* s may take the place of r. *)
Fits(r, s) == /\ s \in Structure /\ Sound(s)
              /\ s.kind = r.kind /\ s.ref = r.ref
              /\ r.uv # "closed" => s.uv # "closed"

LEMMA SameHandles == HandlesOK /\ UNCHANGED handle => HandlesOK' /\ HandlesKeep
BY DEF HandlesOK, HandlesKeep

LEMMA EditedHandle ==
  ASSUME HandlesOK, NEW h \in Handles, NEW s, Fits(handle[h], s),
         handle' = [handle EXCEPT ![h] = s]
  PROVE  HandlesOK' /\ HandlesKeep
BY DEF HandlesOK, HandlesKeep, Fits

LEMMA SameTimers == TimersOK /\ UNCHANGED timer => TimersOK' /\ TimersKeep
BY DEF TimersOK, TimersKeep

LEMMA EditedTimer ==
  ASSUME TimersOK, NEW t \in Timers, NEW s \in TimerStructure, SoundTimer(s),
         timer[t].uv # "closed" => s.uv # "closed",
         timer' = [timer EXCEPT ![t] = s]
  PROVE  TimersOK' /\ TimersKeep
BY DEF TimersOK, TimersKeep

LEMMA SameRequests ==
  RequestsOK /\ HandlesKeep /\ UNCHANGED promise => RequestsOK'
BY NamesAreDistinct DEF RequestsOK, RequestInv, HandlesKeep, Promise

LEMMA SettledRequests ==
  ASSUME RequestsOK, HandlesKeep, NEW P, SettleAll(P)
  PROVE  RequestsOK'
BY NamesAreDistinct
   DEF RequestsOK, RequestInv, HandlesKeep, Promise, SettleAll, Settled, Requests

LEMMA StartedRequest ==
  ASSUME RequestsOK, HandlesKeep, NEW p \in Promises, NEW st, NEW h,
         Start(p, st, h),
         \/ st \in {"settled", "slot"} /\ h = None
         \/ /\ st \in Requests /\ h \in Handles /\ handle[h].uv # "closed"
            /\ st = "connect" => handle[h].kind = "stream"
  PROVE  RequestsOK'
BY NamesAreDistinct DEF RequestsOK, RequestInv, HandlesKeep, Promise, Start, Requests

LEMMA FrameStays ==
  ASSUME HandlesKeep, TimersKeep, NEW f \in Frame, FrameInv(f)
  PROVE  FrameInv(f)'
BY NamesAreDistinct DEF FrameInv, HandlesKeep, TimersKeep, StreamFunctions, Frame

LEMMA SameFrames ==
  FramesOK /\ HandlesKeep /\ TimersKeep /\ UNCHANGED stack => FramesOK'
BY FrameStays, FramesKept, TopFrame DEF FramesOK

LEMMA PoppedFrame ==
  FramesOK /\ HandlesKeep /\ TimersKeep /\ stack # <<>> /\ Pop => FramesOK'
BY FrameStays, Popped, TopFrame DEF FramesOK, Pop

LEMMA PushedFrame ==
  ASSUME FramesOK, HandlesKeep, TimersKeep, NEW f, NEW x, NEW b,
         F(f, x, b) \in Frame, FrameInv(F(f, x, b))', Push(f, x, b)
  PROVE  FramesOK'
BY FrameStays, Pushed, TopFrame DEF FramesOK, Push

LEMMA TurnedFrame ==
  ASSUME FramesOK, HandlesKeep, TimersKeep, stack # <<>>, NEW f, NEW x, NEW b,
         F(f, x, b) \in Frame, FrameInv(F(f, x, b))', Turn(f, x, b)
  PROVE  FramesOK'
BY FrameStays, Turned, TopFrame DEF FramesOK, Turn
-----------------------------------------------------------------------------
(* The calls of the script *)

LEMMA NewKeeps ==
  ASSUME MemoryInv, NEW h \in Handles,
         NewStream(h) \/ Spawn(h) \/ NewSignal(h) \/ NewUdp(h)
  PROVE  MemoryInv'
<1>1. PICK k \in {"stream", "process", "signal", "udp"}, w \in {"none", "child", "signal"} :
        New(h, k, w) /\ (k = "process" => w = "child")
  BY DEF NewStream, Spawn, NewSignal, NewUdp
<1> DEFINE s == handle'[h]
<1>2. /\ ~handle[h].memory /\ handle[h] = Unused
      /\ UNCHANGED <<timer, promise, stack>> /\ stack \in Seq(Frame)
  BY <1>1 DEF New, MemoryInv, HandlesOK, Sound, FramesOK
<1>3. HandlesOK'
  <2>1. s = [kind |-> k, memory |-> TRUE, uv |-> "open", ref |-> TRUE, finalized |-> FALSE,
             events |-> IF k = "signal" THEN {"signal"} ELSE {}, watch |-> w,
             connected |-> FALSE, read_start |-> FALSE, slot |-> None]
    BY <1>1 DEF New, MemoryInv, HandlesOK
  <2>2. s \in Structure
    BY <2>1 DEF Structure, Watches, AllEvents
  <2>3. /\ s.kind = k /\ s.watch = w /\ s.memory = TRUE /\ s.uv = "open" /\ s.ref = TRUE
        /\ s.finalized = FALSE /\ s.connected = FALSE /\ s.slot = None
    BY <2>1
  <2>4. handle' = [handle EXCEPT ![h] = s]
    BY <1>1 DEF New, MemoryInv, HandlesOK
  <2> HIDE DEF s
  <2>5. w # "read"
    OBVIOUS
  <2>6. Sound(s)
    BY <1>1, <2>3, <2>5 DEF Sound
  <2> QED BY <2>2, <2>4, <2>6 DEF MemoryInv, HandlesOK
<1>4. /\ \A g \in Handles : g # h => handle'[g] = handle[g]
      /\ handle'[h].uv # "closed"
  BY <1>1 DEF New, MemoryInv, HandlesOK
<1>5. RequestsOK'
  <2>1. handle[h].uv = "closed"
    BY <1>2 DEF Unused
  <2> QED BY <1>2, <1>4, <2>1, NamesAreDistinct
          DEF MemoryInv, RequestsOK, RequestInv, Promise, Requests
<1>6. \A f \in Frames : f \in Frame /\ FrameInv(f)
  BY TopFrame DEF MemoryInv, FramesOK
<1>7. \A f \in Frames : f.on # h
  BY <1>2, <1>6, NamesAreDistinct DEF FrameInv, Unused, Frame
<1>8. \A f \in Frames : FrameInv(f)'
  BY <1>2, <1>4, <1>6, <1>7, NamesAreDistinct DEF FrameInv, Frame, StreamFunctions
<1>9. FramesOK'
  BY <1>2, <1>8, FramesKept DEF FramesOK
<1> QED BY <1>2, <1>3, <1>5, <1>9, SameTimers DEF MemoryInv

LEMMA FinalizedSound ==
  ASSUME NEW r \in Structure, Sound(r), r.ref
  PROVE  /\ Finalized(r) \in Structure /\ Sound(Finalized(r)) /\ ~Finalized(r).ref
         /\ r.uv # "closed" => Finalized(r).uv = "closing" /\ Finalized(r).kind = r.kind
         /\ r.uv = "closed" => Finalized(r) = Unused
         /\ Finalized(r).slot = None /\ Finalized(r).uv # "open"
<1> DEFINE c == [r EXCEPT !.finalized = TRUE, !.ref = FALSE, !.events = {},
                          !.read_start = FALSE, !.slot = None]
<1>1. /\ c \in Structure /\ c.ref = FALSE /\ c.finalized = TRUE /\ c.slot = None
      /\ c.uv = r.uv /\ c.kind = r.kind /\ c.memory = r.memory
      /\ c.watch = r.watch /\ c.connected = r.connected
  BY DEF Structure
<1>2. r.memory
  BY DEF Sound, Unused
<1>3. CASE r.uv = "closed"
  <2>1. Finalized(r) = [Unused EXCEPT !.uv = "closed", !.ref = FALSE]
    BY <1>1, <1>3 DEF Finalized, FreeStructure
  <2>2. Finalized(r) = Unused
    BY <2>1 DEF Unused
  <2> QED BY <1>3, <2>2 DEF Unused, Structure, Sound, Watches
<1>4. CASE r.uv # "closed"
  <2> HIDE DEF c
  <2>1. Finalized(r) = MaybeClose(c)
    BY <1>4 DEF Finalized, c
  <2> DEFINE s == MaybeClose(c)
  <2>2. /\ s \in Structure /\ s.kind = r.kind /\ s.memory = r.memory
        /\ s.ref = FALSE /\ s.finalized = TRUE /\ s.slot = None
        /\ s.connected = r.connected
    BY <1>1, MaybeCloseShape
  <2>3. s.uv = "closing" /\ s.watch = "none"
    <3>1. r.uv = "open" => s.uv = "closing" /\ s.watch = "none"
      BY <1>1, MaybeCloseShape
    <3>2. r.uv = "closing" => s = c /\ r.watch = "none"
      BY <1>1, MaybeCloseShape DEF Sound
    <3>3. r.uv \in {"open", "closing"}
      BY <1>4 DEF Structure
    <3> QED BY <1>1, <3>1, <3>2, <3>3
  <2> HIDE DEF s
  <2>4. Sound(s)
    BY <1>2, <2>2, <2>3 DEF Sound
  <2> QED BY <1>4, <2>1, <2>2, <2>3, <2>4 DEF s
<1> QED BY <1>3, <1>4

LEMMA DropKeeps ==
  ASSUME MemoryInv, NEW h \in Handles, Drop(h)
  PROVE  MemoryInv'
<1>1. /\ handle[h] \in Structure /\ Sound(handle[h]) /\ handle[h].ref
      /\ handle \in [Handles -> Structure]
      /\ handle' = [handle EXCEPT ![h] = Finalized(handle[h])]
      /\ SettleAll(Cut(handle[h])) /\ UNCHANGED <<timer, stack>>
  BY DEF Drop, MemoryInv, HandlesOK
<1> DEFINE s == Finalized(handle[h])
<1>2. /\ s \in Structure /\ Sound(s)
      /\ handle[h].uv # "closed" => s.uv = "closing" /\ s.kind = handle[h].kind
  BY <1>1, FinalizedSound
<1> HIDE DEF s
<1>3. /\ handle'[h] = s /\ \A g \in Handles : g # h => handle'[g] = handle[g]
      /\ handle' \in [Handles -> Structure]
  BY <1>1, <1>2 DEF s
<1>4. HandlesOK'
  BY <1>2, <1>3 DEF MemoryInv, HandlesOK
<1>5. \A g \in Handles : handle[g].uv # "closed" =>
        handle'[g].uv # "closed" /\ handle'[g].kind = handle[g].kind
  BY <1>2, <1>3
<1>6. RequestsOK'
  BY <1>1, <1>5, NamesAreDistinct
     DEF MemoryInv, RequestsOK, RequestInv, Promise, SettleAll, Settled, Requests
<1>7. \A f \in Frames : f \in Frame /\ FrameInv(f)
  BY TopFrame DEF MemoryInv, FramesOK
<1>8. \A f \in Frames : f.on = h => f.fn # "close"
  BY DEF Drop
<1>9. \A f \in Frames : f.on = h => s.kind = handle[h].kind /\ s.uv # "closed"
  BY <1>2, <1>7, <1>8 DEF FrameInv
<1>10. \A f \in Frames : FrameInv(f)'
  <2> SUFFICES ASSUME NEW f \in Frames PROVE FrameInv(f)'
    OBVIOUS
  <2>1. FrameInv(f) /\ f \in Frame
    BY <1>7
  <2>2. CASE f.on = h
    BY <1>1, <1>3, <1>8, <1>9, <2>1, <2>2, NamesAreDistinct DEF FrameInv, StreamFunctions
  <2>3. CASE f.on # h
    BY <1>1, <1>3, <2>1, <2>3, NamesAreDistinct DEF FrameInv, StreamFunctions
  <2> QED BY <2>2, <2>3
<1>11. FramesOK'
  BY <1>1, <1>10, FramesKept DEF FramesOK, MemoryInv
<1> QED BY <1>1, <1>4, <1>6, <1>11, SameTimers DEF MemoryInv

LEMMA InUse ==
  ASSUME NEW r \in Structure, Sound(r), r.ref \/ r.kind # "none" \/ r.uv # "closed"
  PROVE  r.memory
BY DEF Sound, Unused, Structure

LEMMA ReadStartFits ==
  ASSUME NEW r \in Structure, Sound(r), r.kind = "stream"
  PROVE  Fits(r, ReadStart(r)) /\ Fits(r, Resumed(r)) /\ Fits(r, Quieted(r))
<1>1. r.memory
  BY InUse
<1>2. Fits(r, ReadStart(r))
  BY <1>1 DEF ReadStart, Fits, Structure, Sound, Watches
<1>3. Fits(r, Resumed(r))
  BY <1>2 DEF Resumed, Fits
<1>4. Fits(r, Quieted(r))
  BY <1>1 DEF Quieted, Fits, Structure, Sound, Watches
<1> QED BY <1>2, <1>3, <1>4

(* The close of a handle, with what else its function writes before.       *)
LEMMA MaybeCloseFit ==
  ASSUME NEW r \in Structure, Sound(r), r.memory, NEW s \in Structure,
         s.kind = r.kind, s.memory = r.memory, s.ref = r.ref, s.finalized = r.finalized,
         s.connected = r.connected, s.uv = r.uv, s.watch = r.watch,
         s.read_start = r.read_start, s.slot = None
  PROVE  Fits(r, MaybeClose(s))
<1> DEFINE c == MaybeClose(s)
<1>1. /\ c \in Structure /\ c.kind = r.kind /\ c.memory = r.memory
      /\ c.ref = r.ref /\ c.finalized = r.finalized /\ c.slot = None
      /\ c.connected = r.connected
  BY MaybeCloseShape
<1>2. CASE r.uv = "open"
  <2>1. c.uv = "closing" /\ c.watch = "none"
    BY <1>2, MaybeCloseShape
  <2> HIDE DEF c
  <2>2. Sound(c)
    BY <1>1, <1>2, <2>1 DEF Sound
  <2> QED BY <1>1, <1>2, <2>1, <2>2 DEF Fits, c
<1>3. CASE r.uv # "open"
  <2>1. c = s
    BY <1>3, MaybeCloseShape
  <2>2. Sound(s)
    BY <1>3 DEF Sound
  <2> QED BY <1>1, <1>3, <2>1, <2>2 DEF Fits
<1> QED BY <1>2, <1>3

LEMMA MaybeCloseFits ==
  ASSUME NEW r \in Structure, Sound(r), r.memory
  PROVE  LET c == MaybeClose([r EXCEPT !.slot = None, !.events = {}])
         IN  /\ Fits(r, c)
             /\ r.slot = None => Fits(r, MaybeClose([r EXCEPT !.events = {}]))
             /\ r.slot = None => Fits(r, MaybeClose(r))
             /\ Fits(r, [MaybeClose(r) EXCEPT !.slot = None])
<1> DEFINE n == [r EXCEPT !.slot = None]
           e == [r EXCEPT !.events = {}]
           b == [r EXCEPT !.slot = None, !.events = {}]
<1>1. n \in Structure /\ e \in Structure /\ b \in Structure
  <2>1. n \in Structure /\ e \in Structure
    BY StructureFields
  <2>2. b = [n EXCEPT !.events = {}]
    OBVIOUS
  <2> HIDE DEF n
  <2>3. [n EXCEPT !.events = {}] \in Structure
    BY <2>1, StructureFields
  <2> QED BY <2>1, <2>2, <2>3
<1>2. Fits(r, MaybeClose(b))
  <2>1. /\ b.kind = r.kind /\ b.memory = r.memory /\ b.ref = r.ref
        /\ b.finalized = r.finalized /\ b.connected = r.connected /\ b.uv = r.uv
        /\ b.watch = r.watch /\ b.read_start = r.read_start /\ b.slot = None
    BY DEF Structure
  <2> HIDE DEF b
  <2> QED BY <1>1, <2>1, MaybeCloseFit
<1>3. r.slot = None => Fits(r, MaybeClose(e))
  <2>1. /\ e.kind = r.kind /\ e.memory = r.memory /\ e.ref = r.ref
        /\ e.finalized = r.finalized /\ e.connected = r.connected /\ e.uv = r.uv
        /\ e.watch = r.watch /\ e.read_start = r.read_start /\ e.slot = r.slot
    BY DEF Structure
  <2> HIDE DEF e
  <2> QED BY <1>1, <2>1, MaybeCloseFit
<1>4. r.slot = None => Fits(r, MaybeClose(r))
  BY MaybeCloseFit
<1>5. Fits(r, [MaybeClose(r) EXCEPT !.slot = None])
  <2>1. /\ n.kind = r.kind /\ n.memory = r.memory /\ n.ref = r.ref
        /\ n.finalized = r.finalized /\ n.connected = r.connected /\ n.uv = r.uv
        /\ n.watch = r.watch /\ n.read_start = r.read_start /\ n.slot = None
    BY DEF Structure
  <2>2. [MaybeClose(r) EXCEPT !.slot = None] = MaybeClose(n)
    <3>1. CASE r.uv = "open"
      BY <2>1, <3>1 DEF MaybeClose, Structure
    <3>2. CASE r.uv # "open"
      BY <2>1, <3>2 DEF MaybeClose
    <3> QED BY <3>1, <3>2
  <2> HIDE DEF n
  <2> QED BY <1>1, <2>1, <2>2, MaybeCloseFit
<1> QED BY <1>2, <1>3, <1>4, <1>5

(* A call of the script that only writes into a structure. *)
LEMMA EditKeeps ==
  ASSUME MemoryInv, NEW h \in Handles, NEW s, Fits(handle[h], s),
         handle' = [handle EXCEPT ![h] = s], UNCHANGED <<timer, stack>>,
         RequestsOK' \/ UNCHANGED promise \/ \E P : SettleAll(P)
  PROVE  MemoryInv'
<1>1. HandlesOK' /\ HandlesKeep /\ TimersOK' /\ TimersKeep
  BY EditedHandle, SameTimers DEF MemoryInv
<1> QED BY <1>1, SameRequests, SettledRequests, SameFrames DEF MemoryInv

LEMMA WritesKeep ==
  ASSUME MemoryInv, NEW h \in Handles, NEW e \in AllEvents,
         \/ Unset(h, e) \/ SetStreamEvent(h, e) \/ Resume(h) \/ Pause(h)
         \/ SetUdpEvent(h, e) \/ CloseSignal(h) \/ CloseUdp(h)
  PROVE  MemoryInv'
<1>0. handle[h] \in Structure /\ Sound(handle[h]) /\ handle \in [Handles -> Structure]
  BY DEF MemoryInv, HandlesOK
<1>1. CASE Unset(h, e)
  <2>1. Fits(handle[h], [handle[h] EXCEPT !.events = @ \ {e}])
    BY <1>0, <1>1, InUse DEF Unset, Fits, Sound, Structure
  <2> QED BY <1>0, <1>1, <2>1, EditKeeps DEF Unset
<1>2. CASE SetStreamEvent(h, e)
  <2> DEFINE r == IF e = "message" THEN Resumed(handle[h]) ELSE handle[h]
  <2>1. Fits(handle[h], r) /\ handle[h].ref
    BY <1>0, <1>2, ReadStartFits DEF SetStreamEvent, Calls, Fits
  <2>2. handle' = [handle EXCEPT ![h] = WithCallback(r, e)]
    BY <1>2 DEF SetStreamEvent
  <2> HIDE DEF r
  <2>3. Fits(handle[h], WithCallback(r, e))
    BY <1>0, <2>1, InUse DEF WithCallback, Fits, Sound, Structure
  <2> QED BY <1>2, <2>2, <2>3, EditKeeps DEF SetStreamEvent
<1>3. CASE Resume(h)
  BY <1>0, <1>3, ReadStartFits, EditKeeps DEF Resume, Calls
<1>4. CASE Pause(h)
  <2>1. Fits(handle[h], [handle[h] EXCEPT !.read_start = FALSE, !.watch = "none"])
    BY <1>0, <1>4, InUse DEF Pause, Calls, Fits, Sound, Structure, Watches
  <2> QED BY <1>4, <2>1, EditKeeps DEF Pause
<1>5. CASE SetUdpEvent(h, e)
  <2> DEFINE r == IF e = "message" /\ ~handle[h].read_start THEN RecvStart(handle[h])
                  ELSE handle[h]
  <2>1. handle[h].memory /\ handle[h].kind = "udp" /\ handle[h].uv = "open"
    BY <1>0, <1>5, InUse DEF SetUdpEvent, Calls
  <2>2. Fits(handle[h], RecvStart(handle[h]))
    BY <1>0, <2>1 DEF RecvStart, Fits, Structure, Sound, Watches
  <2>3. Fits(handle[h], r)
    BY <1>0, <2>2 DEF Fits
  <2>4. handle' = [handle EXCEPT ![h] = WithCallback(r, e)]
    BY <1>5 DEF SetUdpEvent
  <2> HIDE DEF r
  <2>5. r \in Structure /\ Sound(r) /\ r.kind = "udp" /\ r.memory
    BY <2>1, <2>3, InUse DEF Fits
  <2>6. Fits(handle[h], WithCallback(r, e))
    BY <2>3, <2>5 DEF WithCallback, Fits, Sound, Structure
  <2> QED BY <1>5, <2>4, <2>6, EditKeeps DEF SetUdpEvent
<1>6. CASE CloseSignal(h)
  <2>1. handle[h].slot = None /\ handle[h].memory
    BY <1>0, <1>6, InUse DEF CloseSignal, Calls, Sound
  <2> QED BY <1>0, <1>6, <2>1, MaybeCloseFits, EditKeeps DEF CloseSignal
<1>7. CASE CloseUdp(h)
  <2>1. handle[h].memory
    BY <1>0, <1>7, InUse DEF CloseUdp, Calls
  <2> QED BY <1>0, <1>7, <2>1, MaybeCloseFits, EditKeeps DEF CloseUdp
<1> QED BY <1>1, <1>2, <1>3, <1>4, <1>5, <1>6, <1>7

LEMMA StartsKeep ==
  ASSUME MemoryInv, NEW h \in Handles, NEW p \in Promises,
         \/ Connect(h, p) \/ Write(h, p) \/ Shutdown(h, p)
         \/ Wait(h, p) \/ Recv(h, p) \/ Send(h, p)
  PROVE  MemoryInv'
<1>0. handle[h] \in Structure /\ Sound(handle[h]) /\ handle \in [Handles -> Structure]
  BY DEF MemoryInv, HandlesOK
<1>1. CASE Connect(h, p) \/ Write(h, p) \/ Shutdown(h, p) \/ Send(h, p)
  <2>1. PICK st \in Requests :
        /\ UNCHANGED <<handle, timer, stack>> /\ handle[h].uv = "open"
        /\ Start(p, st, h) \/ Start(p, "settled", None)
        /\ st = "connect" => handle[h].kind = "stream"
    BY <1>1 DEF Connect, Write, Shutdown, Send, Requests, Calls
  <2>2. HandlesOK' /\ HandlesKeep /\ TimersOK' /\ TimersKeep
    BY <2>1, SameHandles, SameTimers DEF MemoryInv
  <2>3. RequestsOK'
    BY <2>1, <2>2, StartedRequest DEF MemoryInv
  <2> QED BY <2>1, <2>2, <2>3, SameFrames DEF MemoryInv
<1>2. CASE Wait(h, p) /\ UNCHANGED handle
  <2>1. UNCHANGED <<timer, stack>> /\ (Start(p, "settled", None) \/ Start(p, "slot", None))
    BY <1>2 DEF Wait
  <2>2. HandlesOK' /\ HandlesKeep /\ TimersOK' /\ TimersKeep
    BY <1>2, <2>1, SameHandles, SameTimers DEF MemoryInv
  <2>3. RequestsOK'
    BY <2>1, <2>2, StartedRequest DEF MemoryInv
  <2> QED BY <2>1, <2>2, <2>3, SameFrames DEF MemoryInv
<1>3. CASE (Wait(h, p) /\ handle' # handle) \/ Recv(h, p)
  <2>1. PICK s : /\ handle' = [handle EXCEPT ![h] = s] /\ Fits(handle[h], s)
                 /\ Start(p, "slot", None) /\ UNCHANGED <<timer, stack>>
    <3>1. CASE Recv(h, p)
      <4>1. Fits(handle[h], [handle[h] EXCEPT !.slot = p, !.watch = "recv"])
        BY <1>0, <3>1, InUse DEF Recv, Calls, Fits, Sound, Structure, Watches
      <4> QED BY <3>1, <4>1 DEF Recv
    <3>2. CASE Wait(h, p) /\ handle' # handle
      <4>1. /\ handle[h].kind = "process" /\ handle[h].watch # "none"
            /\ handle[h].memory
        BY <1>0, <3>2, InUse DEF Wait, Calls
      <4>2. handle[h].watch = "child"
        BY <1>0, <4>1 DEF Sound, Structure, Watches
      <4>3. Fits(handle[h], [handle[h] EXCEPT !.slot = p])
        BY <1>0, <4>1, <4>2 DEF Fits, Sound, Structure, Watches
      <4> QED BY <3>2, <4>3 DEF Wait
    <3> QED BY <1>3, <3>1, <3>2
  <2>2. HandlesKeep /\ HandlesOK'
    BY <2>1, EditedHandle DEF MemoryInv
  <2>3. RequestsOK'
    BY <2>1, <2>2, StartedRequest DEF MemoryInv
  <2> QED BY <2>1, <2>3, EditKeeps
<1> QED BY <1>1, <1>2, <1>3
-----------------------------------------------------------------------------
(* The callbacks of libuv, and how the C functions go on *)

(* A script runs in the new frame if the script has set the callback. *)
LEMMA ScriptOfPush ==
  ASSUME NEW f, NEW x, NEW e, NEW S, Push(f, x, e \in S)
  PROVE  \E b \in BOOLEAN : Push(f, x, b)
<1> WITNESS (e \in S) \in BOOLEAN
<1> QED OBVIOUS

LEMMA ScriptOfTurn ==
  ASSUME NEW f, NEW x, NEW e, NEW S, Turn(f, x, e \in S)
  PROVE  \E b \in BOOLEAN : Turn(f, x, b)
<1> WITNESS (e \in S) \in BOOLEAN
<1> QED OBVIOUS

LEMMA PushKeeps ==
  ASSUME MemoryInv, NEW h \in Handles, NEW s, Fits(handle[h], s),
         handle' = [handle EXCEPT ![h] = s], UNCHANGED <<timer, promise>>,
         NEW f \in StreamFunctions \cup {"main", "udp_error"}, NEW b \in BOOLEAN, Push(f, h, b),
         f \in StreamFunctions => handle[h].kind = "stream",
         f = "close" => handle[h].ref,
         f # "close" => handle[h].uv # "closed"
  PROVE  MemoryInv'
<1>1. HandlesOK' /\ HandlesKeep /\ TimersOK' /\ TimersKeep
  BY EditedHandle, SameTimers DEF MemoryInv
<1>2. /\ F(f, h, b) \in Frame /\ F(f, h, b).fn = f /\ F(f, h, b).on = h
  BY DEF F, Frame, Functions, StreamFunctions
<1>3. FrameInv(F(f, h, b))'
  BY <1>1, <1>2, NamesAreDistinct DEF FrameInv, HandlesKeep, StreamFunctions, F
<1>4. FramesOK'
  BY <1>1, <1>2, <1>3, PushedFrame DEF MemoryInv
<1> QED BY <1>1, <1>4, SameRequests DEF MemoryInv

(* The frame on the top, while its C function goes on. *)
LEMMA GoesOn ==
  ASSUME MemoryInv, NEW f \in StreamFunctions \cup {"udp_error"}, Goes(f)
  PROVE  /\ stack # <<>> /\ Top.on \in Handles
         /\ handle[Top.on] \in Structure /\ Sound(handle[Top.on])
         /\ f \in StreamFunctions => handle[Top.on].kind = "stream"
         /\ f = "close" => handle[Top.on].ref
         /\ f # "close" => handle[Top.on].uv # "closed"
         /\ handle[Top.on].memory
<1>1. stack # <<>> /\ Top \in Frames /\ Top.fn = f /\ FrameInv(Top) /\ HandlesOK
  BY TopFrame DEF MemoryInv, FramesOK, Goes
<1>2. Top.on \in Handles /\ handle[Top.on] \in Structure /\ Sound(handle[Top.on])
  BY <1>1 DEF FrameInv, HandlesOK
<1>3. /\ f \in StreamFunctions => handle[Top.on].kind = "stream"
      /\ f = "close" => handle[Top.on].ref
      /\ f # "close" => handle[Top.on].uv # "closed"
  BY <1>1, <1>2 DEF FrameInv
<1> QED BY <1>1, <1>2, <1>3, InUse

LEMMA PopKeeps ==
  ASSUME MemoryInv, stack # <<>>, NEW h \in Handles, NEW s, Fits(handle[h], s),
         handle' = [handle EXCEPT ![h] = s], UNCHANGED timer, Pop,
         UNCHANGED promise \/ \E P : SettleAll(P)
  PROVE  MemoryInv'
<1>1. HandlesOK' /\ HandlesKeep /\ TimersOK' /\ TimersKeep
  BY EditedHandle, SameTimers DEF MemoryInv
<1> QED BY <1>1, SameRequests, SettledRequests, PoppedFrame DEF MemoryInv

LEMMA TurnKeeps ==
  ASSUME MemoryInv, NEW g \in StreamFunctions \cup {"udp_error"}, Goes(g), g # "close",
         NEW s, Fits(handle[Top.on], s),
         handle' = [handle EXCEPT ![Top.on] = s], UNCHANGED <<timer, promise>>,
         NEW f \in {"ended", "clear", "main"}, NEW b \in BOOLEAN, Turn(f, Top.on, b),
         f # "main" => g \in StreamFunctions
  PROVE  MemoryInv'
<1>0. stack # <<>> /\ Top.on \in Handles
  BY GoesOn
<1> DEFINE h == Top.on
<1>1. h \in Handles /\ handle[h].uv # "closed" /\ (f # "main" => handle[h].kind = "stream")
  BY GoesOn
<1>2. HandlesOK' /\ HandlesKeep /\ TimersOK' /\ TimersKeep
  BY <1>1, EditedHandle, SameTimers DEF MemoryInv
<1>2a. Turn(f, h, b) /\ stack # <<>>
  BY <1>0
<1> HIDE DEF h
<1>3. F(f, h, b) \in Frame /\ F(f, h, b).fn = f /\ F(f, h, b).on = h
  BY <1>1 DEF F, Frame, Functions
<1>4. handle'[h].uv # "closed" /\ (f # "main" => handle'[h].kind = "stream")
  BY <1>1, <1>2 DEF HandlesKeep
<1>5. \A x : x = h => FrameInv(F(f, x, b))'
  BY <1>1, <1>2, <1>3, <1>4, NamesAreDistinct DEF FrameInv, StreamFunctions, F
<1>6. FramesOK'
  BY <1>2, <1>2a, <1>3, <1>5, PushedFrame, TurnedFrame DEF MemoryInv
<1> QED BY <1>2, <1>6, SameRequests DEF MemoryInv

LEMMA CallbacksKeep ==
  ASSUME MemoryInv, NEW h \in Handles, NEW eof \in BOOLEAN,
         \/ ConnectDone(h) \/ Data(h) \/ ReadEnds(h, eof) \/ SignalArrives(h)
         \/ Datagram(h) \/ UdpFails(h) \/ CloseStream(h)
  PROVE  MemoryInv'
<1>0. handle[h] \in Structure /\ Sound(handle[h]) /\ handle \in [Handles -> Structure]
  BY DEF MemoryInv, HandlesOK
<1>1. Fits(handle[h], handle[h]) /\ [handle EXCEPT ![h] = handle[h]] = handle
  BY <1>0 DEF Fits
<1>2. CASE Data(h) \/ SignalArrives(h) \/ Datagram(h)
  <2>1. UNCHANGED <<handle, timer, promise>> /\ Push("main", h, TRUE) /\ handle[h].uv = "open"
    BY <1>2 DEF Data, SignalArrives, Datagram, Fires
  <2> QED BY <1>1, <2>1, PushKeeps DEF StreamFunctions
<1>3. CASE UdpFails(h)
  <2>1. PICK b \in BOOLEAN :
          /\ UNCHANGED <<handle, timer, promise>> /\ handle[h].uv = "open"
          /\ Push("udp_error", h, b)
    BY <1>3, ScriptOfPush DEF UdpFails, Fires
  <2> QED BY <1>1, <2>1, PushKeeps DEF StreamFunctions
<1>4. CASE ConnectDone(h)
  <2>1. PICK p \in Promises : promise[p].on = h /\ promise[p].state = "connect"
    BY <1>4 DEF ConnectDone, Waiting
  <2>2. handle[h].kind = "stream" /\ handle[h].uv = "open" /\ handle[h].memory
    BY <1>0, <1>4, <2>1, InUse DEF MemoryInv, RequestsOK, RequestInv, ConnectDone
  <2>3. Fits(handle[h], [handle[h] EXCEPT !.connected = TRUE])
    BY <1>0, <2>2 DEF Fits, Sound, Structure
  <2>4. PICK b \in BOOLEAN : Push("connect", h, b)
    BY <1>4, ScriptOfPush DEF ConnectDone
  <2>5. /\ handle' = [handle EXCEPT ![h] = [handle[h] EXCEPT !.connected = TRUE]]
        /\ UNCHANGED <<timer, promise>>
    BY <1>4 DEF ConnectDone
  <2> QED BY <2>2, <2>3, <2>4, <2>5, PushKeeps DEF StreamFunctions
<1>5. CASE ReadEnds(h, eof)
  <2>1. /\ handle[h].kind = "stream" /\ handle[h].uv = "open" /\ handle[h].watch = "read"
        /\ handle[h].memory
    BY <1>0, <1>5, InUse DEF ReadEnds, Fires
  <2>2. Fits(handle[h], ReadEnded(handle[h], eof))
    BY <1>0, <2>1 DEF ReadEnded, Fits, Sound, Structure, Watches
  <2>3. PICK f \in {"eof", "failed"}, b \in BOOLEAN : Push(f, h, b)
    BY <1>5, ScriptOfPush DEF ReadEnds
  <2>4. /\ handle' = [handle EXCEPT ![h] = ReadEnded(handle[h], eof)]
        /\ UNCHANGED <<timer, promise>>
    BY <1>5 DEF ReadEnds
  <2> QED BY <2>1, <2>2, <2>3, <2>4, PushKeeps DEF StreamFunctions
<1>6. CASE CloseStream(h)
  <2>1. handle[h].kind = "stream" /\ handle[h].ref
    BY <1>6 DEF CloseStream, Calls
  <2>2. Fits(handle[h], Quieted(handle[h]))
    BY <1>0, <2>1, ReadStartFits
  <2>3. PICK b \in BOOLEAN : Push("close", h, b)
    BY <1>6, ScriptOfPush DEF CloseStream
  <2>4. /\ handle' = [handle EXCEPT ![h] = Quieted(handle[h])] /\ UNCHANGED <<timer, promise>>
    BY <1>6 DEF CloseStream
  <2> QED BY <2>1, <2>2, <2>3, <2>4, PushKeeps DEF StreamFunctions
<1> QED BY <1>2, <1>3, <1>4, <1>5, <1>6

LEMMA ContinuesKeep ==
  ASSUME MemoryInv,
         \/ CloseStreamGoes \/ ConnectGoes \/ EofGoes \/ FailedGoes \/ EndedGoes
         \/ ClearGoes \/ UdpErrorGoes
  PROVE  MemoryInv'
<1>0. \A h \in Handles : handle[h] \in Structure => (Sound(handle[h]) => Fits(handle[h], handle[h]))
  BY DEF Fits
<1>1. handle \in [Handles -> Structure] /\ \A h \in Handles : [handle EXCEPT ![h] = handle[h]] = handle
  BY DEF MemoryInv, HandlesOK
<1>2. CASE CloseStreamGoes
  <2>1. /\ stack # <<>> /\ Top.on \in Handles /\ handle[Top.on] \in Structure
        /\ Sound(handle[Top.on]) /\ handle[Top.on].kind = "stream" /\ handle[Top.on].memory
    BY <1>2, GoesOn DEF CloseStreamGoes, StreamFunctions
  <2>2. handle[Top.on].slot = None
    BY <2>1 DEF Sound
  <2>3. Fits(handle[Top.on], MaybeClose([handle[Top.on] EXCEPT !.events = {}]))
    BY <2>1, <2>2, MaybeCloseFits
  <2> QED BY <1>2, <2>1, <2>3, PopKeeps DEF CloseStreamGoes
<1>3. CASE ConnectGoes
  <2>1. /\ stack # <<>> /\ Top.on \in Handles /\ handle[Top.on] \in Structure
        /\ Sound(handle[Top.on]) /\ handle[Top.on].kind = "stream"
    BY <1>3, GoesOn DEF ConnectGoes, StreamFunctions
  <2>2. PICK s : Fits(handle[Top.on], s) /\ handle' = [handle EXCEPT ![Top.on] = s]
    BY <1>0, <1>3, <2>1, ReadStartFits DEF ConnectGoes
  <2> QED BY <1>3, <2>1, <2>2, PopKeeps DEF ConnectGoes
<1>4. CASE EofGoes
  <2>1. /\ Goes("eof") /\ Top.on \in Handles /\ Fits(handle[Top.on], handle[Top.on])
    BY <1>0, <1>4, GoesOn DEF EofGoes, StreamFunctions
  <2>2. PICK b \in BOOLEAN :
          /\ handle' = [handle EXCEPT ![Top.on] = handle[Top.on]] /\ UNCHANGED <<timer, promise>>
          /\ Turn("ended", Top.on, b)
    BY <1>1, <1>4, <2>1, ScriptOfTurn DEF EofGoes
  <2> QED BY <2>1, <2>2, TurnKeeps DEF StreamFunctions
<1>5. CASE FailedGoes
  <2>1. /\ Goes("failed") /\ Top.on \in Handles /\ handle[Top.on] \in Structure
        /\ Sound(handle[Top.on]) /\ handle[Top.on].memory
    BY <1>5, GoesOn DEF FailedGoes, StreamFunctions
  <2>2. handle[Top.on].kind = "stream"
    BY <2>1, GoesOn DEF StreamFunctions
  <2>3. Fits(handle[Top.on], [handle[Top.on] EXCEPT !.watch = "none"])
    BY <2>1, <2>2 DEF Fits, Sound, Structure, Watches
  <2>4. PICK b \in BOOLEAN :
          /\ handle' = [handle EXCEPT ![Top.on] = [handle[Top.on] EXCEPT !.watch = "none"]]
          /\ UNCHANGED <<timer, promise>> /\ Turn("ended", Top.on, b)
    BY <1>5, ScriptOfTurn DEF FailedGoes
  <2> QED BY <2>1, <2>3, <2>4, TurnKeeps DEF StreamFunctions
<1>6. CASE EndedGoes
  <2>1. /\ Goes("ended") /\ Top.on \in Handles /\ handle[Top.on] \in Structure
        /\ Sound(handle[Top.on]) /\ handle[Top.on].kind = "stream"
    BY <1>6, GoesOn DEF EndedGoes, StreamFunctions
  <2>2. Fits(handle[Top.on], Quieted(handle[Top.on]))
    BY <2>1, ReadStartFits
  <2>3. handle' = [handle EXCEPT ![Top.on] = Quieted(handle[Top.on])]
    BY <1>6 DEF EndedGoes
  <2>4. \E b \in BOOLEAN : Turn("clear", Top.on, b)
    BY <1>6, <2>1 DEF EndedGoes, Structure
  <2> QED BY <1>6, <2>1, <2>2, <2>3, <2>4, TurnKeeps DEF EndedGoes, StreamFunctions
<1>7. CASE ClearGoes
  <2>1. /\ stack # <<>> /\ Top.on \in Handles /\ handle[Top.on] \in Structure
        /\ Sound(handle[Top.on]) /\ handle[Top.on].memory
    BY <1>7, GoesOn DEF ClearGoes, StreamFunctions
  <2>2. Fits(handle[Top.on], [handle[Top.on] EXCEPT !.events = {}])
    BY <2>1 DEF Fits, Sound, Structure
  <2> QED BY <1>7, <2>1, <2>2, PopKeeps DEF ClearGoes
<1>8. CASE UdpErrorGoes
  <2>1. /\ Goes("udp_error") /\ Top.on \in Handles /\ Fits(handle[Top.on], handle[Top.on])
    BY <1>0, <1>8, GoesOn DEF UdpErrorGoes, StreamFunctions
  <2>2. PICK b \in BOOLEAN :
          /\ handle' = [handle EXCEPT ![Top.on] = handle[Top.on]] /\ UNCHANGED <<timer, promise>>
          /\ Turn("main", Top.on, b)
    BY <1>1, <1>8, <2>1, ScriptOfTurn DEF UdpErrorGoes
  <2> QED BY <2>1, <2>2, TurnKeeps
<1> QED BY <1>2, <1>3, <1>4, <1>5, <1>6, <1>7, <1>8

(* The callbacks that run no script. *)
LEMMA QuietCallbacksKeep ==
  ASSUME MemoryInv, NEW h \in Handles,
         \/ ConnectFails(h) \/ ChildExits(h) \/ Received(h)
         \/ \E p \in Promises : RequestDone(h, p)
  PROVE  MemoryInv'
<1>0. handle[h] \in Structure /\ Sound(handle[h]) /\ handle \in [Handles -> Structure]
  BY DEF MemoryInv, HandlesOK
<1>1. CASE ConnectFails(h) \/ \E p \in Promises : RequestDone(h, p)
  <2>1. UNCHANGED <<handle, timer, stack>> /\ \E P : SettleAll(P)
    BY <1>1 DEF ConnectFails, RequestDone
  <2>2. Fits(handle[h], handle[h]) /\ handle' = [handle EXCEPT ![h] = handle[h]]
    BY <1>0, <2>1 DEF Fits
  <2> QED BY <2>1, <2>2, EditKeeps
<1>2. CASE ChildExits(h)
  <2>1. handle[h].memory
    BY <1>0, <1>2, InUse DEF ChildExits, Fires
  <2>2. Fits(handle[h], [MaybeClose(handle[h]) EXCEPT !.slot = None])
    BY <1>0, <2>1, MaybeCloseFits
  <2> QED BY <1>2, <2>2, EditKeeps DEF ChildExits
<1>3. CASE Received(h)
  <2>1. handle[h].memory
    BY <1>0, <1>3, InUse DEF Received, Fires
  <2>2. Fits(handle[h], [handle[h] EXCEPT !.slot = None, !.watch = "none"])
    BY <1>0, <2>1 DEF Fits, Sound, Structure, Watches
  <2> QED BY <1>3, <2>2, EditKeeps DEF Received
<1> QED BY <1>1, <1>2, <1>3

LEMMA CloseCallbackKeeps ==
  ASSUME MemoryInv, NEW h \in Handles, CloseCallback(h)
  PROVE  MemoryInv'
<1> DEFINE r == [handle[h] EXCEPT !.uv = "closed"]
           s == IF r.finalized THEN FreeStructure(r) ELSE r
<1>1. /\ handle[h] \in Structure /\ Sound(handle[h]) /\ handle \in [Handles -> Structure]
      /\ handle[h].uv = "closing" /\ stack = <<>> /\ SettleAll(RequestsOn(h))
      /\ handle' = [handle EXCEPT ![h] = s] /\ UNCHANGED <<timer, stack>>
  BY DEF CloseCallback, MemoryInv, HandlesOK
<1>2. handle[h].memory /\ handle[h].ref = ~handle[h].finalized /\ handle[h].watch = "none"
  BY <1>1, InUse DEF Sound
<1>3. s \in Structure /\ Sound(s)
  <2>1. CASE r.finalized
    <3>1. r.uv = "closed" /\ r.ref = FALSE
      BY <1>1, <1>2, <2>1 DEF Structure
    <3>2. s = Unused
      BY <2>1, <3>1 DEF FreeStructure, Unused
    <3>3. Unused \in Structure /\ Sound(Unused)
      BY DEF Sound, Structure, Unused, Watches
    <3> HIDE DEF s
    <3> QED BY <3>2, <3>3
  <2>2. CASE ~r.finalized
    BY <1>1, <1>2, <2>2 DEF Sound, Structure
  <2> QED BY <2>1, <2>2
<1> HIDE DEF s
<1>4. HandlesOK'
  BY <1>1, <1>3 DEF MemoryInv, HandlesOK
<1>5. RequestsOK'
  <2> SUFFICES ASSUME NEW p \in Promises
               PROVE  promise'[p] \in Promise /\ RequestInv(p)'
    BY <1>1 DEF RequestsOK, SettleAll, MemoryInv
  <2>1. CASE promise[p].on = h
    BY <1>1, <2>1 DEF SettleAll, RequestsOn, Settled, RequestInv, Promise, Requests
  <2>2. CASE promise[p].on # h
    <3>1. promise'[p] = promise[p] /\ promise[p] \in Promise /\ RequestInv(p)
      BY <1>1, <2>2 DEF SettleAll, RequestsOn, MemoryInv, RequestsOK
    <3>2. \A g \in Handles : g # h => handle'[g] = handle[g]
      BY <1>1
    <3> QED BY <2>2, <3>1, <3>2 DEF RequestInv, Promise, Requests
  <2> QED BY <2>1, <2>2
<1>6. FramesOK'
  <2>1. Frames' = {}
    BY <1>1, FramesKept, TopFrame DEF MemoryInv, FramesOK
  <2> QED BY <1>1, <2>1 DEF MemoryInv, FramesOK
<1> QED BY <1>1, <1>4, <1>5, <1>6, SameTimers DEF MemoryInv
-----------------------------------------------------------------------------
(* Timers *)

LEMMA TimerInUse ==
  ASSUME NEW r \in TimerStructure, SoundTimer(r), r.ref \/ r.self \/ r.running \/ r.uv # "closed"
  PROVE  r.memory
BY DEF SoundTimer, UnusedTimer, TimerStructure

LEMMA ClearedSound ==
  ASSUME NEW r \in TimerStructure, SoundTimer(r), r.memory
  PROVE  /\ Cleared(r) \in TimerStructure /\ SoundTimer(Cleared(r))
         /\ Cleared(r).uv # "closed" /\ Cleared(r).memory
<1> DEFINE u == IF r.self /\ ~r.ref THEN "closing" ELSE r.uv
           n == r.running /\ ~(r.self /\ ~r.ref)
<1>1. Cleared(r) = [r EXCEPT !.func = FALSE, !.self = FALSE, !.uv = u, !.running = n]
  BY DEF Cleared
<1>2. u \in {"open", "closing"} /\ (u = "open" <=> r.ref)
  BY DEF SoundTimer, TimerStructure
<1>3. n \in BOOLEAN
  BY DEF TimerStructure
<1> HIDE DEF u, n
<1> QED BY <1>1, <1>2, <1>3 DEF SoundTimer, TimerStructure

LEMMA DroppedTimerSound ==
  ASSUME NEW r \in TimerStructure, SoundTimer(r), r.ref
  PROVE  /\ DroppedTimer(r) \in TimerStructure /\ SoundTimer(DroppedTimer(r))
         /\ DroppedTimer(r).uv # "closed" /\ ~DroppedTimer(r).ref
<1> DEFINE u == IF r.self THEN r.uv ELSE "closing"
           n == r.func /\ r.self
<1>1. DroppedTimer(r) = [r EXCEPT !.ref = FALSE, !.func = n, !.uv = u]
  BY DEF DroppedTimer
<1>2. r.memory
  BY TimerInUse
<1>3. u \in {"open", "closing"} /\ (u = "open" <=> r.self)
  BY <1>2 DEF SoundTimer, TimerStructure
<1>4. n \in BOOLEAN
  BY DEF TimerStructure
<1> HIDE DEF u, n
<1> QED BY <1>1, <1>2, <1>3, <1>4 DEF SoundTimer, TimerStructure

(* A step that only writes into a timer. *)
LEMMA TimerEditKeeps ==
  ASSUME MemoryInv, NEW t \in Timers, NEW s \in TimerStructure, SoundTimer(s),
         timer[t].uv # "closed" => s.uv # "closed", timer' = [timer EXCEPT ![t] = s],
         UNCHANGED <<handle, promise>>
  PROVE  /\ HandlesOK' /\ TimersOK' /\ RequestsOK' /\ HandlesKeep /\ TimersKeep
         /\ UNCHANGED stack => MemoryInv'
<1>1. HandlesOK' /\ HandlesKeep /\ TimersOK' /\ TimersKeep
  BY EditedTimer, SameHandles DEF MemoryInv
<1>2. RequestsOK'
  BY <1>1, SameRequests DEF MemoryInv
<1> QED BY <1>1, <1>2, SameFrames DEF MemoryInv

LEMMA TimersStay ==
  ASSUME MemoryInv, NEW t \in Timers, NEW interval \in BOOLEAN, NEW zero \in BOOLEAN,
         \/ SetTimeout(t, interval, zero) \/ ClearTimeout(t) \/ DropTimer(t)
         \/ TimerDue(t) \/ TimerClosed(t)
  PROVE  MemoryInv'
<1>0. timer[t] \in TimerStructure /\ SoundTimer(timer[t])
  BY DEF MemoryInv, TimersOK
<1>1. CASE SetTimeout(t, interval, zero)
  <2> DEFINE s == [memory |-> TRUE, uv |-> "open", ref |-> TRUE, self |-> TRUE, func |-> TRUE,
                   interval |-> interval, again |-> interval /\ ~zero, running |-> TRUE]
  <2>1. s \in TimerStructure /\ SoundTimer(s) /\ s.uv # "closed"
    <3>1. (interval /\ ~zero) \in BOOLEAN
      OBVIOUS
    <3> QED BY <3>1 DEF TimerStructure, SoundTimer
  <2>2. timer' = [timer EXCEPT ![t] = s] /\ UNCHANGED <<handle, promise, stack>>
    BY <1>1 DEF SetTimeout
  <2> HIDE DEF s
  <2> QED BY <2>1, <2>2, TimerEditKeeps
<1>2. CASE ClearTimeout(t)
  <2> DEFINE s == [Cleared(timer[t]) EXCEPT !.running = FALSE]
  <2>1. timer[t].memory
    BY <1>0, <1>2, TimerInUse DEF ClearTimeout
  <2>2. s \in TimerStructure /\ SoundTimer(s) /\ s.uv # "closed"
    BY <1>0, <2>1, ClearedSound DEF SoundTimer, TimerStructure
  <2>3. timer' = [timer EXCEPT ![t] = s] /\ UNCHANGED <<handle, promise, stack>>
    BY <1>2 DEF ClearTimeout
  <2> HIDE DEF s
  <2> QED BY <2>2, <2>3, TimerEditKeeps
<1>3. CASE DropTimer(t)
  <2>1. timer' = [timer EXCEPT ![t] = DroppedTimer(timer[t])] /\ timer[t].ref
        /\ UNCHANGED <<handle, promise, stack>>
    BY <1>3 DEF DropTimer
  <2> QED BY <1>0, <2>1, DroppedTimerSound, TimerEditKeeps
<1>4. CASE TimerDue(t)
  <2> DEFINE s == [timer[t] EXCEPT !.running = timer[t].again]
  <2>1. timer[t].memory /\ timer[t].again \in BOOLEAN
    BY <1>0, <1>4, TimerInUse DEF TimerDue, TimerStructure
  <2>2. s \in TimerStructure /\ SoundTimer(s) /\ s.uv # "closed"
    BY <1>0, <2>1 DEF SoundTimer, TimerStructure
  <2>3. /\ timer' = [timer EXCEPT ![t] = s] /\ UNCHANGED <<handle, promise>>
        /\ Push("jobs", t, FALSE)
    BY <1>4 DEF TimerDue
  <2>4. HandlesOK' /\ TimersOK' /\ RequestsOK' /\ HandlesKeep /\ TimersKeep /\ timer'[t] = s
    <3>1. timer \in [Timers -> TimerStructure]
      BY DEF MemoryInv, TimersOK
    <3> HIDE DEF s
    <3> QED BY <2>2, <2>3, <3>1, TimerEditKeeps
  <2>5. F("jobs", t, FALSE) \in Frame /\ FrameInv(F("jobs", t, FALSE))'
    BY <2>2, <2>4, NamesAreDistinct DEF F, Frame, Functions, FrameInv, StreamFunctions
  <2>6. FramesOK'
    BY <2>3, <2>4, <2>5, PushedFrame DEF MemoryInv
  <2> QED BY <2>4, <2>6 DEF MemoryInv
<1>5. CASE TimerClosed(t)
  <2>1. /\ stack = <<>> /\ timer[t].uv = "closing" /\ UNCHANGED <<handle, promise, stack>>
        /\ timer' = [timer EXCEPT ![t] = [UnusedTimer EXCEPT !.ref = timer[t].ref,
                                                           !.self = timer[t].self]]
    BY <1>5 DEF TimerClosed
  <2>2. timer[t].ref = FALSE /\ timer[t].self = FALSE
    BY <1>0, <2>1, TimerInUse DEF SoundTimer, TimerStructure
  <2>3. [UnusedTimer EXCEPT !.ref = timer[t].ref, !.self = timer[t].self] = UnusedTimer
    <3> DEFINE s == [UnusedTimer EXCEPT !.ref = timer[t].ref, !.self = timer[t].self]
    <3>1. /\ s.ref = FALSE /\ s.self = FALSE /\ s.memory = FALSE /\ s.uv = "closed"
          /\ s.func = FALSE /\ s.interval = FALSE /\ s.again = FALSE /\ s.running = FALSE
          /\ s \in TimerStructure
      BY <1>0, <2>2 DEF UnusedTimer, TimerStructure
    <3> HIDE DEF s
    <3>2. s = [memory |-> FALSE, uv |-> "closed", ref |-> FALSE, self |-> FALSE,
               func |-> FALSE, interval |-> FALSE, again |-> FALSE, running |-> FALSE]
      BY <3>1 DEF TimerStructure
    <3> QED BY <3>2 DEF UnusedTimer, s
  <2>4. UnusedTimer \in TimerStructure /\ SoundTimer(UnusedTimer)
    BY DEF UnusedTimer, TimerStructure, SoundTimer
  <2>5. TimersOK'
    BY <2>1, <2>3, <2>4 DEF MemoryInv, TimersOK
  <2>6. HandlesOK' /\ HandlesKeep
    BY <2>1, SameHandles DEF MemoryInv
  <2>7. FramesOK'
    <3>1. Frames' = {}
      BY <2>1, FramesKept, TopFrame DEF MemoryInv, FramesOK
    <3> QED BY <2>1, <3>1 DEF MemoryInv, FramesOK
  <2> QED BY <2>1, <2>5, <2>6, <2>7, SameRequests DEF MemoryInv
<1> QED BY <1>1, <1>2, <1>3, <1>4, <1>5

LEMMA TimerGoesKeeps ==
  ASSUME MemoryInv, TimerGoes
  PROVE  MemoryInv'
<1>1. /\ stack # <<>> /\ Top.on \in Timers /\ timer[Top.on].uv # "closed"
      /\ timer[Top.on] \in TimerStructure /\ SoundTimer(timer[Top.on])
  <2>1. stack # <<>> /\ FrameInv(Top) /\ Top.fn = "timer"
    BY TopFrame DEF MemoryInv, FramesOK, TimerGoes, Goes
  <2> QED BY <2>1 DEF FrameInv, MemoryInv, TimersOK
<1>2. timer[Top.on].memory
  BY <1>1, TimerInUse
<1>3. PICK s \in TimerStructure : /\ SoundTimer(s) /\ s.uv # "closed"
                                  /\ timer' = [timer EXCEPT ![Top.on] = s]
  BY <1>1, <1>2, ClearedSound DEF TimerGoes
<1>4. UNCHANGED <<handle, promise>> /\ Pop
  BY DEF TimerGoes
<1>5. HandlesOK' /\ TimersOK' /\ RequestsOK' /\ HandlesKeep /\ TimersKeep
  BY <1>1, <1>3, <1>4, TimerEditKeeps
<1> QED BY <1>1, <1>4, <1>5, PoppedFrame DEF MemoryInv
-----------------------------------------------------------------------------
(* Jobs, and functions that return *)

LEMMA ReframeKeeps ==
  ASSUME MemoryInv, UNCHANGED <<handle, timer>>, RequestsOK',
         \/ stack # <<>> /\ Pop
         \/ Push("jobs", None, FALSE)
         \/ /\ stack # <<>>
            /\ \E f \in Functions, b \in BOOLEAN :
                 /\ Turn(f, Top.on, b)
                 /\ f = Top.fn \/ (f = "timer" /\ Top.fn = "jobs" /\ Top.on \in Timers)
  PROVE  MemoryInv'
<1>1. HandlesOK' /\ HandlesKeep /\ TimersOK' /\ TimersKeep
  BY SameHandles, SameTimers DEF MemoryInv
<1>2. CASE stack # <<>> /\ Pop
  BY <1>1, <1>2, PoppedFrame DEF MemoryInv
<1>3. CASE Push("jobs", None, FALSE)
  <2>1. F("jobs", None, FALSE) \in Frame /\ FrameInv(F("jobs", None, FALSE))'
    BY NamesAreDistinct DEF F, Frame, Functions, FrameInv, StreamFunctions
  <2> QED BY <1>1, <1>3, <2>1, PushedFrame DEF MemoryInv
<1>4. ASSUME stack # <<>>, NEW f \in Functions, NEW b \in BOOLEAN, Turn(f, Top.on, b),
             f = Top.fn \/ (f = "timer" /\ Top.fn = "jobs" /\ Top.on \in Timers)
      PROVE  MemoryInv'
  <2>1. Top \in Frame /\ FrameInv(Top)
    BY <1>4, TopFrame DEF MemoryInv, FramesOK
  <2>2. PICK x \in Handles \cup Timers \cup {None}, g \in Functions : x = Top.on /\ g = Top.fn
    BY <2>1 DEF Frame
  <2>4. /\ F(f, x, b) \in Frame /\ F(f, x, b).fn = f /\ F(f, x, b).on = x
    BY <2>2 DEF F, Frame
  <2>5. FrameInv(F(f, x, b))'
    <3>1. f = g \/ (f = "timer" /\ g = "jobs" /\ x \in Timers)
      BY <1>4, <2>2
    <3>2. FrameInv(Top)
      BY <2>1
    <3>3. FrameInv(F(f, x, b))
      BY <2>2, <2>4, <3>1, <3>2, NamesAreDistinct DEF FrameInv, StreamFunctions
    <3> QED BY <1>1, <2>4, <3>3, FrameStays
  <2>6. Turn(f, x, b)
    BY <1>4, <2>2
  <2>7. FramesOK'
    BY <1>1, <1>4, <2>4, <2>5, <2>6, TurnedFrame DEF MemoryInv
  <2> QED BY <1>1, <2>7 DEF MemoryInv
<1> QED BY <1>2, <1>3, <1>4

LEMMA JobsKeep ==
  ASSUME MemoryInv, StartJobs \/ JobsDone \/ Return \/ MainGoes \/ \E p \in Promises : RunJob(p)
  PROVE  MemoryInv'
<1>0. UNCHANGED promise /\ UNCHANGED <<handle, timer>> => RequestsOK'
  BY SameHandles, SameRequests DEF MemoryInv
<1>1. stack # <<>> => Top.fn \in Functions
  BY TopFrame DEF MemoryInv, FramesOK, Frame
<1>2. CASE StartJobs
  BY <1>0, <1>2, ReframeKeeps DEF StartJobs
<1>3. CASE MainGoes
  BY <1>0, <1>3, ReframeKeeps DEF MainGoes, Goes
<1>4. CASE Return
  <2>1. stack # <<>> /\ UNCHANGED <<handle, timer, promise>>
    BY <1>4 DEF Return, Script
  <2>2. Pop \/ Turn(Top.fn, Top.on, FALSE)
    BY <1>4 DEF Return
  <2> QED BY <1>0, <1>1, <2>1, <2>2, ReframeKeeps
<1>5. CASE JobsDone
  <2>1. /\ stack # <<>> /\ UNCHANGED <<handle, timer, promise>> /\ Top.fn = "jobs"
        /\ Pop \/ (Top.on \in Timers /\ Turn("timer", Top.on, timer[Top.on].func))
    BY <1>5 DEF JobsDone, Goes
  <2>2. ASSUME Top.on \in Timers PROVE timer[Top.on].func \in BOOLEAN
    BY <2>2 DEF MemoryInv, TimersOK, TimerStructure
  <2> QED BY <1>0, <2>1, <2>2, ReframeKeeps DEF Functions
<1>6. ASSUME NEW p \in Promises, RunJob(p) PROVE MemoryInv'
  <2>1. /\ stack # <<>> /\ Top.fn = "jobs" /\ UNCHANGED <<handle, timer>>
        /\ Turn("jobs", Top.on, TRUE) /\ promise' = [promise EXCEPT ![p] = NoPromise]
    BY <1>6 DEF RunJob, Goes
  <2>2. RequestsOK'
    BY <2>1, NamesAreDistinct
       DEF MemoryInv, RequestsOK, RequestInv, Promise, NoPromise, Requests
  <2> QED BY <2>1, <2>2, ReframeKeeps DEF Functions
<1> QED BY <1>2, <1>3, <1>4, <1>5, <1>6

LEMMA FreeContextKeeps ==
  ASSUME MemoryInv, FreeContext
  PROVE  MemoryInv'
<1>1. /\ stack = <<>> /\ UNCHANGED stack
      /\ handle' = [h \in Handles |-> IF handle[h].ref THEN Finalized(handle[h]) ELSE handle[h]]
      /\ timer' = [t \in Timers |-> IF timer[t].ref THEN DroppedTimer(timer[t]) ELSE timer[t]]
      /\ promise' = [p \in Promises |-> IF promise[p].on = None THEN NoPromise ELSE promise[p]]
  BY DEF FreeContext
<1>2. /\ \A h \in Handles : handle[h] \in Structure /\ Sound(handle[h])
      /\ \A t \in Timers : timer[t] \in TimerStructure /\ SoundTimer(timer[t])
  BY DEF MemoryInv, HandlesOK, TimersOK
<1>3. HandlesOK'
  <2>1. ASSUME NEW h \in Handles PROVE handle'[h] \in Structure /\ Sound(handle'[h])
    BY <1>1, <1>2, FinalizedSound
  <2> QED BY <1>1, <2>1 DEF HandlesOK
<1>4. TimersOK'
  <2>1. ASSUME NEW t \in Timers PROVE timer'[t] \in TimerStructure /\ SoundTimer(timer'[t])
    BY <1>1, <1>2, DroppedTimerSound
  <2> QED BY <1>1, <2>1 DEF TimersOK
<1>5. FramesOK'
  <2>1. Frames' = {}
    BY <1>1, FramesKept, TopFrame DEF MemoryInv, FramesOK
  <2> QED BY <1>1, <2>1 DEF MemoryInv, FramesOK
<1>6. RequestsOK'
  <2>1. ASSUME NEW h \in Handles, handle[h].uv # "closed"
        PROVE  handle'[h].uv # "closed" /\ handle'[h].kind = handle[h].kind
    <3>1. CASE handle[h].ref
      BY <1>1, <1>2, <2>1, <3>1, FinalizedSound
    <3>2. CASE ~handle[h].ref
      BY <1>1, <2>1, <3>2
    <3> QED BY <3>1, <3>2
  <2>2. NoPromise \in Promise /\ NoPromise.on = None /\ NoPromise.state \notin Requests
    BY DEF NoPromise, Promise, Requests
  <2>3. \A p \in Promises : promise[p] \in Promise /\ RequestInv(p)
    BY DEF MemoryInv, RequestsOK
  <2>4. \A p \in Promises : promise'[p] \in Promise /\ RequestInv(p)'
    <3> SUFFICES ASSUME NEW p \in Promises PROVE promise'[p] \in Promise /\ RequestInv(p)'
      OBVIOUS
    <3>1. CASE promise[p].on = None
      BY <1>1, <2>2, <3>1 DEF RequestInv, NoPromise, Requests
    <3>2. CASE promise[p].on # None
      BY <1>1, <2>1, <2>3, <3>2 DEF RequestInv, Promise
    <3> QED BY <3>1, <3>2
  <2> QED BY <1>1, <2>4 DEF RequestsOK
<1> QED BY <1>3, <1>4, <1>5, <1>6 DEF MemoryInv
-----------------------------------------------------------------------------
(* The invariant, and what follows from it *)

LEMMA MemoryInit == Init => MemoryInv
<1> SUFFICES ASSUME Init PROVE MemoryInv
  OBVIOUS
<1>1. HandlesOK
  BY DEF Init, HandlesOK, Sound, Unused, Structure, Watches
<1>2. TimersOK
  BY DEF Init, TimersOK, SoundTimer, UnusedTimer, TimerStructure
<1>3. RequestsOK
  BY DEF Init, RequestsOK, RequestInv, Promise, NoPromise, Requests
<1>4. FramesOK
  <2> DEFINE f == [fn |-> "main", on |-> None, script |-> TRUE]
  <2>1. f \in Frame /\ FrameInv(f)
    BY NamesAreDistinct DEF Frame, Functions, FrameInv, StreamFunctions
  <2>2. stack = <<f>>
    BY DEF Init
  <2> HIDE DEF f
  <2>3. stack \in Seq(Frame) /\ Frames = {f}
    BY <2>1, <2>2 DEF Frames
  <2> QED BY <2>1, <2>3 DEF FramesOK
<1> QED BY <1>1, <1>2, <1>3, <1>4 DEF MemoryInv

LEMMA MemoryStep == MemoryInv /\ [Next]_hvars => MemoryInv'
<1> SUFFICES ASSUME MemoryInv, [Next]_hvars PROVE MemoryInv'
  OBVIOUS
<1>1. CASE UNCHANGED hvars
  <2>1. UNCHANGED handle /\ UNCHANGED timer /\ UNCHANGED promise /\ UNCHANGED stack
    BY <1>1 DEF hvars
  <2> QED BY <2>1, SameHandles, SameTimers, SameRequests, SameFrames DEF MemoryInv
<1>2. CASE ScriptStep
  <2>1. ASSUME NEW h \in Handles, NEW e \in Listeners,
               SetStreamEvent(h, e) \/ SetUdpEvent(h, e) \/ Unset(h, e)
        PROVE  MemoryInv'
    BY <2>1, WritesKeep, ListenersAreEvents
  <2>2. ASSUME NEW h \in Handles, Resume(h) \/ Pause(h) \/ CloseSignal(h) \/ CloseUdp(h)
        PROVE  MemoryInv'
    BY <2>2, WritesKeep DEF AllEvents
  <2>3. ASSUME NEW h \in Handles, CloseStream(h) PROVE MemoryInv'
    BY <2>3, CallbacksKeep
  <2> QED BY <1>2, <2>1, <2>2, <2>3, JobsKeep, NewKeeps, DropKeeps, StartsKeep, TimersStay
          DEF ScriptStep
<1>3. CASE Continues
  BY <1>3, ContinuesKeep, TimerGoesKeeps, JobsKeep DEF Continues
<1>4. CASE IoCallback
  BY <1>4, CallbacksKeep, QuietCallbacksKeep DEF IoCallback
<1>5. CASE Closed
  BY <1>5, CloseCallbackKeeps, TimersStay DEF Closed
<1>6. CASE (\E t \in Timers : TimerDue(t)) \/ StartJobs \/ FreeContext
  BY <1>6, TimersStay, JobsKeep, FreeContextKeeps
<1> QED BY <1>1, <1>2, <1>3, <1>4, <1>5, <1>6 DEF Next

(* The structures keep their shapes through every operation: streams.c,    *)
(* process.c, signals.c, udp.c, timers.c and the loop that calls them.     *)
THEOREM HandlesTypeCorrect == Spec => []TypeOK
<1>1. MemoryInv => TypeOK
  BY DEF MemoryInv, HandlesOK, TimersOK, FramesOK, RequestsOK, TypeOK
<1> QED BY <1>1, MemoryInit, MemoryStep, PTL DEF Spec

(* No structure is freed while a script object, libuv, one of its requests *)
(* or an interrupted C function still points to it, whatever scripts do    *)
(* inside of the callbacks, at any depth (streams.c:91, 200, process.c:54, *)
(* 90, signals.c:46, 69, udp.c:107, 231, timers.c:80, 106).                *)
THEOREM MemorySafety == Spec => []NoUseAfterFree
<1>1. ASSUME MemoryInv PROVE NoUseAfterFree
  <2>1. ASSUME NEW h \in Handles, ~handle[h].memory
        PROVE  ~handle[h].ref /\ handle[h].uv = "closed" /\ ~OnStack(h) /\ RequestsOn(h) = {}
    <3>1. handle[h] = Unused
      BY <1>1, <2>1 DEF MemoryInv, HandlesOK, Sound
    <3>2. ~handle[h].ref /\ handle[h].uv = "closed" /\ handle[h].kind = "none"
      BY <3>1 DEF Unused
    <3>3. RequestsOn(h) = {}
      BY <1>1, <3>2, NamesAreDistinct DEF RequestsOn, MemoryInv, RequestsOK, RequestInv
    <3>4. ~OnStack(h)
      BY <1>1, <3>2, NamesAreDistinct DEF OnStack, MemoryInv, FramesOK, FrameInv
    <3> QED BY <3>2, <3>3, <3>4
  <2>2. ASSUME NEW t \in Timers, ~timer[t].memory
        PROVE  ~timer[t].ref /\ ~timer[t].self /\ timer[t].uv = "closed" /\ ~OnStack(t)
    <3>1. timer[t] = UnusedTimer
      BY <1>1, <2>2 DEF MemoryInv, TimersOK, SoundTimer
    <3>2. ~timer[t].ref /\ ~timer[t].self /\ timer[t].uv = "closed"
      BY <3>1 DEF UnusedTimer
    <3>3. ~OnStack(t)
      BY <1>1, <3>2 DEF OnStack, MemoryInv, FramesOK, FrameInv
    <3> QED BY <3>2, <3>3
  <2> QED BY <2>1, <2>2 DEF NoUseAfterFree
<1> QED BY <1>1, MemoryInit, MemoryStep, PTL DEF Spec

-----------------------------------------------------------------------------
(* Promises in structures, and streams that listen *)

(* A promise in a structure is in one structure, and is not settled; one   *)
(* that is nowhere else stays in a structure, if nobody overwrites it.     *)
SlotInv ==
  /\ \A h \in Handles : handle[h].slot # None => promise[handle[h].slot].state = "slot"
  /\ \A h, g \in Handles : handle[h].slot = handle[g].slot /\ h # g => handle[h].slot = None
  /\ KeepWaiting => \A p \in Promises :
       promise[p].state = "slot" => \E h \in Handles : handle[h].slot = p

(* libuv reads while read_start is set; the flag may be ahead of libuv     *)
(* while one of these C functions is under way.                            *)
Readers == {"connect", "eof", "failed", "ended"}
Reading(h) == \E f \in Frames : f.on = h /\ f.fn \in Readers
Listening(r) == r.kind = "stream" /\ r.uv = "open" /\ r.connected /\ r.read_start
                  => r.watch = "read"
ReadInv == \A h \in Handles : Listening(handle[h]) \/ Reading(h)
-----------------------------------------------------------------------------
(* What a step may do to the slots *)

SlotStates == \A p \in Promises : promise'[p].state = "slot" <=> promise[p].state = "slot"
Slots == \A h \in Handles : handle'[h].slot = handle[h].slot

LEMMA SlotsStay == SlotInv /\ MemoryInv /\ Slots /\ SlotStates => SlotInv'
BY NamesAreDistinct DEF SlotInv, Slots, SlotStates, MemoryInv, HandlesOK, Structure

LEMMA SlotCleared ==
  ASSUME SlotInv, MemoryInv, NEW h \in Handles,
         handle'[h].slot = None,
         \A g \in Handles : g # h => handle'[g].slot = handle[g].slot,
         SettleAll({handle[h].slot})
  PROVE  SlotInv'
<1>1. \A g \in Handles : handle[g].slot \in Promises \cup {None}
  BY DEF MemoryInv, HandlesOK, Structure
<1>2. \A p \in Promises : promise'[p] = IF p = handle[h].slot THEN Settled ELSE promise[p]
  BY DEF SettleAll
<1>3. Settled.state # "slot"
  BY DEF Settled
<1>4. ASSUME NEW g \in Handles, handle'[g].slot # None
      PROVE  promise'[handle'[g].slot].state = "slot"
  <2>1. g # h /\ handle'[g].slot = handle[g].slot /\ handle[g].slot # handle[h].slot
    BY <1>4 DEF SlotInv
  <2> QED BY <1>1, <1>2, <1>4, <2>1 DEF SlotInv
<1>5. ASSUME KeepWaiting, NEW p \in Promises, promise'[p].state = "slot"
      PROVE  \E g \in Handles : handle'[g].slot = p
  BY <1>2, <1>3, <1>5 DEF SlotInv
<1>6. \A f, g \in Handles : handle'[f].slot = handle'[g].slot /\ f # g => handle'[f].slot = None
  BY DEF SlotInv
<1> QED BY <1>4, <1>5, <1>6 DEF SlotInv

LEMMA SlotFilled ==
  ASSUME SlotInv, MemoryInv, NEW h \in Handles, NEW p \in Promises,
         handle[h].slot = None \/ ~KeepWaiting, handle'[h].slot = p,
         \A g \in Handles : g # h => handle'[g].slot = handle[g].slot,
         Start(p, "slot", None)
  PROVE  SlotInv'
<1>1. \A g \in Handles : handle[g].slot \in Promises \cup {None}
  BY DEF MemoryInv, HandlesOK, Structure
<1>2. /\ promise[p].state = "free" /\ promise'[p].state = "slot"
      /\ \A q \in Promises : q # p => promise'[q] = promise[q]
  BY DEF Start, MemoryInv, RequestsOK
<1>3. \A g \in Handles : handle[g].slot # p
  <2>1. p # None /\ "free" # "slot"
    BY NamesAreDistinct
  <2>2. \A g \in Handles : handle[g].slot = p => promise[p].state = "slot"
    BY <2>1 DEF SlotInv
  <2> QED BY <1>2, <2>1, <2>2
<1>4. ASSUME NEW g \in Handles, handle'[g].slot # None
      PROVE  promise'[handle'[g].slot].state = "slot"
  <2>1. CASE g = h
    BY <1>2, <2>1
  <2>2. CASE g # h
    BY <1>1, <1>2, <1>3, <1>4, <2>2 DEF SlotInv
  <2> QED BY <2>1, <2>2
<1>5. ASSUME KeepWaiting, NEW q \in Promises, promise'[q].state = "slot"
      PROVE  \E g \in Handles : handle'[g].slot = q
  <2>1. CASE q = p
    BY <2>1
  <2>2. CASE q # p
    <3>1. PICK g \in Handles : handle[g].slot = q
      BY <1>2, <1>5, <2>2 DEF SlotInv
    <3>2. g # h
      BY <1>5, <3>1, NamesAreDistinct
    <3> QED BY <3>1, <3>2
  <2> QED BY <2>1, <2>2
<1>6. \A f, g \in Handles : handle'[f].slot = handle'[g].slot /\ f # g => handle'[f].slot = None
  BY <1>3 DEF SlotInv
<1> QED BY <1>4, <1>5, <1>6 DEF SlotInv

LEMMA SlotDropped ==
  ASSUME SlotInv, MemoryInv, ~KeepWaiting, SlotStates,
         \A g \in Handles : handle'[g].slot \in {handle[g].slot, None}
  PROVE  SlotInv'
BY NamesAreDistinct DEF SlotInv, SlotStates, MemoryInv, HandlesOK, Structure

LEMMA SettledStates ==
  ASSUME NEW P, \A p \in Promises : p \in P => promise[p].state # "slot", SettleAll(P)
  PROVE  SlotStates
BY DEF SlotStates, SettleAll, Settled

LEMMA RequestsAreNoSlots ==
  ASSUME MemoryInv
  PROVE  /\ \A h \in Handles : \A p \in RequestsOn(h) : promise[p].state # "slot"
         /\ \A h, p : p \in Waiting(h, "connect") => promise[p].state # "slot"
<1>1. \A h \in Handles : \A p \in RequestsOn(h) : promise[p].state # "slot"
  BY NamesAreDistinct DEF MemoryInv, RequestsOK, RequestInv, RequestsOn, Requests
<1>2. \A h, p : p \in Waiting(h, "connect") => promise[p].state # "slot"
  BY DEF Waiting
<1> QED BY <1>1, <1>2

LEMMA SameStates == UNCHANGED promise => SlotStates
BY DEF SlotStates

LEMMA StartedStates ==
  ASSUME MemoryInv, NEW p \in Promises, NEW st, NEW h, Start(p, st, h), st # "slot"
  PROVE  SlotStates
BY DEF SlotStates, Start, MemoryInv, RequestsOK
-----------------------------------------------------------------------------
(* The steps *)

(* Only the structure of h changes, but for its slot. *)
SlotKept(h) == /\ handle'[h].slot = handle[h].slot
               /\ \A g \in Handles : g # h => handle'[g] = handle[g]

LEMMA SlotEdit ==
  MemoryInv /\ SlotInv /\ (\E h \in Handles : SlotKept(h)) /\ SlotStates => SlotInv'
BY SlotsStay DEF Slots, SlotKept

LEMMA EditsKeepSlot ==
  ASSUME NEW h \in Handles, NEW s, handle \in [Handles -> Structure],
         handle' = [handle EXCEPT ![h] = s], s.slot = handle[h].slot
  PROVE  SlotKept(h)
BY DEF SlotKept

(* The steps that write into structures and leave the promises there. *)
LEMMA EditsKeepSlots ==
  ASSUME MemoryInv, SlotInv, NEW h \in Handles, NEW e \in AllEvents, NEW eof \in BOOLEAN,
         \/ Unset(h, e) \/ SetStreamEvent(h, e) \/ Resume(h) \/ Pause(h)
         \/ SetUdpEvent(h, e) \/ CloseSignal(h) \/ CloseStream(h)
         \/ ConnectDone(h) \/ ReadEnds(h, eof)
  PROVE  SlotInv'
<1>1. handle[h] \in Structure /\ handle \in [Handles -> Structure]
  BY DEF MemoryInv, HandlesOK
<1>2. UNCHANGED promise /\ SlotKept(h)
  <2>1. CASE Unset(h, e)
    BY <1>1, <2>1 DEF Unset, Structure, SlotKept
  <2>2. CASE SetStreamEvent(h, e)
    <3> DEFINE r == IF e = "message" THEN Resumed(handle[h]) ELSE handle[h]
    <3>1. r \in Structure /\ r.slot = handle[h].slot
      BY <1>1, SlotShapes
    <3>2. handle' = [handle EXCEPT ![h] = WithCallback(r, e)] /\ UNCHANGED promise
      BY <2>2 DEF SetStreamEvent
    <3> HIDE DEF r
    <3>3. WithCallback(r, e).slot = r.slot
      BY <3>1 DEF WithCallback, Structure
    <3> QED BY <1>1, <3>1, <3>2, <3>3, EditsKeepSlot
  <2>3. CASE Resume(h) \/ Pause(h)
    <3>1. CASE Resume(h)
      BY <1>1, <3>1, SlotShapes, EditsKeepSlot DEF Resume
    <3>2. CASE Pause(h)
      BY <1>1, <3>2, EditsKeepSlot DEF Pause, Structure
    <3> QED BY <2>3, <3>1, <3>2
  <2>4. CASE SetUdpEvent(h, e)
    <3> DEFINE r == IF e = "message" /\ ~handle[h].read_start THEN RecvStart(handle[h])
                    ELSE handle[h]
    <3>1. r \in Structure /\ r.slot = handle[h].slot
      BY <1>1, SlotShapes
    <3>2. handle' = [handle EXCEPT ![h] = WithCallback(r, e)] /\ UNCHANGED promise
      BY <2>4 DEF SetUdpEvent
    <3> HIDE DEF r
    <3>3. WithCallback(r, e).slot = r.slot
      BY <3>1 DEF WithCallback, Structure
    <3> QED BY <1>1, <3>1, <3>2, <3>3, EditsKeepSlot
  <2>5. CASE CloseSignal(h) \/ CloseStream(h)
    BY <1>1, <2>5, SlotShapes, EditsKeepSlot DEF CloseSignal, CloseStream
  <2>6. CASE ConnectDone(h)
    <3>1. [handle[h] EXCEPT !.connected = TRUE].slot = handle[h].slot
      BY <1>1 DEF Structure
    <3>2. handle' = [handle EXCEPT ![h] = [handle[h] EXCEPT !.connected = TRUE]]
      BY <2>6 DEF ConnectDone
    <3> QED BY <1>1, <2>6, <3>1, <3>2, EditsKeepSlot DEF ConnectDone
  <2>7. CASE ReadEnds(h, eof)
    BY <1>1, <2>7, SlotShapes, EditsKeepSlot DEF ReadEnds
  <2> QED BY <2>1, <2>2, <2>3, <2>4, <2>5, <2>6, <2>7
<1> QED BY <1>2, SlotEdit, SameStates

LEMMA ContinuesKeepSlots ==
  ASSUME MemoryInv, SlotInv,
         \/ CloseStreamGoes \/ ConnectGoes \/ FailedGoes \/ EndedGoes \/ ClearGoes
  PROVE  SlotInv'
<1>1. /\ Top.on \in Handles /\ handle[Top.on] \in Structure
      /\ handle \in [Handles -> Structure]
  BY GoesOn DEF MemoryInv, HandlesOK, CloseStreamGoes, ConnectGoes, FailedGoes, EndedGoes, ClearGoes, StreamFunctions
<1>2. SlotStates
  <2>1. CASE ConnectGoes
    BY <2>1, RequestsAreNoSlots, SettledStates DEF ConnectGoes
  <2>2. CASE ~ConnectGoes
    BY <2>2, SameStates DEF CloseStreamGoes, FailedGoes, EndedGoes, ClearGoes
  <2> QED BY <2>1, <2>2
<1>3. SlotKept(Top.on)
  <2>1. CASE CloseStreamGoes
    <3> DEFINE e == [handle[Top.on] EXCEPT !.events = {}]
    <3>1. e \in Structure /\ e.slot = handle[Top.on].slot
      BY <1>1, StructureFields, SlotShapes
    <3>2. handle' = [handle EXCEPT ![Top.on] = MaybeClose(e)]
      BY <2>1 DEF CloseStreamGoes
    <3> HIDE DEF e
    <3> QED BY <1>1, <3>1, <3>2, SlotShapes, EditsKeepSlot
  <2>2. CASE ConnectGoes
    <3> DEFINE s == IF handle[Top.on].read_start THEN ReadStart(handle[Top.on])
                    ELSE handle[Top.on]
    <3>1. s.slot = handle[Top.on].slot
      BY <1>1, SlotShapes
    <3>2. handle' = [handle EXCEPT ![Top.on] = s]
      BY <2>2 DEF ConnectGoes
    <3> HIDE DEF s
    <3> QED BY <1>1, <3>1, <3>2, EditsKeepSlot
  <2>3. CASE FailedGoes
    <3>1. [handle[Top.on] EXCEPT !.watch = "none"].slot = handle[Top.on].slot
      BY <1>1 DEF Structure
    <3>2. handle' = [handle EXCEPT ![Top.on] = [handle[Top.on] EXCEPT !.watch = "none"]]
      BY <2>3 DEF FailedGoes
    <3> QED BY <1>1, <3>1, <3>2, EditsKeepSlot
  <2>4. CASE ClearGoes
    <3>1. handle' = [handle EXCEPT ![Top.on] = [handle[Top.on] EXCEPT !.events = {}]]
      BY <2>4 DEF ClearGoes
    <3> QED BY <1>1, <3>1, SlotShapes, EditsKeepSlot
  <2>5. CASE EndedGoes
    BY <1>1, <2>5, SlotShapes, EditsKeepSlot DEF EndedGoes
  <2> QED BY <2>1, <2>2, <2>3, <2>4, <2>5
<1> QED BY <1>1, <1>2, <1>3, SlotEdit

(* The steps that leave all structures alone, or free one without promise. *)
LEMMA OthersKeepSlots ==
  ASSUME MemoryInv, SlotInv, UNCHANGED handle,
         \/ UNCHANGED promise
         \/ \E p \in Promises : \E st, h : Start(p, st, h) /\ st # "slot"
         \/ \E P : SettleAll(P) /\ \A p \in P : promise[p].state # "slot"
         \/ \E p \in Jobs : promise' = [promise EXCEPT ![p] = NoPromise]
  PROVE  SlotInv'
<1>1. Slots
  BY DEF Slots
<1>2. ASSUME NEW p \in Jobs, promise' = [promise EXCEPT ![p] = NoPromise] PROVE SlotStates
  BY <1>2 DEF SlotStates, Jobs, NoPromise, MemoryInv, RequestsOK
<1> QED BY <1>1, <1>2, SlotsStay, SameStates, StartedStates, SettledStates

LEMMA NewKeepsSlots ==
  ASSUME MemoryInv, SlotInv, NEW h \in Handles,
         NewStream(h) \/ Spawn(h) \/ NewSignal(h) \/ NewUdp(h)
  PROVE  SlotInv'
<1>1. PICK k, w : New(h, k, w)
  BY DEF NewStream, Spawn, NewSignal, NewUdp
<1>2. handle[h] = Unused
  BY <1>1 DEF New, MemoryInv, HandlesOK, Sound
<1>3. Slots
  BY <1>1, <1>2 DEF New, Slots, MemoryInv, HandlesOK, Unused
<1> QED BY <1>1, <1>3, SlotsStay, SameStates DEF New

LEMMA ClosesKeepSlots ==
  ASSUME MemoryInv, SlotInv, NEW h \in Handles,
         \/ Drop(h) \/ CloseUdp(h) \/ ChildExits(h) \/ Received(h) \/ CloseCallback(h)
         \/ \E p \in Promises : Wait(h, p) \/ Recv(h, p)
  PROVE  SlotInv'
<1>1. handle[h] \in Structure /\ Sound(handle[h]) /\ handle \in [Handles -> Structure]
  BY DEF MemoryInv, HandlesOK
<1>2. CASE CloseUdp(h) \/ ChildExits(h) \/ Received(h)
  <2>1. /\ SettleAll({handle[h].slot})
        /\ \E s : handle' = [handle EXCEPT ![h] = s] /\ s.slot = None
    <3>1. CASE CloseUdp(h)
      <4> DEFINE b == [handle[h] EXCEPT !.slot = None, !.events = {}]
      <4>1. b.slot = None
        BY <1>1 DEF Structure
      <4>2. [handle[h] EXCEPT !.slot = None] \in Structure
        BY <1>1, StructureFields
      <4>3. [[handle[h] EXCEPT !.slot = None] EXCEPT !.events = {}] \in Structure
        BY <4>2, StructureFields
      <4>4. b \in Structure
        BY <4>3
      <4>5. /\ handle' = [handle EXCEPT ![h] = MaybeClose(b)]
            /\ SettleAll({handle[h].slot})
        BY <3>1 DEF CloseUdp
      <4> HIDE DEF b
      <4> QED BY <4>1, <4>4, <4>5, SlotShapes
    <3>2. CASE ChildExits(h)
      <4> DEFINE s == [MaybeClose(handle[h]) EXCEPT !.slot = None]
      <4>1. s.slot = None
        BY <1>1, MaybeCloseShape DEF Structure
      <4>2. handle' = [handle EXCEPT ![h] = s] /\ SettleAll({handle[h].slot})
        BY <3>2 DEF ChildExits
      <4> HIDE DEF s
      <4> QED BY <4>1, <4>2
    <3>3. CASE Received(h)
      <4> DEFINE s == [handle[h] EXCEPT !.slot = None, !.watch = "none"]
      <4>1. s.slot = None
        BY <1>1 DEF Structure
      <4>2. handle' = [handle EXCEPT ![h] = s] /\ SettleAll({handle[h].slot})
        BY <3>3 DEF Received
      <4> HIDE DEF s
      <4> QED BY <4>1, <4>2
    <3> QED BY <1>2, <3>1, <3>2, <3>3
  <2>2. handle'[h].slot = None /\ \A g \in Handles : g # h => handle'[g].slot = handle[g].slot
    BY <1>1, <2>1
  <2> QED BY <2>1, <2>2, SlotCleared
<1>3. CASE Drop(h)
  <2>1. Finalized(handle[h]).slot = None
    BY <1>1, <1>3, FinalizedSound DEF Drop
  <2>2. handle' = [handle EXCEPT ![h] = Finalized(handle[h])] /\ SettleAll(Cut(handle[h]))
    BY <1>3 DEF Drop
  <2>3. handle'[h].slot = None /\ \A g \in Handles : g # h => handle'[g].slot = handle[g].slot
    BY <1>1, <2>1, <2>2
  <2>4. CASE handle[h].kind = "udp"
    BY <2>2, <2>3, <2>4, SlotCleared DEF Cut
  <2>5. CASE handle[h].kind # "udp"
    <3>1. handle[h].slot = None \/ ~KeepWaiting
      BY <1>1, <1>3, <2>5 DEF Drop, Sound
    <3>2. SlotStates
      BY <2>2, <2>5, SettledStates DEF Cut
    <3>3. CASE handle[h].slot = None
      BY <2>3, <3>2, <3>3, SlotsStay DEF Slots
    <3>4. CASE ~KeepWaiting
      BY <2>3, <3>2, <3>4, SlotDropped
    <3> QED BY <3>1, <3>3, <3>4
  <2> QED BY <2>4, <2>5
<1>4. ASSUME NEW p \in Promises, Wait(h, p) \/ Recv(h, p) PROVE SlotInv'
  <2>1. handle[h].slot = None \/ ~KeepWaiting
    BY <1>4 DEF Wait, Recv
  <2>2. CASE UNCHANGED handle /\ Start(p, "settled", None)
    BY <2>2, OthersKeepSlots
  <2>3. CASE /\ Start(p, "slot", None) /\ handle'[h].slot = p
             /\ \A g \in Handles : g # h => handle'[g].slot = handle[g].slot
    BY <2>1, <2>3, SlotFilled
  <2>4. CASE Wait(h, p)
    BY <1>1, <2>2, <2>3, <2>4 DEF Wait, Structure
  <2>5. CASE Recv(h, p)
    BY <1>1, <2>3, <2>5 DEF Recv, Structure
  <2> QED BY <1>4, <2>4, <2>5
<1>5. CASE CloseCallback(h)
  <2>1. handle[h].slot = None
    BY <1>1, <1>5 DEF CloseCallback, Sound
  <2>2. SlotKept(h)
    BY <1>1, <1>5, <2>1 DEF CloseCallback, FreeStructure, Unused, Structure, SlotKept
  <2>3. SlotStates
    BY <1>5, RequestsAreNoSlots, SettledStates DEF CloseCallback
  <2> QED BY <2>1, <2>2, <2>3, SlotEdit
<1> QED BY <1>2, <1>3, <1>4, <1>5

LEMMA FreeKeepsSlots ==
  ASSUME MemoryInv, SlotInv, FreeContext
  PROVE  SlotInv'
<1>1. ASSUME NEW h \in Handles PROVE handle'[h].slot = None
  <2>1. handle[h] \in Structure /\ Sound(handle[h])
    BY DEF MemoryInv, HandlesOK
  <2>2. CASE handle[h].ref
    BY <2>1, <2>2, FinalizedSound DEF FreeContext
  <2>3. CASE ~handle[h].ref
    <3>1. handle[h].slot = None
      BY <2>1, <2>3 DEF Sound, Unused, Structure
    <3> QED BY <2>3, <3>1 DEF FreeContext
  <2> QED BY <2>2, <2>3
<1>2. ASSUME NEW p \in Promises PROVE promise'[p].state # "slot"
  <2>1. CASE promise[p].on = None
    BY <2>1 DEF FreeContext, NoPromise
  <2>2. CASE promise[p].on # None
    BY <2>2 DEF FreeContext, MemoryInv, RequestsOK, RequestInv, Requests
  <2> QED BY <2>1, <2>2
<1> QED BY <1>1, <1>2 DEF SlotInv

LEMMA SlotInit == Init => SlotInv
BY NamesAreDistinct DEF Init, SlotInv, Unused, NoPromise

LEMMA SlotStep ==
  MemoryInv /\ SlotInv /\ [Next]_hvars => SlotInv'
<1> SUFFICES ASSUME MemoryInv, SlotInv, [Next]_hvars PROVE SlotInv'
  OBVIOUS
<1>1. CASE UNCHANGED hvars
  BY <1>1, OthersKeepSlots DEF hvars
<1>2. CASE ScriptStep
  <2>1. ASSUME NEW h \in Handles, NEW e \in Listeners,
               SetStreamEvent(h, e) \/ SetUdpEvent(h, e) \/ Unset(h, e)
        PROVE  SlotInv'
    BY <2>1, EditsKeepSlots, ListenersAreEvents
  <2>2. ASSUME NEW h \in Handles, Resume(h) \/ Pause(h) \/ CloseSignal(h) \/ CloseStream(h)
        PROVE  SlotInv'
    BY <2>2, EditsKeepSlots DEF AllEvents
  <2>3. ASSUME NEW h \in Handles, NEW p \in Promises,
               Connect(h, p) \/ Write(h, p) \/ Shutdown(h, p) \/ Send(h, p)
        PROVE  SlotInv'
    <3>1. UNCHANGED handle /\ \E st, g : Start(p, st, g) /\ st # "slot"
      BY <2>3 DEF Connect, Write, Shutdown, Send
    <3> QED BY <3>1, OthersKeepSlots
  <2>4. ASSUME NEW h \in Handles, NEW p \in Promises, Wait(h, p) \/ Recv(h, p)
        PROVE  SlotInv'
    BY <2>4, ClosesKeepSlots
  <2>5. ASSUME NEW h \in Handles, Drop(h) \/ CloseUdp(h) PROVE SlotInv'
    BY <2>5, ClosesKeepSlots
  <2>6. ASSUME Return \/ \E t \in Timers :
                 \/ \E interval, zero \in BOOLEAN : SetTimeout(t, interval, zero)
                 \/ ClearTimeout(t) \/ DropTimer(t)
        PROVE  SlotInv'
    <3>1. UNCHANGED <<handle, promise>>
      BY <2>6 DEF Return, SetTimeout, ClearTimeout, DropTimer
    <3> QED BY <3>1, OthersKeepSlots
  <2> QED BY <1>2, <2>1, <2>2, <2>3, <2>4, <2>5, <2>6, NewKeepsSlots DEF ScriptStep
<1>3. CASE Continues
  <2>1. ASSUME EofGoes \/ UdpErrorGoes \/ TimerGoes \/ JobsDone \/ MainGoes PROVE SlotInv'
    BY <2>1, OthersKeepSlots DEF EofGoes, UdpErrorGoes, TimerGoes, JobsDone, MainGoes
  <2>2. ASSUME NEW p \in Promises, RunJob(p) PROVE SlotInv'
    BY <2>2, OthersKeepSlots DEF RunJob
  <2> QED BY <1>3, <2>1, <2>2, ContinuesKeepSlots DEF Continues
<1>4. CASE IoCallback
  <2>1. ASSUME NEW h \in Handles, ConnectFails(h) \/ \E p \in Promises : RequestDone(h, p)
        PROVE  SlotInv'
    <3>1. UNCHANGED handle /\ \E P : SettleAll(P) /\ \A p \in P : promise[p].state # "slot"
      BY <2>1, RequestsAreNoSlots DEF ConnectFails, RequestDone
    <3> QED BY <3>1, OthersKeepSlots
  <2>2. ASSUME NEW h \in Handles, Data(h) \/ SignalArrives(h) \/ Datagram(h) \/ UdpFails(h)
        PROVE  SlotInv'
    BY <2>2, OthersKeepSlots DEF Data, SignalArrives, Datagram, UdpFails
  <2>3. ASSUME NEW h \in Handles, ConnectDone(h) \/ ReadEnds(h, TRUE) \/ ReadEnds(h, FALSE)
        PROVE  SlotInv'
    BY <2>3, EditsKeepSlots DEF AllEvents
  <2>4. ASSUME NEW h \in Handles, ChildExits(h) \/ Received(h) PROVE SlotInv'
    BY <2>4, ClosesKeepSlots
  <2> QED BY <1>4, <2>1, <2>2, <2>3, <2>4 DEF IoCallback
<1>5. CASE Closed
  BY <1>5, ClosesKeepSlots, OthersKeepSlots DEF Closed, TimerClosed
<1>6. CASE (\E t \in Timers : TimerDue(t)) \/ StartJobs \/ FreeContext
  BY <1>6, OthersKeepSlots, FreeKeepsSlots DEF TimerDue, StartJobs
<1> QED BY <1>1, <1>2, <1>3, <1>4, <1>5, <1>6 DEF Next

-----------------------------------------------------------------------------
(* Promises settle once *)

Once == \A p \in Promises : promise'[p] # promise[p] =>
          \/ promise[p].state = "free" /\ Script
          \/ promise[p].state \in Requests \cup {"slot"} /\ promise'[p] = Settled
          \/ promise[p].state = "settled" /\ RunJob(p)
          \/ promise'[p] = NoPromise /\ FreeContext

LEMMA OnceSame == UNCHANGED promise => Once
BY DEF Once

LEMMA OnceStarted ==
  ASSUME MemoryInv, Script, NEW p \in Promises, NEW st, NEW h, Start(p, st, h)
  PROVE  Once
BY DEF Once, Start, MemoryInv, RequestsOK

LEMMA OnceSettled ==
  ASSUME NEW P, SettleAll(P),
         \A p \in Promises : p \in P => promise[p].state \in Requests \cup {"slot"}
  PROVE  Once
BY DEF Once, SettleAll

(* Requests and the promises in structures are pending. *)
LEMMA RequestsPend ==
  ASSUME MemoryInv, SlotInv, NEW h \in Handles
  PROVE  /\ \A p \in Promises : p \in RequestsOn(h) => promise[p].state \in Requests
         /\ \A p \in Promises : p = handle[h].slot => promise[p].state = "slot"
         /\ \A p : p \in Waiting(h, "connect") => promise[p].state \in Requests
BY NamesAreDistinct DEF MemoryInv, SlotInv, RequestsOK, RequestInv, RequestsOn, Waiting, Requests

LEMMA ScriptSettlesOnce ==
  ASSUME MemoryInv, SlotInv, ScriptStep
  PROVE  Once
<1>1. ASSUME NEW h \in Handles, NEW p \in Promises,
             \/ Connect(h, p) \/ Write(h, p) \/ Shutdown(h, p)
             \/ Wait(h, p) \/ Recv(h, p) \/ Send(h, p)
      PROVE  Once
  <2>1. Script /\ \E st, g : Start(p, st, g)
    BY <1>1 DEF Connect, Write, Shutdown, Wait, Recv, Send, Calls
  <2> QED BY <2>1, OnceStarted
<1>2. ASSUME NEW h \in Handles, Drop(h) \/ CloseUdp(h) PROVE Once
  <2>1. SettleAll(Cut(handle[h])) \/ SettleAll({handle[h].slot})
    BY <1>2 DEF Drop, CloseUdp
  <2>2. \A p : p \in Cut(handle[h]) => p = handle[h].slot
    BY DEF Cut
  <2>3. \A p \in Promises : p = handle[h].slot => promise[p].state = "slot"
    BY RequestsPend
  <2> QED BY <2>1, <2>2, <2>3, OnceSettled
<1>3. ASSUME NEW h \in Handles,
             \/ NewStream(h) \/ Spawn(h) \/ NewSignal(h) \/ NewUdp(h)
             \/ Resume(h) \/ Pause(h) \/ CloseStream(h) \/ CloseSignal(h)
             \/ \E e \in Listeners : SetStreamEvent(h, e) \/ SetUdpEvent(h, e) \/ Unset(h, e)
      PROVE  UNCHANGED promise
  BY <1>3 DEF NewStream, Spawn, NewSignal, NewUdp, New, Resume, Pause, CloseStream, CloseSignal,
              SetStreamEvent, SetUdpEvent, Unset
<1>4. ASSUME Return \/ \E t \in Timers :
               \/ \E interval, zero \in BOOLEAN : SetTimeout(t, interval, zero)
               \/ ClearTimeout(t) \/ DropTimer(t)
      PROVE  UNCHANGED promise
  BY <1>4 DEF Return, SetTimeout, ClearTimeout, DropTimer
<1> QED BY <1>1, <1>2, <1>3, <1>4, OnceSame DEF ScriptStep

LEMMA ContinuesSettleOnce ==
  ASSUME MemoryInv, SlotInv, Continues
  PROVE  Once
<1>1. CASE ConnectGoes
  <2>1. Top.on \in Handles /\ SettleAll(Waiting(Top.on, "connect"))
    BY <1>1, GoesOn DEF ConnectGoes, StreamFunctions
  <2> QED BY <2>1, RequestsPend, OnceSettled
<1>2. ASSUME NEW p \in Promises, RunJob(p) PROVE Once
  BY <1>2 DEF RunJob, Jobs, Once, MemoryInv, RequestsOK
<1>3. CASE \/ CloseStreamGoes \/ EofGoes \/ FailedGoes \/ EndedGoes \/ ClearGoes
           \/ UdpErrorGoes \/ TimerGoes \/ JobsDone \/ MainGoes
  BY <1>3, OnceSame DEF CloseStreamGoes, EofGoes, FailedGoes, EndedGoes, ClearGoes,
                        UdpErrorGoes, TimerGoes, JobsDone, MainGoes
<1> QED BY <1>1, <1>2, <1>3 DEF Continues

LEMMA CallbacksSettleOnce ==
  ASSUME MemoryInv, SlotInv, IoCallback \/ Closed
  PROVE  Once
<1>1. ASSUME NEW h \in Handles, \/ ConnectFails(h) \/ ChildExits(h) \/ Received(h)
             \/ CloseCallback(h) \/ \E p \in Promises : RequestDone(h, p)
      PROVE  Once
  <2>1. \E P : /\ SettleAll(P)
               /\ P \subseteq RequestsOn(h) \cup Waiting(h, "connect") \cup {handle[h].slot}
    BY <1>1 DEF ConnectFails, ChildExits, Received, CloseCallback, RequestDone
  <2> QED BY <2>1, RequestsPend, OnceSettled
<1>2. ASSUME NEW h \in Handles,
             \/ ConnectDone(h) \/ Data(h) \/ ReadEnds(h, TRUE) \/ ReadEnds(h, FALSE)
             \/ SignalArrives(h) \/ Datagram(h) \/ UdpFails(h)
      PROVE  UNCHANGED promise
  BY <1>2 DEF ConnectDone, Data, ReadEnds, SignalArrives, Datagram, UdpFails
<1>3. ASSUME NEW t \in Timers, TimerClosed(t) PROVE UNCHANGED promise
  BY <1>3 DEF TimerClosed
<1> QED BY <1>1, <1>2, <1>3, OnceSame DEF IoCallback, Closed

(* Every promise is settled at most once, by the request or the structure  *)
(* that it waits for, whatever scripts do to handles inside of callbacks   *)
(* and however often they wait (process.c:153, udp.c:407).                 *)
THEOREM PromisesSettleOnce == Spec => SettledOnce
<1>1. ASSUME MemoryInv, SlotInv, [Next]_hvars PROVE [Once]_hvars
  <2>1. CASE FreeContext
    BY <2>1 DEF FreeContext, Once
  <2>2. CASE (\E t \in Timers : TimerDue(t)) \/ StartJobs
    BY <2>2, OnceSame DEF TimerDue, StartJobs
  <2> QED BY <1>1, <2>1, <2>2, ScriptSettlesOnce, ContinuesSettleOnce, CallbacksSettleOnce DEF Next
<1>2. [Once]_hvars => [\A p \in Promises : promise'[p] # promise[p] =>
       \/ promise[p].state = "free" /\ Script
       \/ promise[p].state \in Requests \cup {"slot"} /\ promise'[p] = Settled
       \/ promise[p].state = "settled" /\ RunJob(p)
       \/ promise'[p] = NoPromise /\ FreeContext]_hvars
  BY DEF Once
<1> QED BY <1>1, <1>2, MemoryInit, MemoryStep, SlotInit, SlotStep, PTL DEF Spec, SettledOnce

(* Every promise that a native method returned will be settled by a request *)
(* of libuv on a handle that is not closed, or by the one open structure    *)
(* that keeps it (process.c:153, udp.c:407), if a script waits for a child  *)
(* only once at a time and keeps it till then.                              *)
THEOREM NoPromiseIsLost ==
  ASSUME KeepWaiting = TRUE
  PROVE  Spec => []NoLostPromise
<1>1. ASSUME MemoryInv, SlotInv PROVE NoLostPromise
  <2>1. ASSUME NEW p \in Promises, promise[p].state \in Requests
        PROVE  \E h \in Handles : promise[p].on = h /\ handle[h].uv # "closed"
    BY <1>1, <2>1 DEF MemoryInv, RequestsOK, RequestInv, Promise
  <2>2. ASSUME NEW p \in Promises, promise[p].state = "slot"
        PROVE  \E h \in Handles :
                 handle[h].slot = p /\ handle[h].uv = "open" /\ ~handle[h].finalized
    <3>1. PICK h \in Handles : handle[h].slot = p
      BY <1>1, <2>2 DEF SlotInv
    <3>2. /\ handle[h] \in Structure /\ Sound(handle[h]) /\ handle[h].slot # None
      BY <1>1, <3>1, NamesAreDistinct DEF MemoryInv, HandlesOK
    <3>3. handle[h].uv = "open" /\ handle[h].memory
      BY <3>2, InUse DEF Sound
    <3> QED BY <3>1, <3>2, <3>3 DEF Sound
  <2> QED BY <2>1, <2>2 DEF NoLostPromise
<1>2. Init => MemoryInv /\ SlotInv
  BY MemoryInit, SlotInit
<1>3. MemoryInv /\ SlotInv /\ [Next]_hvars => (MemoryInv /\ SlotInv)'
  BY MemoryStep, SlotStep
<1> QED BY <1>1, <1>2, <1>3, PTL DEF Spec
-----------------------------------------------------------------------------
(* Reading *)

ReadKept(h) == /\ Listening(handle[h]) => Listening(handle[h])'
               /\ Reading(h) => Reading(h)'

LEMMA ReadStays ==
  ReadInv /\ (\A h \in Handles : ReadKept(h) \/ Listening(handle[h])' \/ Reading(h)') => ReadInv'
BY DEF ReadInv, ReadKept

LEMMA PushReading ==
  ASSUME MemoryInv, NEW f \in Functions, NEW x \in Handles \cup Timers \cup {None},
         NEW e, NEW S, Push(f, x, e \in S) \/ Push(f, x, TRUE) \/ Push(f, x, FALSE)
  PROVE  /\ \A h \in Handles : Reading(h) => Reading(h)'
         /\ f \in Readers /\ x \in Handles => Reading(x)'
<1>1. PICK b \in BOOLEAN : Push(f, x, b)
  BY ScriptOfPush
<1>2. /\ F(f, x, b) \in Frame /\ F(f, x, b).fn = f /\ F(f, x, b).on = x
  BY FrameShape
<1>3. Frames' = Frames \cup {F(f, x, b)}
  BY <1>1, <1>2, Pushed DEF Push, MemoryInv, FramesOK
<1> QED BY <1>2, <1>3 DEF Reading

LEMMA PopReading ==
  ASSUME MemoryInv, stack # <<>>, Pop
  PROVE  /\ \A h \in Handles : h # Top.on => (Reading(h) => Reading(h)')
         /\ Top.fn \notin Readers => \A h \in Handles : Reading(h) => Reading(h)'
<1>1. Frames \subseteq Frames' \cup {Top}
  BY Popped DEF Pop, MemoryInv, FramesOK
<1> QED BY <1>1 DEF Reading

LEMMA TurnReading ==
  ASSUME MemoryInv, stack # <<>>, NEW f \in Functions,
         NEW b \in BOOLEAN, Turn(f, Top.on, b)
  PROVE  /\ \A h \in Handles : h # Top.on => (Reading(h) => Reading(h)')
         /\ Top.fn \notin Readers \/ f \in Readers =>
              \A h \in Handles : Reading(h) => Reading(h)'
<1>1. Top \in Frame
  BY TopFrame DEF MemoryInv, FramesOK
<1>2. PICK x \in Handles \cup Timers \cup {None} : x = Top.on
  BY <1>1 DEF Frame
<1>3. /\ F(f, x, b) \in Frame /\ F(f, x, b).fn = f /\ F(f, x, b).on = x
  BY FrameShape
<1>4. Turn(f, x, b)
  BY <1>2
<1>5. Frames \subseteq Frames' \cup {Top} /\ F(f, x, b) \in Frames'
  BY <1>3, <1>4, Turned DEF Turn, MemoryInv, FramesOK
<1> QED BY <1>2, <1>3, <1>5 DEF Reading

LEMMA SameReading == UNCHANGED stack => \A h \in Handles : Reading(h) <=> Reading(h)'
BY FramesKept DEF Reading

(* A step on one structure, which listens as well as before. *)
LEMMA ReadEdit ==
  ASSUME MemoryInv, ReadInv, NEW h \in Handles, NEW s, handle' = [handle EXCEPT ![h] = s],
         Listening(handle[h]) => Listening(s),
         \A g \in Handles : Reading(g) => Reading(g)'
  PROVE  ReadInv'
<1>1. \A g \in Handles : ReadKept(g)
  BY DEF ReadKept, MemoryInv, HandlesOK
<1> QED BY <1>1, ReadStays

LEMMA ReadSame ==
  ASSUME ReadInv, UNCHANGED handle, \A g \in Handles : Reading(g) => Reading(g)'
  PROVE  ReadInv'
BY ReadStays DEF ReadKept

LEMMA ListeningShapes ==
  ASSUME NEW r \in Structure, NEW e \in AllEvents
  PROVE  /\ Listening(ReadStart(r)) /\ Listening(Quieted(r))
         /\ Listening([r EXCEPT !.read_start = FALSE, !.watch = "none"])
         /\ Listening(r) => /\ Listening(Resumed(r))
                            /\ Listening(WithCallback(r, e)) /\ Listening([r EXCEPT !.events = @ \ {e}])
                            /\ Listening(WithCallback(Resumed(r), e))
                            /\ Listening([r EXCEPT !.events = {}])
                            /\ Listening(MaybeClose(r)) /\ Listening(MaybeClose([r EXCEPT !.events = {}]))
<1>1. Listening(ReadStart(r)) /\ ReadStart(r) \in Structure
  BY DEF Listening, ReadStart, Structure, Watches
<1>2. Listening(Quieted(r)) /\ Listening([r EXCEPT !.read_start = FALSE, !.watch = "none"])
  BY DEF Listening, Quieted, Structure
<1>3. ASSUME NEW s \in Structure, Listening(s)
      PROVE  /\ Listening(WithCallback(s, e)) /\ Listening([s EXCEPT !.events = @ \ {e}])
             /\ Listening([s EXCEPT !.events = {}]) /\ Listening(MaybeClose(s))
  BY <1>3 DEF Listening, WithCallback, MaybeClose, Structure
<1>4. Listening(r) => Listening(Resumed(r)) /\ Resumed(r) \in Structure
  BY <1>1 DEF Resumed
<1>5. [r EXCEPT !.events = {}] \in Structure
  BY DEF Structure
<1> QED BY <1>1, <1>2, <1>3, <1>4, <1>5

LEMMA ScriptKeepsReading ==
  ASSUME MemoryInv, ReadInv, ScriptStep
  PROVE  ReadInv'
<1>0. /\ handle \in [Handles -> Structure]
      /\ \A h \in Handles : handle[h] \in Structure /\ Sound(handle[h])
  BY DEF MemoryInv, HandlesOK
<1>1. ASSUME NEW h \in Handles, NEW e \in AllEvents,
             \/ SetStreamEvent(h, e) \/ Unset(h, e) \/ SetUdpEvent(h, e)
             \/ Resume(h) \/ Pause(h) \/ CloseSignal(h) \/ CloseUdp(h) \/ Drop(h)
      PROVE  ReadInv'
  <2>1. UNCHANGED stack
    BY <1>1 DEF SetStreamEvent, Unset, SetUdpEvent, Resume, Pause, CloseSignal, CloseUdp, Drop
  <2>2. CASE SetStreamEvent(h, e)
    <3>1. PICK s : /\ handle' = [handle EXCEPT ![h] = s]
                   /\ Listening(handle[h]) => Listening(s)
      BY <1>0, <2>2, ListeningShapes DEF SetStreamEvent
    <3> QED BY <2>1, <3>1, ReadEdit, SameReading
  <2>3. CASE Unset(h, e)
    <3>1. Listening(handle[h]) => Listening([handle[h] EXCEPT !.events = @ \ {e}])
      BY <1>0, ListeningShapes
    <3>2. handle' = [handle EXCEPT ![h] = [handle[h] EXCEPT !.events = @ \ {e}]]
      BY <1>0, <2>3 DEF Unset
    <3> QED BY <2>1, <3>1, <3>2, ReadEdit, SameReading
  <2>4. CASE Resume(h) \/ Pause(h) \/ CloseSignal(h)
    <3>1. PICK s : /\ handle' = [handle EXCEPT ![h] = s]
                   /\ Listening(handle[h]) => Listening(s)
      BY <1>0, <2>4, ListeningShapes DEF Resume, Pause, CloseSignal
    <3> QED BY <2>1, <3>1, ReadEdit, SameReading
  <2>5. CASE SetUdpEvent(h, e) \/ CloseUdp(h)
    <3>1. handle'[h].kind = "udp" /\ \A g \in Handles : g # h => handle'[g] = handle[g]
      <4>1. CASE SetUdpEvent(h, e)
        BY <1>0, <4>1 DEF SetUdpEvent, Calls, WithCallback, RecvStart, Structure
      <4>2. CASE CloseUdp(h)
        BY <1>0, <4>2 DEF CloseUdp, Calls, MaybeClose, Structure
      <4> QED BY <2>5, <4>1, <4>2
    <3>2. \A g \in Handles : ReadKept(g)
      BY <2>1, <3>1, SameReading DEF ReadKept, Listening
    <3> QED BY <3>2, ReadStays
  <2>6. CASE Drop(h)
    <3>1. Finalized(handle[h]).uv # "open" /\ handle' = [handle EXCEPT ![h] = Finalized(handle[h])]
      BY <1>0, <2>6, FinalizedSound DEF Drop
    <3> QED BY <2>1, <3>1, ReadEdit, SameReading DEF Listening
  <2> QED BY <1>1, <2>2, <2>3, <2>4, <2>5, <2>6
<1>2. ASSUME NEW h \in Handles, CloseStream(h) PROVE ReadInv'
  <2>1. /\ handle' = [handle EXCEPT ![h] = Quieted(handle[h])]
        /\ Push("close", h, "close" \in handle[h].events)
    BY <1>2 DEF CloseStream
  <2>2. \A g \in Handles : Reading(g) => Reading(g)'
    BY <2>1, PushReading DEF Functions
  <2>3. Listening(Quieted(handle[h]))
    BY <1>0 DEF Listening, Quieted, Structure
  <2> QED BY <2>1, <2>2, <2>3, ReadEdit
<1>3. ASSUME NEW h \in Handles, NewStream(h) \/ Spawn(h) \/ NewSignal(h) \/ NewUdp(h)
      PROVE  ReadInv'
  <2>1. PICK k, w : New(h, k, w)
    BY <1>3 DEF NewStream, Spawn, NewSignal, NewUdp
  <2>2. UNCHANGED stack /\ Listening(handle'[h]) /\ \A g \in Handles : g # h => handle'[g] = handle[g]
    BY <1>0, <2>1 DEF New, Listening
  <2>3. \A g \in Handles : ReadKept(g)
    BY <2>2, SameReading DEF ReadKept
  <2> QED BY <2>3, ReadStays
<1>4. ASSUME NEW h \in Handles, NEW p \in Promises,
             \/ Connect(h, p) \/ Write(h, p) \/ Shutdown(h, p) \/ Send(h, p)
             \/ Wait(h, p) \/ Recv(h, p)
      PROVE  ReadInv'
  <2>1. CASE UNCHANGED <<handle, stack>>
    BY <2>1, ReadSame, SameReading
  <2>2. CASE Wait(h, p) /\ handle' # handle
    <3>1. handle' = [handle EXCEPT ![h] = [handle[h] EXCEPT !.slot = p]] /\ UNCHANGED stack
      BY <2>2 DEF Wait
    <3>2. Listening(handle[h]) => Listening([handle[h] EXCEPT !.slot = p])
      BY <1>0 DEF Listening, Structure
    <3> QED BY <3>1, <3>2, ReadEdit, SameReading
  <2>3. CASE Recv(h, p)
    <3>1. /\ handle' = [handle EXCEPT ![h] = [handle[h] EXCEPT !.slot = p, !.watch = "recv"]]
          /\ UNCHANGED stack /\ handle[h].kind = "udp"
      BY <2>3 DEF Recv, Calls
    <3>2. Listening([handle[h] EXCEPT !.slot = p, !.watch = "recv"])
      BY <1>0, <3>1 DEF Listening, Structure
    <3> QED BY <3>1, <3>2, ReadEdit, SameReading
  <2> QED BY <1>4, <2>1, <2>2, <2>3 DEF Connect, Write, Shutdown, Send, Wait
<1>5. CASE Return
  <2>1. UNCHANGED handle /\ stack # <<>> /\ ((Top.fn = "main" /\ Pop) \/ Turn(Top.fn, Top.on, FALSE))
    BY <1>5 DEF Return, Script
  <2>2. Top.fn \in Functions
    BY <2>1, TopFrame DEF MemoryInv, FramesOK, Frame
  <2>3. \A g \in Handles : Reading(g) => Reading(g)'
    BY <2>1, <2>2, PopReading, TurnReading DEF Readers
  <2> QED BY <2>1, <2>3, ReadSame
<1>6. ASSUME NEW t \in Timers, \/ ClearTimeout(t) \/ DropTimer(t)
             \/ \E interval, zero \in BOOLEAN : SetTimeout(t, interval, zero)
      PROVE  ReadInv'
  BY <1>6, ReadSame, SameReading DEF ClearTimeout, DropTimer, SetTimeout
<1> QED BY <1>1, <1>2, <1>3, <1>4, <1>5, <1>6, ListenersAreEvents DEF ScriptStep, AllEvents

LEMMA ContinuesKeepReading ==
  ASSUME MemoryInv, ReadInv, Continues
  PROVE  ReadInv'
<1>0. /\ handle \in [Handles -> Structure]
      /\ \A h \in Handles : handle[h] \in Structure /\ Sound(handle[h])
  BY DEF MemoryInv, HandlesOK
<1>1. CASE CloseStreamGoes \/ ClearGoes
  <2>1. Top.on \in Handles /\ stack # <<>> /\ Pop /\ Top.fn \notin Readers
    BY <1>1, GoesOn DEF CloseStreamGoes, ClearGoes, Goes, StreamFunctions, Readers
  <2>2. PICK s : /\ handle' = [handle EXCEPT ![Top.on] = s]
                 /\ Listening(handle[Top.on]) => Listening(s)
    <3>1. CASE CloseStreamGoes
      BY <1>0, <2>1, <3>1, ListeningShapes DEF CloseStreamGoes, AllEvents
    <3>2. CASE ClearGoes
      <4>1. handle' = [handle EXCEPT ![Top.on] = [handle[Top.on] EXCEPT !.events = {}]]
        BY <3>2 DEF ClearGoes
      <4> QED BY <1>0, <2>1, <4>1, ListeningShapes DEF AllEvents
    <3> QED BY <1>1, <3>1, <3>2
  <2> QED BY <2>1, <2>2, PopReading, ReadEdit
<1>2. CASE ConnectGoes
  <2>1. Top.on \in Handles /\ stack # <<>> /\ Pop
    BY <1>2, GoesOn DEF ConnectGoes, StreamFunctions
  <2>2. /\ Listening(handle'[Top.on]) /\ \A g \in Handles : g # Top.on => handle'[g] = handle[g]
    <3>1. /\ Listening(ReadStart(handle[Top.on]))
          /\ ~handle[Top.on].read_start => Listening(handle[Top.on])
      BY <1>0, <2>1, ListeningShapes DEF AllEvents, Listening
    <3> QED BY <1>0, <1>2, <2>1, <3>1 DEF ConnectGoes
  <2>3. \A g \in Handles : ReadKept(g) \/ Listening(handle'[g])
    BY <2>1, <2>2, PopReading DEF ReadKept
  <2> QED BY <2>3, ReadStays
<1>3. CASE EofGoes \/ FailedGoes \/ EndedGoes \/ UdpErrorGoes
  <2>1. /\ Top.on \in Handles /\ stack # <<>>
    BY <1>3, GoesOn DEF EofGoes, FailedGoes, EndedGoes, UdpErrorGoes, StreamFunctions
  <2>2. CASE EofGoes
    <3>1. PICK b \in BOOLEAN : Turn("ended", Top.on, b)
      BY <2>2, ScriptOfTurn DEF EofGoes
    <3>2. \A g \in Handles : Reading(g) => Reading(g)'
      BY <2>1, <3>1, TurnReading DEF Readers, Functions
    <3> QED BY <2>2, <3>2, ReadSame DEF EofGoes
  <2>3. CASE FailedGoes
    <3>1. PICK b \in BOOLEAN : Turn("ended", Top.on, b)
      BY <2>3, ScriptOfTurn DEF FailedGoes
    <3>2. \A g \in Handles : Reading(g) => Reading(g)'
      BY <2>1, <3>1, TurnReading DEF Readers, Functions
    <3>3. /\ \A g \in Handles : g # Top.on => handle'[g] = handle[g]
          /\ Reading(Top.on)
      <4>1. Top \in Frames /\ Top.fn = "failed"
        BY <2>1, <2>3, TopFrame DEF FailedGoes, Goes, MemoryInv, FramesOK
      <4> QED BY <1>0, <2>3, <4>1 DEF FailedGoes, Reading, Readers
    <3>4. \A g \in Handles : ReadKept(g) \/ Reading(g)'
      BY <2>1, <3>2, <3>3 DEF ReadKept
    <3> QED BY <3>4, ReadStays
  <2>4. CASE EndedGoes
    <3>1. PICK b \in BOOLEAN : Turn("clear", Top.on, b)
      BY <1>0, <2>1, <2>4 DEF EndedGoes, Structure
    <3>2. \A g \in Handles : g # Top.on => (Reading(g) => Reading(g)')
      BY <2>1, <3>1, TurnReading DEF Functions
    <3>3. Listening(Quieted(handle[Top.on]))
      BY <1>0, <2>1, ListeningShapes DEF AllEvents
    <3>4. /\ \A g \in Handles : g # Top.on => handle'[g] = handle[g]
          /\ Listening(handle'[Top.on])
      BY <1>0, <2>1, <2>4, <3>3 DEF EndedGoes
    <3>5. \A g \in Handles : ReadKept(g) \/ Listening(handle'[g])
      BY <3>2, <3>4 DEF ReadKept
    <3> QED BY <3>5, ReadStays
  <2>5. CASE UdpErrorGoes
    <3>1. PICK b \in BOOLEAN : Turn("main", Top.on, b)
      BY <2>5, ScriptOfTurn DEF UdpErrorGoes
    <3>2. Top.fn = "udp_error"
      BY <2>5 DEF UdpErrorGoes, Goes
    <3>3. \A g \in Handles : Reading(g) => Reading(g)'
      BY <2>1, <3>1, <3>2, TurnReading DEF Readers, Functions
    <3> QED BY <2>5, <3>3, ReadSame DEF UdpErrorGoes
  <2> QED BY <1>3, <2>2, <2>3, <2>4, <2>5
<1>4. ASSUME TimerGoes \/ JobsDone \/ MainGoes \/ \E p \in Promises : RunJob(p)
      PROVE  ReadInv'
  <2>1. /\ UNCHANGED handle /\ stack # <<>> /\ Top.fn \in {"timer", "jobs", "main"}
        /\ \/ Pop
           \/ Turn("jobs", Top.on, TRUE)
           \/ Top.on \in Timers /\ Turn("timer", Top.on, timer[Top.on].func)
    BY <1>4 DEF TimerGoes, JobsDone, MainGoes, RunJob, Goes
  <2>2. \A t \in Timers : timer[t].func \in BOOLEAN
    BY DEF MemoryInv, TimersOK, TimerStructure
  <2>3. \A g \in Handles : Reading(g) => Reading(g)'
    BY <2>1, <2>2, PopReading, TurnReading DEF Readers, Functions
  <2> QED BY <2>1, <2>3, ReadSame
<1> QED BY <1>1, <1>2, <1>3, <1>4 DEF Continues

LEMMA CallbacksKeepReading ==
  ASSUME MemoryInv, ReadInv, IoCallback
  PROVE  ReadInv'
<1>0. /\ handle \in [Handles -> Structure]
      /\ \A h \in Handles : handle[h] \in Structure /\ Sound(handle[h])
  BY DEF MemoryInv, HandlesOK
<1>1. ASSUME NEW h \in Handles, ConnectDone(h) \/ ReadEnds(h, TRUE) \/ ReadEnds(h, FALSE)
      PROVE  ReadInv'
  <2>1. \E f \in Readers \ {"ended"} : \E e, S : Push(f, h, e \in S)
    BY <1>1 DEF ConnectDone, ReadEnds, Readers
  <2>2. Reading(h)' /\ \A g \in Handles : Reading(g) => Reading(g)'
    BY <2>1, PushReading DEF Readers, Functions
  <2>3. \A g \in Handles : g # h => handle'[g] = handle[g]
    BY <1>0, <1>1 DEF ConnectDone, ReadEnds
  <2>4. \A g \in Handles : ReadKept(g) \/ Reading(g)'
    BY <2>2, <2>3 DEF ReadKept
  <2> QED BY <2>4, ReadStays
<1>2. ASSUME NEW h \in Handles, Data(h) \/ SignalArrives(h) \/ Datagram(h) \/ UdpFails(h)
      PROVE  ReadInv'
  <2>1. UNCHANGED handle /\ (Push("main", h, TRUE) \/ \E e, S : Push("udp_error", h, e \in S))
    BY <1>2 DEF Data, SignalArrives, Datagram, UdpFails
  <2>2. \A g \in Handles : Reading(g) => Reading(g)'
    BY <2>1, PushReading DEF Functions
  <2> QED BY <2>1, <2>2, ReadSame
<1>3. ASSUME NEW h \in Handles, ConnectFails(h) \/ \E p \in Promises : RequestDone(h, p)
      PROVE  ReadInv'
  BY <1>3, ReadSame, SameReading DEF ConnectFails, RequestDone
<1>4. ASSUME NEW h \in Handles, ChildExits(h) \/ Received(h) PROVE ReadInv'
  <2>1. UNCHANGED stack /\ \A g \in Handles : g # h => handle'[g] = handle[g]
    BY <1>0, <1>4 DEF ChildExits, Received
  <2>2. handle'[h].kind # "stream"
    <3>1. CASE ChildExits(h)
      BY <1>0, <3>1 DEF ChildExits, Fires, MaybeClose, Structure
    <3>2. CASE Received(h)
      BY <1>0, <3>2 DEF Received, Fires, Structure
    <3> QED BY <1>4, <3>1, <3>2
  <2>3. \A g \in Handles : ReadKept(g)
    BY <2>1, <2>2, SameReading DEF ReadKept, Listening
  <2> QED BY <2>3, ReadStays
<1> QED BY <1>1, <1>2, <1>3, <1>4 DEF IoCallback

LEMMA OthersKeepReading ==
  ASSUME MemoryInv, ReadInv,
         Closed \/ (\E t \in Timers : TimerDue(t)) \/ StartJobs \/ FreeContext
  PROVE  ReadInv'
<1>0. /\ handle \in [Handles -> Structure]
      /\ \A h \in Handles : handle[h] \in Structure /\ Sound(handle[h])
  BY DEF MemoryInv, HandlesOK
<1>1. ASSUME NEW h \in Handles, CloseCallback(h) PROVE ReadInv'
  <2>1. UNCHANGED stack /\ \A g \in Handles : g # h => handle'[g] = handle[g]
    BY <1>0, <1>1 DEF CloseCallback
  <2>2. handle'[h].uv = "closed"
    BY <1>0, <1>1 DEF CloseCallback, FreeStructure, Unused, Structure
  <2>3. \A g \in Handles : ReadKept(g)
    BY <2>1, <2>2, SameReading DEF ReadKept, Listening
  <2> QED BY <2>3, ReadStays
<1>2. ASSUME NEW t \in Timers, TimerClosed(t) PROVE ReadInv'
  BY <1>2, ReadSame, SameReading DEF TimerClosed
<1>3. ASSUME NEW x \in Timers \cup {None}, UNCHANGED handle, Push("jobs", x, FALSE)
      PROVE  ReadInv'
  <2>1. \A g \in Handles : Reading(g) => Reading(g)'
    BY <1>3, PushReading DEF Functions
  <2> QED BY <1>3, <2>1, ReadSame
<1>4. CASE FreeContext
  <2>1. UNCHANGED stack
    BY <1>4 DEF FreeContext
  <2>2. \A h \in Handles : handle'[h] = handle[h] \/ Listening(handle'[h])
    BY <1>0, <1>4, FinalizedSound DEF FreeContext, Listening
  <2>3. \A g \in Handles : ReadKept(g)
    BY <2>1, <2>2, SameReading DEF ReadKept
  <2> QED BY <2>3, ReadStays
<1> QED BY <1>1, <1>2, <1>3, <1>4 DEF Closed, TimerDue, StartJobs

(* A connected stream that has not been paused reads, and a stream that    *)
(* was paused does not, whichever of connect(), resume(), pause() and the  *)
(* setter of onmessage came first (streams.c:172, 258, 384, 456).          *)
THEOREM ReadersListen == Spec => []ReaderListens
<1>1. Init => ReadInv
  <2>1. Listening(Unused)
    BY DEF Listening, Unused
  <2> QED BY <2>1 DEF Init, ReadInv
<1>2. ASSUME MemoryInv, ReadInv, [Next]_hvars PROVE ReadInv'
  <2>1. CASE UNCHANGED hvars
    BY <1>2, <2>1, ReadSame, SameReading DEF hvars
  <2> QED BY <1>2, <2>1, ScriptKeepsReading, ContinuesKeepReading, CallbacksKeepReading,
             OthersKeepReading DEF Next
<1>3. ASSUME MemoryInv, ReadInv PROVE ReaderListens
  <2> SUFFICES ASSUME stack = <<>>, NEW h \in Handles, handle[h].kind = "stream",
                      handle[h].uv = "open", handle[h].connected
               PROVE  handle[h].read_start = (handle[h].watch = "read")
    BY DEF ReaderListens
  <2>1. handle[h].read_start \in BOOLEAN /\ Sound(handle[h]) /\ ~Reading(h)
    BY <1>3, TopFrame DEF MemoryInv, HandlesOK, FramesOK, Structure, Reading
  <2>2. handle[h].read_start => handle[h].watch = "read"
    BY <1>3, <2>1 DEF ReadInv, Listening
  <2>3. handle[h].watch = "read" => handle[h].read_start
    BY <2>1 DEF Sound
  <2> QED BY <2>1, <2>2, <2>3
<1> QED BY <1>1, <1>2, <1>3, MemoryInit, MemoryStep, PTL DEF Spec
=============================================================================
