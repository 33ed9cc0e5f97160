----------------------------- MODULE RuntimeProofs -----------------------------
(***************************************************************************)
(* The event loop runs the native objects as NativeHandles allows, so what *)
(* is proved of them holds in it; it never sleeps over a job, and a program *)
(* that ends leaves no promise, job or structure.                          *)
(***************************************************************************)
EXTENDS Runtime, NativeHandlesProofs

LEMMA LoopStep == RuntimeNext => [Next]_hvars
BY DEF RuntimeNext, Scripts, Run, Turns, Times, Prepare, Wakes, Polls, EndPoll, Drain, Checked,
       Closes, EndClosing, Free, Freed, Terminated, Go, Next, vars, hvars

(* Whatever the loop does, in any of its phases, is a step of the native   *)
(* objects or none at all (vm.c:472-538, 384-425).                         *)
THEOREM RuntimeImplementsHandles == RuntimeSpec => Spec
<1>1. RuntimeInit => Init
  BY DEF RuntimeInit
<1>2. [RuntimeNext]_vars => [Next]_hvars
  BY LoopStep DEF vars, hvars
<1> QED BY <1>1, <1>2, PTL DEF RuntimeSpec, Spec

(* What is proved of the native objects alone holds in the event loop,     *)
(* from the main script to the end of TJS_FreeRuntime() (vm.c:384-538).    *)
THEOREM RuntimeIsSafe == RuntimeSpec => [](NoUseAfterFree /\ ReaderListens) /\ SettledOnce
BY RuntimeImplementsHandles, MemorySafety, ReadersListen, PromisesSettleOnce, PTL

THEOREM RuntimeLosesNoPromise ==
  ASSUME KeepWaiting = TRUE
  PROVE  RuntimeSpec => []NoLostPromise
BY RuntimeImplementsHandles, NoPromiseIsLost, PTL

(* The loop is in one of its phases, the native objects keep their shapes. *)
THEOREM LoopTypeCorrect == RuntimeSpec => []LoopTypeOK
<1> DEFINE LoopOK == phase \in Phases /\ idle \in BOOLEAN
<1>1. RuntimeInit => LoopOK
  BY DEF RuntimeInit, Phases
<1>2. LoopOK /\ [RuntimeNext]_vars => LoopOK'
  <2> SUFFICES ASSUME LoopOK, [RuntimeNext]_vars PROVE LoopOK'
    OBVIOUS
  <2>1. phase' \in Phases
    BY DEF RuntimeNext, Scripts, Run, Turns, Times, Prepare, Wakes, Polls, EndPoll, Drain, Checked,
           Closes, EndClosing, Free, Freed, Terminated, Go, Phases, vars
  <2>2. UNCHANGED idle \/ idle' = TRUE \/ idle' = (Jobs # {})
    BY Zenon DEF RuntimeNext, Scripts, Run, Turns, Times, Prepare, Wakes, Polls, EndPoll, Drain,
           Checked, Closes, EndClosing, Free, Freed, Terminated, vars
  <2>3. CASE idle' = (Jobs # {})
    BY <2>1, <2>3
  <2> QED BY <2>1, <2>2, <2>3
<1>3. []TypeOK /\ []LoopOK => []LoopTypeOK
  <2>1. TypeOK /\ LoopOK => LoopTypeOK
    BY DEF LoopTypeOK
  <2> QED BY <2>1, PTL
<1> QED BY <1>1, <1>2, <1>3, RuntimeImplementsHandles, HandlesTypeCorrect, PTL DEF RuntimeSpec

(* Every step of a script is one of the script at the top of the stack. *)
LEMMA ScriptsRun == ScriptStep => Script
<1>1. ASSUME NEW h \in Handles,
             \/ NewStream(h) \/ Spawn(h) \/ NewSignal(h) \/ NewUdp(h) \/ Drop(h)
      PROVE  Script
  BY <1>1 DEF NewStream, Spawn, NewSignal, NewUdp, New, Drop
<1>2. ASSUME NEW h \in Handles,
             \/ Resume(h) \/ Pause(h) \/ CloseStream(h) \/ CloseSignal(h) \/ CloseUdp(h)
      PROVE  Script
  BY <1>2 DEF Resume, Pause, CloseStream, CloseSignal, CloseUdp, Calls
<1>3. ASSUME NEW h \in Handles, NEW e \in Listeners,
             SetStreamEvent(h, e) \/ SetUdpEvent(h, e) \/ Unset(h, e)
      PROVE  Script
  BY <1>3 DEF SetStreamEvent, SetUdpEvent, Unset, Calls
<1>4. ASSUME NEW h \in Handles, NEW p \in Promises,
             \/ Connect(h, p) \/ Write(h, p) \/ Shutdown(h, p)
             \/ Wait(h, p) \/ Recv(h, p) \/ Send(h, p)
      PROVE  Script
  BY <1>4 DEF Connect, Write, Shutdown, Wait, Recv, Send, Calls
<1>5. ASSUME NEW t \in Timers,
             \/ \E interval, zero \in BOOLEAN : SetTimeout(t, interval, zero)
             \/ ClearTimeout(t) \/ DropTimer(t)
      PROVE  Script
  BY <1>5 DEF SetTimeout, ClearTimeout, DropTimer
<1> QED BY <1>1, <1>2, <1>3, <1>4, <1>5 DEF ScriptStep, Return

(* The loop sleeps in poll only while no job is left to run, no handle is   *)
(* to be closed and no C function is interrupted (vm.c:472, 482, 509).      *)
THEOREM LoopNeverSleepsOverJobs == RuntimeSpec => []NoSleepWithJobs
<1>1. RuntimeInit => NoSleepWithJobs
  BY DEF RuntimeInit, NoSleepWithJobs
<1>2. ASSUME NoSleepWithJobs, [RuntimeNext]_vars PROVE NoSleepWithJobs'
  <2>1. CASE UNCHANGED vars
    BY <1>2, <2>1 DEF vars, NoSleepWithJobs, Jobs, IsClosing
  <2>2. CASE Prepare
    <3>1. /\ stack = <<>> /\ UNCHANGED hvars
          /\ phase' = IF idle' \/ IsClosing \/ ~IsActive THEN "poll" ELSE "blocked"
      BY <2>2, Zenon DEF Prepare, At, Go
    <3>2. stack' = <<>> /\ Jobs' = Jobs /\ IsClosing' = IsClosing
      BY <3>1 DEF hvars, Jobs, IsClosing
    <3>3. phase' = "blocked" => ~idle' /\ ~IsClosing
      BY <3>1
    <3>4. ASSUME ~idle', Jobs # {} PROVE FALSE
      BY <2>2, <3>4, Zenon DEF Prepare
    <3> QED BY <3>2, <3>3, <3>4 DEF NoSleepWithJobs
  <2>3. CASE Scripts
    <3>1. stack # <<>>
      <4>1. CASE ScriptStep
        BY <4>1, ScriptsRun DEF Script
      <4>2. CASE Continues
        BY <4>2 DEF Continues, CloseStreamGoes, ConnectGoes, EofGoes, FailedGoes,
             EndedGoes, ClearGoes, UdpErrorGoes, TimerGoes, JobsDone, MainGoes, RunJob, Goes
      <4> QED BY <2>3, <4>1, <4>2 DEF Scripts
    <3>2. phase # "blocked" /\ phase' = phase
      BY <1>2, <2>3, <3>1 DEF NoSleepWithJobs, Scripts
    <3> QED BY <3>2 DEF NoSleepWithJobs
  <2>4. CASE Wakes
    BY <2>4 DEF Wakes, Go, NoSleepWithJobs
  <2>5. ASSUME RuntimeNext, ~Prepare, ~Scripts, ~Wakes, ~Terminated PROVE phase' # "blocked"
    BY <2>5 DEF RuntimeNext, Run, Turns, Times, Polls, EndPoll, Drain, Checked, Closes,
                EndClosing, Free, Freed, At, Go
  <2>6. CASE Terminated
    BY <2>1, <2>6 DEF Terminated
  <2> QED BY <1>2, <2>1, <2>2, <2>3, <2>4, <2>5, <2>6 DEF NoSleepWithJobs
<1> QED BY <1>1, <1>2, PTL DEF RuntimeSpec
-----------------------------------------------------------------------------
(* The end of the program *)

(* A timer that holds itself will be due, or has a callback under way, or  *)
(* is an interval of no time.                                              *)
TimerEnd == \A t \in Timers : timer[t].self /\ ~timer[t].running =>
                                ~timer[t].again /\ (timer[t].interval \/ OnStack(t))

EndInv ==
  /\ phase \in {"ended", "freeing", "freed"} =>
       /\ stack = <<>> /\ \A p \in Promises : promise[p].state = "free"
       /\ \A t \in Timers : ~timer[t].running
  /\ phase \in {"freeing", "freed"} =>
       (\A h \in Handles : ~handle[h].ref) /\ (\A t \in Timers : ~timer[t].ref)
  /\ phase = "freed" => ~IsClosing

LEMMA TimersOnStack ==
  ASSUME MemoryInv,
         \/ UNCHANGED stack
         \/ \E f \in Functions, x \in Handles \cup Timers \cup {None}, b \in BOOLEAN : Push(f, x, b)
         \/ stack # <<>> /\ Pop /\ Top.on \notin Timers
         \/ stack # <<>> /\ \E f \in Functions, b \in BOOLEAN : Turn(f, Top.on, b)
  PROVE  \A t \in Timers : OnStack(t) => OnStack(t)'
<1>1. CASE UNCHANGED stack
  BY <1>1, FramesKept DEF OnStack
<1>2. ASSUME NEW f \in Functions, NEW x \in Handles \cup Timers \cup {None}, NEW b \in BOOLEAN,
             Push(f, x, b)
      PROVE  \A t \in Timers : OnStack(t) => OnStack(t)'
  <2>1. F(f, x, b) \in Frame
    BY FrameShape
  <2>2. Frames \subseteq Frames'
    BY <1>2, <2>1, Pushed DEF Push, MemoryInv, FramesOK
  <2> QED BY <2>2 DEF OnStack
<1>3. CASE stack # <<>> /\ Pop /\ Top.on \notin Timers
  BY <1>3, Popped DEF OnStack, Pop, MemoryInv, FramesOK
<1>4. ASSUME stack # <<>>, NEW f \in Functions, NEW b \in BOOLEAN, Turn(f, Top.on, b)
      PROVE  \A t \in Timers : OnStack(t) => OnStack(t)'
  <2>1. PICK x \in Handles \cup Timers \cup {None} : x = Top.on
    BY <1>4, TopFrame DEF MemoryInv, FramesOK, Frame
  <2>2. Turn(f, x, b) /\ F(f, x, b) \in Frame /\ F(f, x, b).on = x
    BY <1>4, <2>1, FrameShape
  <2>3. F(f, x, b) \in Frames' /\ Frames \subseteq Frames' \cup {Top}
    BY <1>4, <2>2, Turned DEF Turn, MemoryInv, FramesOK
  <2> QED BY <2>1, <2>2, <2>3 DEF OnStack
<1> QED BY <1>1, <1>2, <1>3, <1>4

LEMMA TimerEndSame ==
  ASSUME TimerEnd, UNCHANGED timer, \A t \in Timers : OnStack(t) => OnStack(t)'
  PROVE  TimerEnd'
BY DEF TimerEnd

LEMMA TimerEndContinues ==
  ASSUME MemoryInv, TimerEnd, Continues \/ Return
  PROVE  TimerEnd'
<1>1. stack # <<>> => Top \in Frame /\ FrameInv(Top)
  BY TopFrame DEF MemoryInv, FramesOK
<1>2. CASE CloseStreamGoes \/ ConnectGoes \/ ClearGoes
  <2>1. stack # <<>> /\ Pop /\ UNCHANGED timer /\ Top.on \in Handles
    BY <1>2, GoesOn DEF CloseStreamGoes, ConnectGoes, ClearGoes, StreamFunctions
  <2> QED BY <2>1, TimersOnStack, TimerEndSame, NamesAreDistinct
<1>3. CASE EofGoes \/ FailedGoes \/ EndedGoes \/ UdpErrorGoes
  <2>1. stack # <<>> /\ Top.on \in Handles /\ UNCHANGED timer
    BY <1>3, GoesOn DEF EofGoes, FailedGoes, EndedGoes, UdpErrorGoes, StreamFunctions
  <2>2. \E f \in Functions, b \in BOOLEAN : Turn(f, Top.on, b)
    <3>1. CASE EofGoes
      BY <3>1, ScriptOfTurn DEF EofGoes, Functions
    <3>2. CASE FailedGoes
      BY <3>2, ScriptOfTurn DEF FailedGoes, Functions
    <3>3. CASE EndedGoes
      <4>1. handle[Top.on] \in Structure
        BY <2>1 DEF MemoryInv, HandlesOK
      <4> QED BY <3>3, <4>1 DEF EndedGoes, Functions, Structure
    <3>4. CASE UdpErrorGoes
      BY <3>4, ScriptOfTurn DEF UdpErrorGoes, Functions
    <3> QED BY <1>3, <3>1, <3>2, <3>3, <3>4
  <2> QED BY <2>1, <2>2, TimersOnStack, TimerEndSame
<1>4. CASE TimerGoes
  <2>1. /\ stack # <<>> /\ Pop /\ Top.on \in Timers /\ timer \in [Timers -> TimerStructure]
        /\ timer' = [timer EXCEPT ![Top.on] =
                       IF timer[Top.on].interval THEN timer[Top.on] ELSE Cleared(timer[Top.on])]
    BY <1>1, <1>4 DEF TimerGoes, Goes, FrameInv, MemoryInv, TimersOK
  <2>2. Frames \subseteq Frames' \cup {Top}
    BY <2>1, Popped DEF Pop, MemoryInv, FramesOK
  <2>3. \A t \in Timers : t # Top.on => timer'[t] = timer[t] /\ (OnStack(t) => OnStack(t)')
    BY <2>1, <2>2 DEF OnStack
  <2>4. \/ timer'[Top.on].interval /\ timer'[Top.on] = timer[Top.on]
        \/ ~timer'[Top.on].self
    BY <2>1 DEF Cleared, TimerStructure
  <2> QED BY <2>3, <2>4 DEF TimerEnd
<1>5. ASSUME JobsDone \/ MainGoes \/ Return \/ \E p \in Promises : RunJob(p)
      PROVE  TimerEnd'
  <2>1. /\ UNCHANGED timer /\ stack # <<>> /\ Top.fn \in Functions
    BY <1>1, <1>5 DEF JobsDone, MainGoes, Return, RunJob, Goes, Script, Frame
  <2>2. \/ Pop /\ Top.on \notin Timers
        \/ \E f \in Functions, b \in BOOLEAN : Turn(f, Top.on, b)
    <3>1. CASE JobsDone
      <4>1. \A t \in Timers : timer[t].func \in BOOLEAN
        BY DEF MemoryInv, TimersOK, TimerStructure
      <4> QED BY <3>1, <4>1 DEF JobsDone, Functions
    <3>2. CASE MainGoes
      BY <1>1, <2>1, <3>2, NamesAreDistinct DEF MainGoes, Goes, FrameInv
    <3>3. CASE Return
      BY <1>1, <2>1, <3>3, NamesAreDistinct DEF Return, FrameInv
    <3>4. CASE \E p \in Promises : RunJob(p)
      BY <3>4 DEF RunJob, Functions
    <3> QED BY <1>5, <3>1, <3>2, <3>3, <3>4
  <2> QED BY <2>1, <2>2, TimersOnStack, TimerEndSame
<1> QED BY <1>2, <1>3, <1>4, <1>5 DEF Continues

LEMMA TimerEndScript ==
  ASSUME MemoryInv, TimerEnd, ScriptStep
  PROVE  TimerEnd'
<1>0. timer \in [Timers -> TimerStructure]
  BY DEF MemoryInv, TimersOK
<1>1. CASE Return
  BY <1>1, TimerEndContinues
<1>2. ASSUME NEW h \in Handles, CloseStream(h) PROVE TimerEnd'
  <2>1. UNCHANGED timer /\ \E b \in BOOLEAN : Push("close", h, b)
    BY <1>2, ScriptOfPush DEF CloseStream
  <2> QED BY <2>1, TimersOnStack, TimerEndSame DEF Functions
<1>3. CASE UNCHANGED <<timer, stack>>
  BY <1>3, TimersOnStack, TimerEndSame
<1>4. ASSUME NEW t \in Timers, \/ ClearTimeout(t) \/ DropTimer(t)
             \/ \E interval, zero \in BOOLEAN : SetTimeout(t, interval, zero)
      PROVE  TimerEnd'
  <2>1. /\ UNCHANGED stack /\ \A u \in Timers : u # t => timer'[u] = timer[u]
        /\ \/ timer'[t].running
           \/ ~timer'[t].self
           \/ /\ timer'[t].self = timer[t].self /\ timer'[t].running = timer[t].running
              /\ timer'[t].again = timer[t].again /\ timer'[t].interval = timer[t].interval
    <3>1. CASE ClearTimeout(t)
      BY <1>0, <3>1 DEF ClearTimeout, Cleared, TimerStructure
    <3>2. CASE DropTimer(t)
      BY <1>0, <3>2 DEF DropTimer, DroppedTimer, TimerStructure
    <3>3. CASE \E interval, zero \in BOOLEAN : SetTimeout(t, interval, zero)
      BY <1>0, <3>3 DEF SetTimeout
    <3> QED BY <1>4, <3>1, <3>2, <3>3
  <2>2. \A u \in Timers : OnStack(u) => OnStack(u)'
    BY <2>1, TimersOnStack
  <2> QED BY <2>1, <2>2 DEF TimerEnd
<1>5. ASSUME NEW h \in Handles,
             \/ NewStream(h) \/ Spawn(h) \/ NewSignal(h) \/ NewUdp(h) \/ Drop(h)
             \/ Resume(h) \/ Pause(h) \/ CloseSignal(h) \/ CloseUdp(h)
             \/ \E e \in Listeners : SetStreamEvent(h, e) \/ SetUdpEvent(h, e) \/ Unset(h, e)
             \/ \E p \in Promises : \/ Connect(h, p) \/ Write(h, p) \/ Shutdown(h, p)
                                    \/ Wait(h, p) \/ Recv(h, p) \/ Send(h, p)
      PROVE  UNCHANGED <<timer, stack>>
  BY <1>5 DEF NewStream, Spawn, NewSignal, NewUdp, New, Drop, Resume, Pause, CloseSignal,
              CloseUdp, SetStreamEvent, SetUdpEvent, Unset, Connect, Write, Shutdown, Wait,
              Recv, Send
<1> QED BY <1>1, <1>2, <1>3, <1>4, <1>5 DEF ScriptStep

LEMMA TimerEndIo ==
  ASSUME MemoryInv, TimerEnd, IoCallback
  PROVE  TimerEnd'
<1>1. ASSUME NEW h \in Handles,
             \/ ConnectDone(h) \/ Data(h) \/ ReadEnds(h, TRUE) \/ ReadEnds(h, FALSE)
             \/ SignalArrives(h) \/ Datagram(h) \/ UdpFails(h)
      PROVE  UNCHANGED timer /\ \E f \in Functions, b \in BOOLEAN : Push(f, h, b)
  <2>1. CASE ConnectDone(h)
    BY <2>1, ScriptOfPush DEF ConnectDone, Functions
  <2>2. CASE ReadEnds(h, TRUE) \/ ReadEnds(h, FALSE)
    BY <2>2, ScriptOfPush DEF ReadEnds, Functions
  <2>3. CASE UdpFails(h)
    BY <2>3, ScriptOfPush DEF UdpFails, Functions
  <2>4. CASE Data(h) \/ SignalArrives(h) \/ Datagram(h)
    BY <2>4 DEF Data, SignalArrives, Datagram, Functions
  <2> QED BY <1>1, <2>1, <2>2, <2>3, <2>4
<1>2. ASSUME NEW h \in Handles, \/ ConnectFails(h) \/ ChildExits(h) \/ Received(h)
             \/ \E p \in Promises : RequestDone(h, p)
      PROVE  UNCHANGED <<timer, stack>>
  BY <1>2 DEF ConnectFails, ChildExits, Received, RequestDone
<1> QED BY <1>1, <1>2, TimersOnStack, TimerEndSame DEF IoCallback

LEMMA TimerEndStep == MemoryInv /\ TimerEnd /\ [Next]_hvars => TimerEnd'
<1> SUFFICES ASSUME MemoryInv, TimerEnd, [Next]_hvars PROVE TimerEnd'
  OBVIOUS
<1>0. timer \in [Timers -> TimerStructure] /\ \A t \in Timers : SoundTimer(timer[t])
  BY DEF MemoryInv, TimersOK
<1>1. CASE UNCHANGED hvars
  BY <1>1, TimersOnStack, TimerEndSame DEF hvars
<1>2. ASSUME NEW t \in Timers, TimerDue(t) PROVE TimerEnd'
  <2>1. /\ Push("jobs", t, FALSE) /\ \A u \in Timers : u # t => timer'[u] = timer[u]
        /\ timer'[t].running = timer[t].again /\ timer'[t].again = timer[t].again
    BY <1>0, <1>2 DEF TimerDue, TimerStructure
  <2>2. \A u \in Timers : OnStack(u) => OnStack(u)'
    BY <2>1, TimersOnStack DEF Functions
  <2>3. OnStack(t)'
    <3>1. F("jobs", t, FALSE) \in Frame /\ F("jobs", t, FALSE).on = t
      BY DEF F, Frame, Functions
    <3>2. F("jobs", t, FALSE) \in Frames'
      BY <2>1, <3>1, Pushed DEF Push, MemoryInv, FramesOK
    <3> QED BY <3>1, <3>2 DEF OnStack
  <2> QED BY <2>1, <2>2, <2>3 DEF TimerEnd
<1>3. CASE Closed
  <2>1. ASSUME NEW h \in Handles, CloseCallback(h) PROVE TimerEnd'
    BY <2>1, TimersOnStack, TimerEndSame DEF CloseCallback
  <2>2. ASSUME NEW t \in Timers, TimerClosed(t) PROVE TimerEnd'
    <3>1. timer[t].self = FALSE
      BY <1>0, <2>2, TimerInUse DEF TimerClosed, SoundTimer, TimerStructure
    <3>2. ~timer'[t].self /\ UNCHANGED stack /\ \A u \in Timers : u # t => timer'[u] = timer[u]
      BY <1>0, <2>2, <3>1 DEF TimerClosed, UnusedTimer
    <3>3. \A u \in Timers : OnStack(u) => OnStack(u)'
      BY <3>2, TimersOnStack
    <3> QED BY <3>2, <3>3 DEF TimerEnd
  <2> QED BY <1>3, <2>1, <2>2 DEF Closed
<1>4. CASE StartJobs
  BY <1>4, TimersOnStack, TimerEndSame DEF StartJobs, Functions
<1>5. CASE FreeContext
  <2>1. UNCHANGED stack
    BY <1>5 DEF FreeContext
  <2>2. ASSUME NEW t \in Timers
        PROVE  /\ timer'[t].self = timer[t].self /\ timer'[t].running = timer[t].running
               /\ timer'[t].again = timer[t].again /\ timer'[t].interval = timer[t].interval
    BY <1>0, <1>5 DEF FreeContext, DroppedTimer, TimerStructure
  <2>3. \A t \in Timers : OnStack(t) => OnStack(t)'
    BY <2>1, TimersOnStack
  <2> QED BY <2>2, <2>3 DEF TimerEnd
<1> QED BY <1>1, <1>2, <1>3, <1>4, <1>5, TimerEndScript, TimerEndContinues, TimerEndIo DEF Next

LEMMA ScriptsNeedStack ==
  ASSUME stack = <<>>
  PROVE  ~ScriptStep /\ ~Continues
BY DEF ScriptStep, Continues, Return, NewStream, Spawn, NewSignal, NewUdp, New, Drop, Resume,
       Pause, CloseStream, CloseSignal, CloseUdp, SetStreamEvent, SetUdpEvent, Unset, Connect,
       Write, Shutdown, Wait, Recv, Send, SetTimeout, ClearTimeout, DropTimer,
       CloseStreamGoes, ConnectGoes, EofGoes, FailedGoes, EndedGoes, ClearGoes, UdpErrorGoes,
       TimerGoes, JobsDone, MainGoes, RunJob, Calls, Script, Goes

LEMMA EndStep ==
  ASSUME KeepWaiting = TRUE, MemoryInv, SlotInv, EndInv, [RuntimeNext]_vars
  PROVE  EndInv'
<1>0. /\ \A h \in Handles : handle[h] \in Structure /\ Sound(handle[h])
      /\ \A t \in Timers : timer[t] \in TimerStructure /\ SoundTimer(timer[t])
      /\ \A p \in Promises : promise[p] \in Promise /\ RequestInv(p)
      /\ handle \in [Handles -> Structure] /\ timer \in [Timers -> TimerStructure]
  BY DEF MemoryInv, HandlesOK, TimersOK, RequestsOK
<1>1. CASE UNCHANGED vars
  BY <1>1 DEF vars, EndInv, IsClosing
<1>2. CASE Turns
  <2>1. CASE phase' = "ended"
    <3>1. ~Alive /\ Jobs = {} /\ stack = <<>> /\ UNCHANGED hvars
      BY <1>2, <2>1 DEF Turns, Go, At
    <3>2. ASSUME NEW p \in Promises PROVE promise[p].state = "free"
      <4>1. promise[p].state \notin Requests /\ promise[p].state # "settled"
        BY <3>1 DEF Alive, IsActive, Jobs
      <4>2. ASSUME promise[p].state = "slot" PROVE FALSE
        <5>1. PICK h \in Handles : handle[h].slot = p
          BY <4>2 DEF SlotInv
        <5>2. handle[h].uv = "open" /\ handle[h].watch \in {"child", "recv"}
          BY <1>0, <5>1, NamesAreDistinct DEF Sound
        <5> QED BY <3>1, <5>2 DEF Alive, IsActive
      <4> QED BY <1>0, <4>1, <4>2 DEF Promise
    <3>3. \A t \in Timers : ~timer[t].running
      BY <3>1 DEF Alive, IsActive
    <3> QED BY <2>1, <3>1, <3>2, <3>3 DEF EndInv, hvars
  <2>2. CASE phase' # "ended"
    BY <1>2, <2>2 DEF Turns, Go, EndInv
  <2> QED BY <2>1, <2>2
<1>3. CASE Free
  <2>1. stack = <<>> /\ FreeContext /\ phase = "ended" /\ phase' = "freeing"
    BY <1>3 DEF Free, At
  <2>2. \A p \in Promises : promise'[p].state = "free"
    BY <1>0, <2>1 DEF EndInv, FreeContext, NoPromise, RequestInv, Requests
  <2>3. \A h \in Handles : ~handle'[h].ref
    BY <1>0, <2>1, FinalizedSound DEF FreeContext
  <2>4. \A t \in Timers : ~timer'[t].ref /\ timer'[t].running = timer[t].running
    BY <1>0, <2>1 DEF FreeContext, DroppedTimer, TimerStructure
  <2> QED BY <2>1, <2>2, <2>3, <2>4 DEF EndInv, FreeContext
<1>4. CASE Closes /\ phase = "freeing"
  <2>1. phase' = "freeing" /\ UNCHANGED stack /\ Closed
    BY <1>4 DEF Closes, Closed, CloseCallback, TimerClosed
  <2>2. ASSUME NEW h \in Handles, CloseCallback(h) PROVE EndInv'
    <3>1. RequestsOn(h) = {}
      BY <1>0, <1>4, NamesAreDistinct DEF EndInv, RequestsOn, RequestInv, Requests
    <3>2. \A p \in Promises : promise'[p].state = "free"
      BY <1>4, <2>2, <3>1 DEF EndInv, CloseCallback, SettleAll
    <3>3. \A g \in Handles : ~handle'[g].ref
      BY <1>0, <1>4, <2>2 DEF EndInv, CloseCallback, FreeStructure, Unused, Structure
    <3> QED BY <1>4, <2>1, <2>2, <3>2, <3>3 DEF EndInv, CloseCallback
  <2>3. ASSUME NEW t \in Timers, TimerClosed(t) PROVE EndInv'
    <3>1. \A u \in Timers : ~timer'[u].ref /\ ~timer'[u].running
      BY <1>0, <1>4, <2>3 DEF EndInv, TimerClosed, UnusedTimer
    <3> QED BY <1>4, <2>1, <2>3, <3>1 DEF EndInv, TimerClosed
  <2> QED BY <2>1, <2>2, <2>3 DEF Closed
<1>5. CASE Freed
  BY <1>5 DEF Freed, Go, hvars, EndInv, At, IsClosing
<1>6. CASE Scripts
  <2>1. stack # <<>> /\ phase' = phase
    BY <1>6, ScriptsNeedStack DEF Scripts
  <2> QED BY <2>1 DEF EndInv
<1>7. ASSUME RuntimeNext, ~Turns, ~Free, ~(Closes /\ phase = "freeing"), ~Freed, ~Scripts,
             ~Terminated
      PROVE  phase' \notin {"ended", "freeing", "freed"}
  BY <1>7 DEF RuntimeNext, Run, Times, Prepare, Wakes, Polls, EndPoll, Drain, Checked, Closes,
              EndClosing, At, Go
<1>8. CASE Terminated
  BY <1>1, <1>8 DEF Terminated
<1> QED BY <1>1, <1>2, <1>3, <1>4, <1>5, <1>6, <1>7, <1>8 DEF EndInv

(* A program ends only when every promise of a native method has been      *)
(* settled and its job has run, and TJS_FreeRuntime() frees every structure *)
(* but for intervals of no time, which hold themselves (vm.c:384, 534).     *)
THEOREM ProgramsEndClean ==
  ASSUME KeepWaiting = TRUE
  PROVE  RuntimeSpec => []ExitClean
<1> DEFINE Inv == MemoryInv /\ SlotInv /\ TimerEnd /\ EndInv
<1>1. RuntimeInit => Inv
  <2>1. RuntimeInit => EndInv
    BY DEF RuntimeInit, EndInv
  <2>2. RuntimeInit => TimerEnd
    BY DEF RuntimeInit, Init, TimerEnd, UnusedTimer
  <2> QED BY <2>1, <2>2, MemoryInit, SlotInit DEF RuntimeInit
<1>2. Inv /\ [RuntimeNext]_vars => Inv'
  <2>1. [RuntimeNext]_vars => [Next]_hvars
    BY LoopStep DEF vars, hvars
  <2> QED BY <2>1, MemoryStep, SlotStep, TimerEndStep, EndStep
<1>3. ASSUME Inv PROVE ExitClean
  <2>1. ASSUME phase = "freed", NEW h \in Handles PROVE ~handle[h].memory
    BY <1>3, <2>1 DEF EndInv, IsClosing, MemoryInv, HandlesOK, Sound, Structure
  <2>2. ASSUME phase = "freed", NEW t \in Timers, timer[t].memory
        PROVE  timer[t].interval /\ ~timer[t].again
    <3>1. timer[t] \in TimerStructure /\ SoundTimer(timer[t]) /\ timer[t].uv # "closing"
      BY <1>3, <2>2 DEF EndInv, IsClosing, MemoryInv, TimersOK
    <3>2. timer[t].self /\ ~timer[t].running
      BY <1>3, <2>2, <3>1 DEF EndInv, SoundTimer, TimerStructure
    <3>3. ~OnStack(t)
      BY <1>3, <2>2, TopFrame DEF EndInv, OnStack, MemoryInv, FramesOK
    <3> QED BY <1>3, <3>2, <3>3 DEF TimerEnd
  <2> QED BY <1>3, <2>1, <2>2 DEF ExitClean, EndInv
<1> HIDE DEF Inv
<1> QED BY <1>1, <1>2, <1>3, PTL DEF RuntimeSpec
=============================================================================
