------------------------------- MODULE Runtime -------------------------------
(***************************************************************************)
(* The event loop (vm.c) around the native objects of NativeHandles: the   *)
(* order in which libuv calls timers, I/O callbacks, the check callback    *)
(* that runs the jobs and the close callbacks, the idle handle that keeps  *)
(* the loop from sleeping over a job, and the end of the program.          *)
(*                                                                         *)
(* The main runtime only: a worker's, which TJS_Stop() ends, is left out.  *)
(***************************************************************************)
EXTENDS NativeHandles

VARIABLES phase,   \* where TJS_Run(), uv_run() and TJS_FreeRuntime() are
          idle     \* jobs.idle is started

vars == <<handle, timer, promise, stack, phase, idle>>

Phases == {"script", "top", "timers", "poll", "blocked", "check", "closing",
           "ended", "freeing", "freed"}

RuntimeInit == Init /\ phase = "script" /\ idle = FALSE
-----------------------------------------------------------------------------
Go(ph) == phase' = ph /\ UNCHANGED hvars
At(ph) == phase = ph /\ stack = <<>>

IsClosing == \/ \E h \in Handles : handle[h].uv = "closing"
             \/ \E t \in Timers : timer[t].uv = "closing"

(* What makes libuv call something one day; signal handlers are unref'd.   *)
IsActive == \/ \E h \in Handles :
                 handle[h].uv = "open" /\ handle[h].watch \in {"read", "child", "recv", "message"}
            \/ \E t \in Timers : timer[t].running
            \/ \E p \in Promises : promise[p].state \in Requests

Alive == idle \/ IsActive \/ IsClosing

(* The main script has ended: TJS_Run() starts the loop. *)
Run == At("script") /\ idle' = (Jobs # {}) /\ Go("top")

(* Mutant: TJS_Run() runs the loop once. *)
TurnsOnce == /\ At("top") /\ UNCHANGED idle
             /\ \/ Alive /\ Go("timers")
                \/ ~Alive /\ Go("ended")

(* The head of the loop of uv_run(), and of the loop around it. *)
Turns == /\ At("top")
         /\ \/ Alive /\ Go("timers") /\ UNCHANGED idle
            \/ ~Alive /\ Jobs # {} /\ idle' = TRUE /\ Go("top")
            \/ ~Alive /\ Jobs = {} /\ Go("ended") /\ UNCHANGED idle

(* Mutant: only the check callback looks at the jobs. *)
PrepareLate == /\ At("timers") /\ UNCHANGED idle
               /\ Go(IF idle \/ IsClosing \/ ~IsActive THEN "poll" ELSE "blocked")

(* After the timers the prepare callback; then libuv works out whether it  *)
(* may sleep in poll.                                                      *)
Prepare == /\ At("timers")
           /\ idle' = (Jobs # {})
           /\ Go(IF idle' \/ IsClosing \/ ~IsActive THEN "poll" ELSE "blocked")

(* What a sleeping loop waits for, an event or the time of a timer, has come. *)
Wakes == /\ At("blocked") /\ UNCHANGED idle
         /\ \/ IoCallback /\ phase' = "poll"
            \/ (\E t \in Timers : timer[t].running) /\ Go("poll")

Polls   == At("poll") /\ IoCallback /\ UNCHANGED <<phase, idle>>
EndPoll == At("poll") /\ Go("check") /\ UNCHANGED idle

(* uv__check_cb() *)
Drain   == At("check") /\ StartJobs /\ UNCHANGED <<phase, idle>>
Checked == At("check") /\ Jobs = {} /\ idle' = (Jobs # {}) /\ Go("closing")

Closes     == phase \in {"closing", "freeing"} /\ Closed /\ UNCHANGED <<phase, idle>>
EndClosing == At("closing") /\ ~IsClosing /\ Go("top") /\ UNCHANGED idle

Times == At("timers") /\ (\E t \in Timers : TimerDue(t)) /\ UNCHANGED <<phase, idle>>

(* TJS_FreeRuntime(): the context, then the handles that are left. *)
Free  == At("ended") /\ FreeContext /\ phase' = "freeing" /\ UNCHANGED idle
Freed == At("freeing") /\ ~IsClosing /\ Go("freed") /\ UNCHANGED idle

(* The process has ended. *)
Terminated == phase = "freed" /\ UNCHANGED vars

Scripts == (ScriptStep \/ Continues) /\ UNCHANGED <<phase, idle>>

RuntimeNext == \/ Scripts \/ Run \/ Turns \/ Times \/ Prepare \/ Wakes \/ Polls \/ EndPoll
               \/ Drain \/ Checked \/ Closes \/ EndClosing \/ Free \/ Freed \/ Terminated

RuntimeSpec == RuntimeInit /\ [][RuntimeNext]_vars

(* The loop goes on, and libuv reports a bounded number of events and due  *)
(* timers in each of its turns.  Nothing is assumed about what the system  *)
(* reports, nor about scripts.                                             *)
RuntimeFairness ==
  /\ WF_vars(Continues /\ UNCHANGED <<phase, idle>>)
  /\ WF_vars(Run) /\ WF_vars(Turns) /\ WF_vars(Drain) /\ WF_vars(Checked)
  /\ WF_vars(Closes) /\ WF_vars(EndClosing) /\ WF_vars(Free) /\ WF_vars(Freed)
  /\ SF_vars(Prepare) /\ SF_vars(EndPoll)

FairRuntime == RuntimeSpec /\ RuntimeFairness
-----------------------------------------------------------------------------
LoopTypeOK == TypeOK /\ phase \in Phases /\ idle \in BOOLEAN

(* The loop never sleeps while a job is waiting or a handle is to be       *)
(* closed: jobs come from callbacks of every phase, also from the closing  *)
(* of handles, after the check callback has run them (vm.c:472, 482, 509). *)
NoSleepWithJobs == phase = "blocked" => Jobs = {} /\ ~IsClosing /\ stack = <<>>

(* The program ends only when no promise of a native method is pending and *)
(* no job is left (vm.c:534), and its end frees every structure; but for   *)
(* intervals of no time, which fire once and then hold themselves.         *)
ExitClean ==
  /\ phase \in {"ended", "freeing", "freed"} => \A p \in Promises : promise[p].state = "free"
  /\ phase = "freed" =>
       /\ \A h \in Handles : ~handle[h].memory
       /\ \A t \in Timers : timer[t].memory => timer[t].interval /\ ~timer[t].again

(* No script runs for ever, nor an endless chain of jobs. *)
ScriptsEnd == []<>(stack = <<>>)

(* A structure that lost its object, by the finalizer of a live handle or  *)
(* of a closed one, is freed at last (streams.c:92, 201, timers.c:80).      *)
FreedInTheEnd ==
  ScriptsEnd => /\ \A h \in Handles :
                     (handle[h].memory /\ handle[h].finalized) ~> ~handle[h].memory
                /\ \A t \in Timers :
                     (timer[t].memory /\ ~timer[t].ref /\ ~timer[t].self) ~> ~timer[t].memory

(* Whoever awaits a request is told when the handle is closed, or lost,    *)
(* before an answer comes: the request fails and its job runs.             *)
RequestsSettle ==
  ScriptsEnd => \A p \in Promises :
    (\/ promise[p].state = "settled"
     \/ \E h \in Handles : promise[p].on = h /\ handle[h].uv = "closing")
      ~> promise[p].state = "free"
=============================================================================
