---------------------------- MODULE FileStorage ----------------------------
(***************************************************************************)
(* The file behind localStorage and sessionStorage: core/js/tjs/storage.js,*)
(* class FileStorage.  The values are kept in memory; every change is a    *)
(* line in a queue that a flush appends to the file 100 ms later, and a    *)
(* file with too many lines is merged: the live values are written to a    *)
(* temporary file that then takes the file's name.                         *)
(*                                                                         *)
(* onFlush() and merge() suspend at every file operation, and other calls  *)
(* run meanwhile.  A call of onFlush() is a member of Flushes; the pc of a *)
(* flush says which operation it awaits.  Files are inodes with names, so  *)
(* that a handle outlives the unlinking of the name it was opened by.      *)
(* A line reaches the file whole or not at all.                            *)
(***************************************************************************)
EXTENDS Naturals, Sequences, FiniteSets

CONSTANTS
  Keys, Vals, Absent,
  Flushes,        \* slots for concurrent calls of onFlush()
  Handles,        \* slots for open file handles
  Inodes,         \* slots for files
  MergeFactor,    \* the 10 of onFlush()
  MaxUpdates,     \* bound of the model: lines queued in all
  MaxCrashes,     \* bound of the model
  DirectFlush,    \* may the application call StorageManager.flush()?
  Closes,         \* may it call close()?
  SlowDisk,       \* may a flush take longer than the 100 ms timer?
  Failures,       \* may a file operation fail?
  CrashInMerge,   \* may the process die in the middle of a merge?
  Merge,          \* the empty line that clear() queues
  None

ASSUME ConstantsAssumption ==
  /\ Absent \notin Vals
  /\ MergeFactor \in Nat \ {0}
  /\ MaxUpdates \in Nat /\ MaxCrashes \in Nat
  /\ {DirectFlush, Closes, SlowDisk, Failures, CrashInMerge} \subseteq BOOLEAN
  /\ None \notin Flushes \cup Handles \cup Inodes
  /\ {"settled", "file"} \cap (Flushes \cup {None}) = {}
  /\ Merge \notin [key : Keys, val : Vals \cup {Absent}]
  /\ None \notin [Keys -> Vals \cup {Absent}]

VARIABLES
  values,        \* this.values
  lineCount,     \* this.lineCount
  queue,         \* this.queue
  flushTimer,    \* this.flushTimer is set
  flushPromise,  \* this.flushPromise: the flush it belongs to, "settled" when
                 \* that flush returned before the assignment, or None
  file,          \* this.file
  closing,       \* where a call of close() is
  fd,            \* the inode each handle is open on, or None
  names,         \* the directory: the inode of each name, or None
  data,          \* the lines of each inode
  flush,         \* the calls of onFlush()
  updates, crashes,   \* counters that bound the model
  held,          \* history: the values of a key since the file last agreed
                 \* with the memory
  asked          \* history: its values since close() was called

object == <<values, lineCount, queue, flushTimer, flushPromise, file>>
disk == <<fd, names, data>>
vars == <<object, closing, disk, flush, updates, crashes, held, asked>>

Line == [key : Keys, val : Vals \cup {Absent}]

Idle == [pc |-> "idle", todo |-> <<>>, line |-> None, handle |-> None,
         seen |-> {}, count |-> 0, from |-> None, last |-> FALSE]

Merging == {"mopen", "mnext", "mwrite", "mclose", "close", "unlink", "rename",
            "reopen"}

(* A call of onFlush(): the lines it took over, the line being written and *)
(* the handle used for it; of a merge, the keys its loop has visited, the  *)
(* lines it wrote, the Map it goes over when that is no longer this.values,*)
(* and whether it is the one after the last line.                          *)
Flush == [pc : {"idle", "next", "write"} \cup Merging,
          todo : Seq(Line \cup {Merge}), line : Line \cup {None},
          handle : Handles \cup {None}, seen : SUBSET Keys, count : Nat,
          from : [Keys -> Vals \cup {Absent}] \cup {None}, last : BOOLEAN]

TypeOK ==
  /\ values \in [Keys -> Vals \cup {Absent}]
  /\ lineCount \in Nat
  /\ queue \in Seq(Line \cup {Merge})
  /\ flushTimer \in BOOLEAN
  /\ flushPromise \in Flushes \cup {None, "settled"}
  /\ file \in Handles \cup {None}
  /\ closing \in {None, "settled", "file"} \cup Flushes
  /\ fd \in [Handles -> Inodes \cup {None}]
  /\ names \in [{"main", "temp"} -> Inodes \cup {None}]
  /\ data \in [Inodes -> Seq(Line)]
  /\ flush \in [Flushes -> Flush]
  /\ updates \in Nat /\ crashes \in Nat
  /\ held \in [Keys -> SUBSET (Vals \cup {Absent})]
  /\ asked \in [Keys -> SUBSET (Vals \cup {Absent})]

Empty == [k \in Keys |-> Absent]

Init ==
  /\ values = Empty
  /\ lineCount = 0
  /\ queue = <<>>
  /\ flushTimer = FALSE
  /\ flushPromise = None
  /\ file = None
  /\ closing = None
  /\ fd = [h \in Handles |-> None]
  /\ names = [n \in {"main", "temp"} |-> None]
  /\ data = [i \in Inodes |-> <<>>]
  /\ flush = [f \in Flushes |-> Idle]
  /\ updates = 0 /\ crashes = 0
  /\ held = [k \in Keys |-> {Absent}]
  /\ asked = [k \in Keys |-> {}]

-----------------------------------------------------------------------------
(* Helpers *)

(* What open() makes of the lines of a file: the last line of a key wins,  *)
(* and X removes it.                                                       *)
Parse(lines) ==
  [k \in Keys |->
     LET at == {n \in DOMAIN lines : lines[n].key = k}
     IN IF at = {} THEN Absent
        ELSE lines[CHOOSE n \in at : \A m \in at : m <= n].val]

Size(map) == Cardinality({k \in Keys : map[k] # Absent})

(* What open() would find now, and what it would find if the rename that   *)
(* is under way were done.                                                 *)
Recovered == IF names.main = None THEN Empty ELSE Parse(data[names.main])

Durable == IF names.main = None /\ names.temp # None
           THEN Parse(data[names.temp]) ELSE Recovered

(* The values the application has: those of the file until open(). *)
Memory == IF file = None THEN Durable ELSE values

Quiet == queue = <<>> /\ \A f \in Flushes : flush[f] = Idle

FreeHandle(h) ==
  /\ fd[h] = None /\ file # h
  /\ \A f \in Flushes : flush[f].handle # h

NewHandle == CHOOSE h \in Handles : FreeHandle(h)

(* fs.open(name, 'ra'): appends, and creates the file when it is missing. *)
OpenFile(name, h) ==
  IF names[name] # None
  THEN fd' = [fd EXCEPT ![h] = names[name]] /\ UNCHANGED <<names, data>>
  ELSE LET i == CHOOSE i \in Inodes : /\ i \notin {names.main, names.temp}
                                      /\ \A g \in Handles : fd[g] # i
       IN /\ names' = [names EXCEPT ![name] = i]
          /\ fd' = [fd EXCEPT ![h] = i]
          /\ data' = [data EXCEPT ![i] = <<>>]

(* Mutant: a flush under way is trusted to take the new line too. *)
EnqueueWhileFlushing(line) ==
  /\ updates < MaxUpdates
  /\ updates' = updates + 1
  /\ queue' = Append(queue, line)
  /\ flushTimer' = (flushTimer \/ flushPromise = None)

(* enqueue(): the line, and the timer unless it is armed. *)
Enqueue(line) ==
  /\ updates < MaxUpdates
  /\ updates' = updates + 1
  /\ queue' = Append(queue, line)
  /\ flushTimer' = TRUE

(* The flush that a call of onFlush() starts takes over the whole queue. *)
NewFlush == CHOOSE f \in Flushes : flush[f] = Idle

StartFlush ==
  /\ \E f \in Flushes : flush[f] = Idle
  /\ flush' = [flush EXCEPT ![NewFlush] = [Idle EXCEPT !.pc = "next",
                                                      !.todo = queue]]
  /\ queue' = <<>>

(* What becomes of a merge's loop over the Map when key k is removed: it   *)
(* will visit the key should it be set again.                              *)
Forget(k) ==
  flush' = [f \in Flushes |->
              IF flush[f].from = None
              THEN [flush[f] EXCEPT !.seen = @ \ {k}] ELSE flush[f]]

(* A merge goes on with the Map it began with when this.values is          *)
(* replaced.                                                               *)
KeepMap ==
  [f \in Flushes |->
     IF flush[f].pc \in {"mnext", "mwrite"} /\ flush[f].from = None
     THEN [flush[f] EXCEPT !.from = values] ELSE flush[f]]

-----------------------------------------------------------------------------
(* The application's calls *)

(* open(): the file is created if need be and its lines are read.  The     *)
(* application waits for it before it uses the storage (test-storage.js:9).*)
Open ==
  /\ file = None /\ closing = None
  /\ OpenFile("main", NewHandle)
  /\ file' = NewHandle
  /\ LET lines == data'[names'["main"]]
     IN /\ values' = Parse(lines)
        /\ lineCount' = Len(lines)
  /\ UNCHANGED <<queue, flushTimer, flushPromise, closing, flush, updates,
                 crashes>>

SetItem(k, v) ==
  /\ file # None
  /\ values[k] # v
  /\ values' = [values EXCEPT ![k] = v]
  /\ Enqueue([key |-> k, val |-> v])
  /\ lineCount' = lineCount + 1
  /\ UNCHANGED <<flushPromise, file, closing, disk, flush, crashes>>

RemoveItem(k) ==
  /\ file # None
  /\ values[k] # Absent
  /\ values' = [values EXCEPT ![k] = Absent]
  /\ Enqueue([key |-> k, val |-> Absent])
  /\ lineCount' = lineCount + 1
  /\ Forget(k)
  /\ UNCHANGED <<flushPromise, file, closing, disk, crashes>>

(* clear(): a new Map, and a merge queued. *)
Clear ==
  /\ file # None
  /\ values' = Empty
  /\ lineCount' = 0
  /\ Enqueue(Merge)
  /\ flush' = KeepMap
  /\ UNCHANGED <<flushPromise, file, closing, disk, crashes>>

(* flushValues(): onFlush() whatever the timer and flushPromise say.  With *)
(* nothing queued it returns at once, and its finally forgets the promise  *)
(* of a flush still under way.                                             *)
FlushValues ==
  /\ DirectFlush
  /\ file # None
  /\ IF queue = <<>>
     THEN flushPromise' = None /\ UNCHANGED <<queue, flush>>
     ELSE StartFlush /\ UNCHANGED flushPromise
  /\ UNCHANGED <<values, lineCount, flushTimer, file, closing, disk, updates,
                 crashes>>

(* close(), up to its first await: the flush under way, or one of its own. *)
Close ==
  /\ Closes /\ closing = None /\ file # None
  /\ IF flushPromise # None
     THEN closing' = flushPromise /\ UNCHANGED <<queue, flush, flushPromise>>
     ELSE IF queue = <<>>
     THEN closing' = "settled" /\ UNCHANGED <<queue, flush, flushPromise>>
     ELSE StartFlush /\ closing' = NewFlush /\ UNCHANGED flushPromise
  /\ UNCHANGED <<values, lineCount, flushTimer, file, disk, updates, crashes>>

(* Its second part: this.file is gone before the handle is closed. *)
CloseFile ==
  /\ closing = "settled"
  /\ closing' = "file"
  /\ fd' = IF file = None THEN fd ELSE [fd EXCEPT ![file] = None]
  /\ file' = None
  /\ UNCHANGED <<values, lineCount, queue, flushTimer, flushPromise, names,
                 data, flush, updates, crashes>>

CloseEnd ==
  /\ closing = "file"
  /\ closing' = None
  /\ values' = Empty
  /\ lineCount' = 0
  /\ flush' = KeepMap
  /\ UNCHANGED <<queue, flushTimer, flushPromise, file, disk, updates, crashes>>

-----------------------------------------------------------------------------
(* The timer of enqueue() *)

(* A flush still under way makes it return without arming itself again.    *)
(* An empty queue ends onFlush() before its promise is assigned, so that   *)
(* the promise stays.                                                      *)
TimerFires ==
  /\ flushTimer
  /\ SlowDisk \/ flushPromise \notin Flushes
  /\ flushTimer' = FALSE
  /\ IF flushPromise # None THEN UNCHANGED <<queue, flushPromise, flush>>
     ELSE IF queue = <<>>
     THEN flushPromise' = "settled" /\ UNCHANGED <<queue, flush>>
     ELSE StartFlush /\ flushPromise' = NewFlush
  /\ UNCHANGED <<values, lineCount, file, closing, disk, updates, crashes>>

-----------------------------------------------------------------------------
(* onFlush() and merge() *)

(* Mutant: the promise of the flush is forgotten, not settled. *)
FinishUnsettled(f) ==
  /\ flush' = [flush EXCEPT ![f] = Idle]
  /\ flushPromise' = None
  /\ UNCHANGED closing

(* The end of onFlush(), thrown or not: its finally. *)
Finish(f) ==
  /\ flush' = [flush EXCEPT ![f] = Idle]
  /\ flushPromise' = None
  /\ closing' = IF closing = f THEN "settled" ELSE closing

(* The next line of the queue taken over: a merge, or a write on the file  *)
(* of this moment; without one the line is gone.                           *)
NextLine(f) ==
  /\ flush[f].pc = "next" /\ flush[f].todo # <<>>
  /\ LET line == Head(flush[f].todo)
         rest == [flush[f] EXCEPT !.todo = Tail(@)]
     IN flush' = [flush EXCEPT
                    ![f] = IF line = Merge THEN [rest EXCEPT !.pc = "mopen"]
                           ELSE IF file = None THEN rest
                           ELSE [rest EXCEPT !.pc = "write", !.line = line,
                                             !.handle = file]]
  /\ UNCHANGED <<object, closing, disk, updates, crashes>>

(* The queue is done: merge when the file has too many lines. *)
LastLine(f) ==
  /\ flush[f].pc = "next" /\ flush[f].todo = <<>>
  /\ IF lineCount >= MergeFactor * Size(values) /\ ~flush[f].last
     THEN /\ flush' = [flush EXCEPT ![f] = [@ EXCEPT !.pc = "mopen",
                                                     !.last = TRUE]]
          /\ UNCHANGED <<flushPromise, closing>>
     ELSE Finish(f)
  /\ UNCHANGED <<values, lineCount, queue, flushTimer, file, disk, updates,
                 crashes>>

(* A write of a flush or of a merge is done. *)
LineWritten(f) ==
  /\ flush[f].pc \in {"write", "mwrite"}
  /\ LET i == fd[flush[f].handle]
     IN i # None /\ data' = [data EXCEPT ![i] = Append(@, flush[f].line)]
  /\ flush' = [flush EXCEPT
                 ![f] = IF flush[f].pc = "write"
                        THEN [@ EXCEPT !.pc = "next", !.line = None,
                                       !.handle = None]
                        ELSE [@ EXCEPT !.pc = "mnext", !.line = None]]
  /\ UNCHANGED <<object, closing, fd, names, updates, crashes>>

(* merge(), 1: the temporary file, continued if there is one. *)
MergeOpen(f) ==
  /\ flush[f].pc = "mopen"
  /\ OpenFile("temp", NewHandle)
  /\ flush' = [flush EXCEPT ![f] = [@ EXCEPT !.pc = "mnext",
                                             !.handle = NewHandle]]
  /\ UNCHANGED <<object, closing, updates, crashes>>

(* Mutant: the loop stops one key early. *)
MergeLineShort(f) ==
  /\ flush[f].pc = "mnext"
  /\ LET map == IF flush[f].from = None THEN values ELSE flush[f].from
         left == {k \in Keys : map[k] # Absent} \ flush[f].seen
     IN IF Cardinality(left) <= 1
        THEN flush' = [flush EXCEPT ![f] = [@ EXCEPT !.pc = "mclose"]]
        ELSE \E k \in left :
               flush' = [flush EXCEPT
                           ![f] = [flush[f] EXCEPT
                                     !.pc = "mwrite", !.seen = @ \cup {k},
                                     !.count = @ + 1,
                                     !.line = [key |-> k, val |-> map[k]]]]
  /\ UNCHANGED <<object, closing, disk, updates, crashes>>

(* One round of the loop over the Map. *)
MergeLine(f) ==
  /\ flush[f].pc = "mnext"
  /\ LET map == IF flush[f].from = None THEN values ELSE flush[f].from
         left == {k \in Keys : map[k] # Absent} \ flush[f].seen
     IN IF left = {}
        THEN flush' = [flush EXCEPT ![f] = [@ EXCEPT !.pc = "mclose"]]
        ELSE \E k \in left :
               flush' = [flush EXCEPT
                           ![f] = [flush[f] EXCEPT
                                     !.pc = "mwrite", !.seen = @ \cup {k},
                                     !.count = @ + 1,
                                     !.line = [key |-> k, val |-> map[k]]]]
  /\ UNCHANGED <<object, closing, disk, updates, crashes>>

(* The temporary file is closed; 2: the file of this moment will be. *)
MergeClosed(f) ==
  /\ flush[f].pc = "mclose"
  /\ fd' = [fd EXCEPT ![flush[f].handle] = None]
  /\ flush' = [flush EXCEPT ![f] = [@ EXCEPT !.pc = "close", !.handle = file]]
  /\ UNCHANGED <<object, closing, names, data, updates, crashes>>

(* Then 3: the name is unlinked; a missing file does no harm. *)
FileClosed(f) ==
  /\ flush[f].pc = "close"
  /\ LET h == flush[f].handle
     IN /\ h # None => fd[h] # None
        /\ fd' = IF h = None THEN fd ELSE [fd EXCEPT ![h] = None]
  /\ flush' = [flush EXCEPT ![f] = [@ EXCEPT !.pc = "unlink", !.handle = None]]
  /\ UNCHANGED <<object, closing, names, data, updates, crashes>>

Unlinked(f) ==
  /\ flush[f].pc = "unlink"
  /\ names' = [names EXCEPT !["main"] = None]
  /\ flush' = [flush EXCEPT ![f] = [@ EXCEPT !.pc = "rename"]]
  /\ UNCHANGED <<object, closing, fd, data, updates, crashes>>

Renamed(f) ==
  /\ flush[f].pc = "rename"
  /\ names["temp"] # None
  /\ names' = [main |-> names["temp"], temp |-> None]
  /\ flush' = [flush EXCEPT ![f] = [@ EXCEPT !.pc = "reopen"]]
  /\ UNCHANGED <<object, closing, fd, data, updates, crashes>>

(* Mutant: the queue is taken to be part of what was merged. *)
ReopenedAnew(f) ==
  /\ flush[f].pc = "reopen"
  /\ OpenFile("main", NewHandle)
  /\ file' = NewHandle
  /\ lineCount' = flush[f].count
  /\ queue' = <<>>
  /\ flush' = [flush EXCEPT ![f] = [@ EXCEPT !.pc = "next", !.seen = {},
                                             !.count = 0, !.from = None]]
  /\ UNCHANGED <<values, flushTimer, flushPromise, closing, updates, crashes>>

(* 4: the file again; its line count is what the loop wrote. *)
Reopened(f) ==
  /\ flush[f].pc = "reopen"
  /\ OpenFile("main", NewHandle)
  /\ file' = NewHandle
  /\ lineCount' = flush[f].count
  /\ flush' = [flush EXCEPT ![f] = [@ EXCEPT !.pc = "next", !.seen = {},
                                             !.count = 0, !.from = None]]
  /\ UNCHANGED <<values, queue, flushTimer, flushPromise, closing, updates,
                 crashes>>

(* Mutant: a failed rename is not reported. *)
RenameUnreported(f) ==
  /\ flush[f].pc \notin {"idle", "next", "mnext", "unlink", "rename"}
  /\ \/ Failures
     \/ flush[f].handle # None /\ fd[flush[f].handle] = None
  /\ Finish(f)
  /\ fd' = IF flush[f].pc \in {"mwrite", "mclose"} /\ flush[f].handle # None
           THEN [fd EXCEPT ![flush[f].handle] = None] ELSE fd
  /\ UNCHANGED <<values, lineCount, queue, flushTimer, file, names, data,
                 updates, crashes>>

(* A file operation fails: on a closed handle, for a missing name, or for  *)
(* a reason of its own.  The rest of the queue taken over is gone.         *)
FlushFails(f) ==
  /\ flush[f].pc \notin {"idle", "next", "mnext", "unlink"}
  /\ \/ Failures
     \/ flush[f].handle # None /\ fd[flush[f].handle] = None
     \/ flush[f].pc = "rename" /\ names["temp"] = None
  /\ Finish(f)
  /\ fd' = IF flush[f].pc \in {"mwrite", "mclose"} /\ flush[f].handle # None
           THEN [fd EXCEPT ![flush[f].handle] = None] ELSE fd
  /\ UNCHANGED <<values, lineCount, queue, flushTimer, file, names, data,
                 updates, crashes>>

-----------------------------------------------------------------------------
(* The process dies; what was written stays. *)
Crash ==
  /\ crashes < MaxCrashes
  /\ CrashInMerge \/ \A f \in Flushes : flush[f].pc \notin Merging
  /\ crashes' = crashes + 1
  /\ values' = Empty
  /\ lineCount' = 0
  /\ queue' = <<>>
  /\ flushTimer' = FALSE
  /\ flushPromise' = None
  /\ file' = None
  /\ closing' = None
  /\ fd' = [h \in Handles |-> None]
  /\ flush' = [f \in Flushes |-> Idle]
  /\ UNCHANGED <<names, data, updates>>

(* The histories.  When nothing is pending and the file agrees with the    *)
(* memory, only the present values count for held.                         *)
Remember ==
  /\ held' = IF (Quiet /\ Durable = Memory)'
             THEN [k \in Keys |-> {Memory'[k]}]
             ELSE [k \in Keys |-> held[k] \cup {Memory'[k]}]
  /\ asked' = [k \in Keys |-> IF closing' = None THEN {}
                              ELSE IF closing = None THEN {values[k]}
                              ELSE asked[k] \cup {values[k]}]

(* What a flush does between two of its awaits runs before any callback.   *)
Resumed(f) == NextLine(f) \/ LastLine(f) \/ MergeLine(f)

Suspended == \A f \in Flushes : flush[f].pc \notin {"next", "mnext"}

FileIO(f) ==
  \/ LineWritten(f) \/ MergeOpen(f) \/ MergeClosed(f) \/ FileClosed(f)
  \/ Unlinked(f) \/ Renamed(f) \/ Reopened(f) \/ FlushFails(f)

Application ==
  \/ Open
  \/ \E k \in Keys : RemoveItem(k) \/ \E v \in Vals : SetItem(k, v)
  \/ Clear \/ FlushValues
  \/ Close \/ CloseFile \/ CloseEnd

Step ==
  \/ \E f \in Flushes : Resumed(f)
  \/ /\ Suspended
     /\ \/ Application
        \/ TimerFires
        \/ \E f \in Flushes : FileIO(f)
        \/ Crash

Next == Step /\ Remember

Spec == Init /\ [][Next]_vars

(* The timer fires, file operations end, and close() goes on when the      *)
(* flush it awaits is over; each has its turn between the others.          *)
FairSpec ==
  /\ Spec
  /\ SF_vars(Suspended /\ TimerFires /\ Remember)
  /\ SF_vars(Suspended /\ (CloseFile \/ CloseEnd) /\ Remember)
  /\ \A f \in Flushes : /\ WF_vars(Resumed(f) /\ Remember)
                         /\ SF_vars(Suspended /\ FileIO(f) /\ Remember)

-----------------------------------------------------------------------------
(* When nothing is queued and no flush runs, a new process that opened the *)
(* file would find exactly the values of this one: through sets, removals  *)
(* and clears made while a flush or a merge was suspended.                 *)
IdleIsDurable == (Quiet /\ file # None) => Recovered = values

(* The storage writes behind: at any moment each key is on disk, or in the *)
(* temporary file about to take the name, with a value it has had since    *)
(* the file last agreed with the memory.                                   *)
Behind == INSTANCE WriteBehind
            WITH Values <- Vals \cup {Absent}, mem <- Memory, disk <- Durable
WritesBehind == Behind!Spec

(* storage.js:423, "localStorage is kept in flash, a reboot does not lose  *)
(* it": what open() would find after a crash at this moment is, for each   *)
(* key, a value it has had since the file last agreed with the memory.     *)
SurvivesReboot == \A k \in Keys : Recovered[k] \in held[k]

(* storage.js:423 again: when close() closes the file, each key is in it   *)
(* with a value it had at the call of close() or has had since.            *)
CloseSaves ==
  [][(closing = "settled" /\ closing' = "file")
       => \A k \in Keys : Recovered[k] \in asked[k] \cup {values[k]}]_vars

(* The call of onFlush() that close() awaits, or that flushPromise is the  *)
(* promise of, is still under way, however many are, and whatever becomes  *)
(* of them: otherwise a close() would wait for ever, or the timer would    *)
(* never start a flush again (storage.js:75-93, 107-123, 313-343).         *)
AwaitedFlushRuns ==
  \A f \in Flushes : f \in {flushPromise, closing} => flush[f].pc # "idle"

(* A change does not stay in the queue: some flush takes it over. *)
QueueDrains == queue # <<>> ~> queue = <<>>

(* Every call of onFlush() ends, whatever other flushes did to its files,  *)
(* its handles and its Map while it was suspended.                         *)
FlushEnds == \A f \in Flushes : flush[f].pc # "idle" ~> flush[f].pc = "idle"

(* close() never waits for ever for a flush. *)
CloseEnds == closing # None ~> closing = None
=============================================================================
