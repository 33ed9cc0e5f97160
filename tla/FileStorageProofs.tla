------------------------- MODULE FileStorageProofs -------------------------
(***************************************************************************)
(* Theorems about FileStorage.  As long as flushes are started by the      *)
(* timer, the storage stays open, file operations succeed and a crash      *)
(* spares the merge, the store implements WriteBehind, and its file is     *)
(* current whenever it has nothing to do.                                  *)
(*                                                                         *)
(* Three invariants carry the proofs.  Shape relates the place where the   *)
(* flush under way is suspended to the open handles and to the names in    *)
(* the directory.  Agree says for each key what the memory's value is on   *)
(* its way through: the queue, the lines a flush took over, the line being *)
(* written, or the loop of a merge.  Held says that what is on its way is  *)
(* a value the key has had since the file last agreed with the memory.     *)
(***************************************************************************)
EXTENDS FileStorage, Integers, TLAPS, WellFoundedInduction

(* The flags of the run StorageSafe: flushes are started by the timer only, *)
(* the storage stays open, file operations succeed, and a crash spares the *)
(* merge.                                                                  *)
Undisturbed == ~DirectFlush /\ ~Closes /\ ~Failures /\ ~CrashInMerge

(* The slots of the model are enough. *)
Slots ==
  /\ \E h, g \in Handles : h # g
  /\ \E i, j \in Inodes : i # j

Values == Vals \cup {Absent}

-----------------------------------------------------------------------------
(* The invariants *)

(* The call of onFlush() that is under way, if any: only the timer starts  *)
(* one, and it does so when there is none.                                 *)
Running == IF flushPromise = None THEN Idle ELSE flush[flushPromise]

Loop == {"mnext", "mwrite", "mclose"}

(* How file, handles and names fit the place where flush r is suspended.   *)
OpenShape(r, this, open, dir) ==
  /\ dir.main # None <=> r.pc # "rename"
  /\ dir.temp # None <=> r.pc \in Loop \cup {"close", "unlink", "rename"}
  /\ dir.main # None => dir.main # dir.temp
  /\ r.pc \in {"write", "close"} => r.handle = this
  /\ r.pc \in Loop => r.handle \in Handles \ {this}
  /\ r.pc \notin Loop \cup {"write", "close"} => r.handle = None
  /\ \A h \in Handles :
       open[h] = IF h = this
                 THEN IF r.pc \in {"unlink", "rename", "reopen"} THEN None
                      ELSE dir.main
                 ELSE IF r.pc \in Loop /\ h = r.handle THEN dir.temp ELSE None
  /\ r.pc \in {"write", "mwrite"} => r.line \in Line
  /\ r.pc \in {"idle", "next", "write", "mopen"} => r.seen = {} /\ r.from = None

Closed ==
  /\ queue = <<>> /\ flushPromise = None
  /\ names.temp = None
  /\ \A h \in Handles : fd[h] = None

Shape ==
  /\ TypeOK
  /\ closing = None
  /\ flushPromise # "settled"
  /\ flushPromise # None => Running.pc # "idle"
  /\ \A f \in Flushes : f # flushPromise => flush[f] = Idle
  /\ flushTimer => queue # <<>>
  /\ file = None => Closed
  /\ file # None => OpenShape(Running, file, fd, names)

Main == Parse(data[names.main])
Temp == Parse(data[names.temp])

(* Line l decides what the file has for key k. *)
Touches(l, k) == l = Merge \/ l.key = k

Untouched(lines, k) == \A n \in DOMAIN lines : ~Touches(lines[n], k)

(* The last of the lines about k, if no merge comes after it, says v. *)
Settles(lines, k, v) ==
  \A n \in DOMAIN lines :
    (/\ lines[n] # Merge /\ lines[n].key = k
     /\ \A m \in DOMAIN lines : m > n => ~Touches(lines[m], k))
    => lines[n].val = v

(* Key k, about which no line waits, will be in the file with value v.     *)
Arrives(r, k, v) ==
  /\ r.pc \in {"idle", "next", "reopen"} => Main[k] = v
  /\ r.pc = "write" => IF r.line.key = k THEN r.line.val = v ELSE Main[k] = v
  /\ r.pc \in {"mnext", "mwrite"} => r.from = None
  /\ r.pc = "mwrite" /\ r.line.key = k => r.line.val = v /\ k \in r.seen
  /\ (r.pc = "mnext" \/ (r.pc = "mwrite" /\ r.line.key # k)) =>
       Temp[k] = IF k \in r.seen THEN v ELSE Absent
  /\ r.pc \in {"mclose", "close", "unlink", "rename"} => Temp[k] = v

AgreeKey(k) ==
  /\ Settles(queue, k, values[k])
  /\ Untouched(queue, k) =>
       /\ Settles(Running.todo, k, values[k])
       /\ Untouched(Running.todo, k) => Arrives(Running, k, values[k])

Agree == file # None => \A k \in Keys : AgreeKey(k)

HeldLines(lines) ==
  \A n \in DOMAIN lines : lines[n] # Merge => lines[n].val \in held[lines[n].key]

(* What flush r will write for key k is a value to remember. *)
HeldKey(r, k) ==
  /\ r.from # None => r.from[k] \in held[k]
  /\ r.pc \in {"mnext", "mwrite"} => Temp[k] \in held[k] \cup {Absent}
  /\ r.pc \in {"mnext", "mwrite"} /\ k \in r.seen =>
       Temp[k] \in held[k] \/ (r.pc = "mwrite" /\ r.line.key = k)
  /\ r.pc \in {"mclose", "close", "unlink", "rename"} => Temp[k] \in held[k]

Held ==
  /\ \A k \in Keys : Memory[k] \in held[k] /\ Durable[k] \in held[k]
  /\ HeldLines(queue) /\ HeldLines(Running.todo)
  /\ Running.pc \in {"write", "mwrite"} =>
       Running.line.val \in held[Running.line.key]
  /\ \A k \in Keys : HeldKey(Running, k)

(* The Map that a merge goes over, and what its loop has not visited. *)
MapOf(r) == IF r.from = None THEN values ELSE r.from
Left(r) == {k \in Keys : MapOf(r)[k] # Absent} \ r.seen

-----------------------------------------------------------------------------
(* The lines of a file *)

LEMMA HasMax ==
  ASSUME NEW n \in Nat, NEW S \in SUBSET (1 .. n), S # {}
  PROVE  \E i \in S : \A j \in S : j <= i
<1> DEFINE R == OpToRel(<, Nat)
           T == {n - i : i \in S}
<1>1. IsWellFoundedOn(R, Nat)
  BY NatLessThanWellFounded, Zenon
<1>2. R = {ss \in Nat \X Nat : ss[1] < ss[2]}
  BY DEF OpToRel
<1> HIDE DEF R
<1>3. \A i \in S : i \in Int /\ i <= n /\ n - i \in Nat
  OBVIOUS
<1>4. T \subseteq Nat /\ T # {}
  BY <1>3
<1>5. PICK x \in T : \A y \in T : ~(<<y, x>> \in R)
  BY <1>1, <1>4, WFMin
<1>6. PICK i \in S : x = n - i
  BY <1>5
<1>7. ASSUME NEW j \in S PROVE j <= i
  <2>1. n - j \in T /\ n - i \in T /\ n - j \in Nat /\ n - i \in Nat
    BY <1>3
  <2>2. ~(n - j < n - i)
    BY <1>2, <1>5, <1>6, <2>1
  <2> QED BY <1>3, <2>2
<1> QED BY <1>7

(* open() finds the last line of a key... *)
LEMMA LastCounts ==
  ASSUME NEW lines \in Seq(Line), NEW k \in Keys, NEW n \in DOMAIN lines,
         lines[n].key = k, \A m \in DOMAIN lines : lines[m].key = k => m <= n
  PROVE  Parse(lines)[k] = lines[n].val
<1> DEFINE at == {i \in DOMAIN lines : lines[i].key = k}
<1>1. n \in at /\ (\A m \in at : m <= n) /\ at # {} /\ at \subseteq Int
  OBVIOUS
<1>2. (CHOOSE i \in at : \A m \in at : m <= i) = n
  <2> DEFINE c == CHOOSE i \in at : \A m \in at : m <= i
  <2>1. c \in at /\ \A m \in at : m <= c
    BY <1>1
  <2>2. c <= n /\ n <= c /\ c \in Int /\ n \in Int
    BY <1>1, <2>1
  <2> QED BY <2>2
<1> QED BY <1>1, <1>2 DEF Parse

(* ... and nothing for a key of which there is none. *)
LEMMA NoneCounts ==
  ASSUME NEW lines \in Seq(Line), NEW k \in Keys,
         \A m \in DOMAIN lines : lines[m].key # k
  PROVE  Parse(lines)[k] = Absent
BY DEF Parse

LEMMA HasLast ==
  ASSUME NEW lines \in Seq(Line), NEW k \in Keys, NEW n \in DOMAIN lines,
         lines[n].key = k
  PROVE  \E i \in DOMAIN lines :
           lines[i].key = k /\ \A m \in DOMAIN lines : lines[m].key = k => m <= i
<1> DEFINE at == {i \in DOMAIN lines : lines[i].key = k}
<1>1. at \in SUBSET (1 .. Len(lines)) /\ at # {} /\ Len(lines) \in Nat
  OBVIOUS
<1>2. \E i \in at : \A j \in at : j <= i
  BY <1>1, HasMax
<1> QED BY <1>2

LEMMA ParseTyped ==
  ASSUME NEW lines \in Seq(Line)
  PROVE  Parse(lines) \in [Keys -> Values]
<1>1. ASSUME NEW k \in Keys PROVE Parse(lines)[k] \in Values
  <2>1. CASE \A m \in DOMAIN lines : lines[m].key # k
    BY <2>1, NoneCounts DEF Values
  <2>2. CASE \E m \in DOMAIN lines : lines[m].key = k
    <3>1. PICK i \in DOMAIN lines :
            lines[i].key = k /\ \A m \in DOMAIN lines : lines[m].key = k => m <= i
      BY <2>2, HasLast
    <3>2. lines[i] \in Line
      BY <3>1
    <3> QED BY <3>1, <3>2, LastCounts DEF Line, Values
  <2> QED BY <2>1, <2>2
<1>2. Parse(lines) = [k \in Keys |-> Parse(lines)[k]]
  BY DEF Parse
<1> QED BY <1>1, <1>2

LEMMA ParseEmpty == Parse(<<>>) = Empty
BY DEF Parse, Empty

(* A line that is appended counts for its key and for no other. *)
LEMMA ParseAppend ==
  ASSUME NEW lines \in Seq(Line), NEW line \in Line
  PROVE  Parse(Append(lines, line)) = [Parse(lines) EXCEPT ![line.key] = line.val]
<1> DEFINE more == Append(lines, line)
<1>1. /\ more \in Seq(Line) /\ Len(lines) \in Nat /\ Len(more) = Len(lines) + 1
      /\ DOMAIN lines = 1 .. Len(lines)
      /\ DOMAIN more = 1 .. Len(lines) + 1
      /\ more[Len(lines) + 1] = line
      /\ \A m \in DOMAIN lines : m \in DOMAIN more /\ more[m] = lines[m]
  OBVIOUS
<1> HIDE DEF more
<1>2. ASSUME NEW k \in Keys
      PROVE  Parse(more)[k] = IF k = line.key THEN line.val ELSE Parse(lines)[k]
  <2>1. CASE k = line.key
    BY <1>1, <2>1, LastCounts
  <2>2. CASE k # line.key /\ \A m \in DOMAIN lines : lines[m].key # k
    <3>1. \A m \in DOMAIN more : more[m].key # k
      BY <1>1, <2>2
    <3> QED BY <1>1, <2>2, <3>1, NoneCounts
  <2>3. CASE k # line.key /\ \E m \in DOMAIN lines : lines[m].key = k
    <3>1. PICK i \in DOMAIN lines :
            lines[i].key = k /\ \A m \in DOMAIN lines : lines[m].key = k => m <= i
      BY <2>3, HasLast
    <3>2. /\ i \in DOMAIN more /\ more[i] = lines[i]
          /\ \A m \in DOMAIN more : more[m].key = k => m <= i
      BY <1>1, <2>3, <3>1
    <3>3. Parse(more)[k] = more[i].val
      BY <1>1, <3>1, <3>2, LastCounts
    <3>4. Parse(lines)[k] = lines[i].val
      BY <3>1, LastCounts
    <3> QED BY <2>3, <3>2, <3>3, <3>4
  <2> QED BY <2>1, <2>2, <2>3
<1>3. Parse(more) \in [Keys -> Values] /\ Parse(lines) \in [Keys -> Values]
  BY <1>1, ParseTyped
<1>4. line.key \in Keys
  BY DEF Line
<1>5. Parse(more) = [Parse(lines) EXCEPT ![line.key] = line.val]
  BY <1>2, <1>3, <1>4
<1> QED BY <1>5 DEF more

-----------------------------------------------------------------------------
(* The shape of the store *)

LEMMA IdleTyped == Idle \in Flush
BY DEF Idle, Flush, Line

LEMMA MemoryTyped ==
  /\ values \in [Keys -> Values]
  /\ names \in [{"main", "temp"} -> Inodes \cup {None}]
  /\ data \in [Inodes -> Seq(Line)]
  => /\ Recovered \in [Keys -> Values] /\ Durable \in [Keys -> Values]
     /\ Memory \in [Keys -> Values]
     /\ names.main # None => Main \in [Keys -> Values]
     /\ names.temp # None => Temp \in [Keys -> Values]
<1> SUFFICES ASSUME values \in [Keys -> Values],
                    names \in [{"main", "temp"} -> Inodes \cup {None}],
                    data \in [Inodes -> Seq(Line)]
             PROVE  /\ Recovered \in [Keys -> Values] /\ Durable \in [Keys -> Values]
                    /\ Memory \in [Keys -> Values]
                    /\ names.main # None => Main \in [Keys -> Values]
                    /\ names.temp # None => Temp \in [Keys -> Values]
  OBVIOUS
<1>1. Empty \in [Keys -> Values]
  BY DEF Empty, Values
<1>2. ASSUME NEW n \in {"main", "temp"}, names[n] # None
      PROVE  Parse(data[names[n]]) \in [Keys -> Values]
  BY <1>2, ParseTyped
<1> QED BY <1>1, <1>2 DEF Recovered, Durable, Memory, Main, Temp

LEMMA MemoryTypedNext ==
  ASSUME values' \in [Keys -> Values],
         names' \in [{"main", "temp"} -> Inodes \cup {None}],
         data' \in [Inodes -> Seq(Line)]
  PROVE  Durable' \in [Keys -> Values] /\ Memory' \in [Keys -> Values]
<1>1. Empty' \in [Keys -> Values]
  BY DEF Empty, Values
<1>2. ASSUME NEW n \in {"main", "temp"}, names'[n] # None
      PROVE  Parse(data'[names'[n]]) \in [Keys -> Values]
  BY <1>2, ParseTyped
<1> QED BY <1>1, <1>2 DEF Recovered, Durable, Memory, Parse

LEMMA HistoriesTyped ==
  ASSUME TypeOK, Remember, Memory' \in [Keys -> Values]
  PROVE  /\ held' \in [Keys -> SUBSET (Vals \cup {Absent})]
         /\ asked' \in [Keys -> SUBSET (Vals \cup {Absent})]
<1>1. held' \in [Keys -> SUBSET (Vals \cup {Absent})]
  BY DEF TypeOK, Remember, Values
<1>2. asked' \in [Keys -> SUBSET (Vals \cup {Absent})]
  BY DEF TypeOK, Remember
<1> QED BY <1>1, <1>2

(* What flush f finds when it goes on. *)
LEMMA UnderWay ==
  ASSUME Shape, NEW f \in Flushes, flush[f].pc # "idle"
  PROVE  /\ flushPromise = f /\ Running = flush[f] /\ flush[f] \in Flush
         /\ file \in Handles
         /\ OpenShape(flush[f], file, fd, names)
<1>1. flushPromise = f
  BY DEF Shape, Idle
<1>2. f # None
  BY ConstantsAssumption
<1>3. file # None
  BY <1>1, <1>2 DEF Shape, Closed
<1> QED BY <1>1, <1>2, <1>3 DEF Shape, Running, TypeOK

(* The shape after a step that keeps the storage open. *)
LEMMA ShapeKept ==
  ASSUME Shape, Remember,
         values' \in [Keys -> Values], lineCount' \in Nat,
         queue' \in Seq(Line \cup {Merge}), flushTimer' \in BOOLEAN,
         flushTimer' => queue' # <<>>,
         flushPromise' \in Flushes \cup {None}, file' \in Handles,
         closing' = None,
         fd' \in [Handles -> Inodes \cup {None}],
         names' \in [{"main", "temp"} -> Inodes \cup {None}],
         data' \in [Inodes -> Seq(Line)],
         flush' \in [Flushes -> Flush], updates' \in Nat, crashes' \in Nat,
         flushPromise' # None => flush'[flushPromise'].pc # "idle",
         \A f \in Flushes : f # flushPromise' => flush'[f] = Idle,
         OpenShape(Running', file', fd', names')
  PROVE  Shape'
<1>1. /\ held' \in [Keys -> SUBSET (Vals \cup {Absent})]
      /\ asked' \in [Keys -> SUBSET (Vals \cup {Absent})]
  BY MemoryTypedNext, HistoriesTyped DEF Shape
<1>2. TypeOK'
  BY <1>1 DEF TypeOK, Values
<1>3. file' # None /\ None \notin Flushes /\ "settled" \notin Flushes \cup {None}
  BY ConstantsAssumption
<1>4. OpenShape(Running, file, fd, names)'
  BY DEF OpenShape
<1>5. flushPromise' # None => Running'.pc # "idle"
  BY DEF Running
<1>6. \A f \in Flushes : f # flushPromise' => flush'[f] = Idle'
  BY DEF Idle
<1> QED BY <1>2, <1>3, <1>4, <1>5, <1>6 DEF Shape

(* The shape after a step of flush f that does not end it. *)
LEMMA FlushStep ==
  ASSUME Shape, Remember, NEW f \in Flushes, flush[f].pc # "idle",
         NEW q \in Flush, q.pc # "idle", flush' = [flush EXCEPT ![f] = q],
         UNCHANGED <<values, queue, flushTimer, flushPromise, closing,
                     updates, crashes>>,
         lineCount' \in Nat, file' \in Handles,
         fd' \in [Handles -> Inodes \cup {None}],
         names' \in [{"main", "temp"} -> Inodes \cup {None}],
         data' \in [Inodes -> Seq(Line)],
         OpenShape(q, file', fd', names')
  PROVE  Shape' /\ Running' = q
<1>1. flushPromise = f /\ f # None
  BY UnderWay, ConstantsAssumption
<1>2. flush \in [Flushes -> Flush] /\ \A g \in Flushes : g # f => flush[g] = Idle
  BY <1>1 DEF Shape, TypeOK
<1>3. Running' = q
  BY <1>1, <1>2 DEF Running
<1>4. /\ flush' \in [Flushes -> Flush] /\ flush'[f] = q
      /\ \A g \in Flushes : g # f => flush'[g] = Idle
  BY <1>2
<1>5. /\ values' \in [Keys -> Values] /\ queue' \in Seq(Line \cup {Merge})
      /\ flushTimer' \in BOOLEAN /\ (flushTimer' => queue' # <<>>)
      /\ closing' = None /\ updates' \in Nat /\ crashes' \in Nat
      /\ flushPromise' = f
  BY <1>1 DEF Shape, TypeOK, Values
<1>6. OpenShape(Running', file', fd', names')
  BY <1>3
<1> QED BY <1>1, <1>3, <1>4, <1>5, <1>6, ShapeKept

LEMMA NewHandleFree ==
  ASSUME \E h \in Handles : FreeHandle(h)
  PROVE  NewHandle \in Handles /\ FreeHandle(NewHandle)
BY DEF NewHandle

LEMMA OpensOld ==
  ASSUME NEW n \in {"main", "temp"}, NEW h, names[n] # None, OpenFile(n, h)
  PROVE  fd' = [fd EXCEPT ![h] = names[n]] /\ UNCHANGED <<names, data>>
BY DEF OpenFile

LEMMA OpensNew ==
  ASSUME NEW n \in {"main", "temp"}, NEW h, names[n] = None, OpenFile(n, h),
         \E i \in Inodes :
           i \notin {names.main, names.temp} /\ \A g \in Handles : fd[g] # i
  PROVE  \E i \in Inodes : /\ i \notin {names.main, names.temp}
                           /\ names' = [names EXCEPT ![n] = i]
                           /\ fd' = [fd EXCEPT ![h] = i]
                           /\ data' = [data EXCEPT ![i] = <<>>]
<1> DEFINE i == CHOOSE i \in Inodes : /\ i \notin {names.main, names.temp}
                                      /\ \A g \in Handles : fd[g] # i
<1>1. i \in Inodes /\ i \notin {names.main, names.temp}
  OBVIOUS
<1>2. /\ names' = [names EXCEPT ![n] = i]
      /\ fd' = [fd EXCEPT ![h] = i]
      /\ data' = [data EXCEPT ![i] = <<>>]
  BY DEF OpenFile
<1> QED BY <1>1, <1>2

-----------------------------------------------------------------------------
(* The steps of a flush *)

LEMMA ShapeNextLine ==
  ASSUME Shape, Remember, NEW f \in Flushes, NextLine(f)
  PROVE  /\ Shape'
         /\ Head(flush[f].todo) = Merge =>
              Running' = [flush[f] EXCEPT !.todo = Tail(@), !.pc = "mopen"]
         /\ Head(flush[f].todo) # Merge =>
              /\ Head(flush[f].todo) \in Line
              /\ Running' = [flush[f] EXCEPT !.todo = Tail(@), !.pc = "write",
                               !.line = Head(flush[f].todo), !.handle = file]
<1> DEFINE r == flush[f]
           q == IF Head(r.todo) = Merge
                THEN [r EXCEPT !.todo = Tail(@), !.pc = "mopen"]
                ELSE [r EXCEPT !.todo = Tail(@), !.pc = "write",
                               !.line = Head(r.todo), !.handle = file]
<1>1. /\ flushPromise = f /\ r \in Flush /\ file \in Handles
      /\ OpenShape(r, file, fd, names) /\ r.pc = "next" /\ file # None
  BY UnderWay, ConstantsAssumption DEF NextLine
<1>2. r.todo \in Seq(Line \cup {Merge}) /\ r.todo # <<>>
  BY <1>1 DEF Flush, NextLine
<1>3. Head(r.todo) \in Line \cup {Merge} /\ Tail(r.todo) \in Seq(Line \cup {Merge})
  BY <1>2
<1>4. q \in Flush /\ q.pc # "idle"
  BY <1>1, <1>3 DEF Flush, Merging
<1>5. flush' = [flush EXCEPT ![f] = q]
  BY <1>1 DEF NextLine
<1>6. OpenShape(q, file, fd, names)
  BY <1>1, <1>3 DEF OpenShape, Loop, Flush
<1>7. UNCHANGED <<values, queue, flushTimer, flushPromise, closing, updates,
                  crashes, lineCount, file, fd, names, data>>
  BY DEF NextLine, object, disk
<1>8. /\ lineCount' \in Nat /\ file' \in Handles
      /\ fd' \in [Handles -> Inodes \cup {None}]
      /\ names' \in [{"main", "temp"} -> Inodes \cup {None}]
      /\ data' \in [Inodes -> Seq(Line)]
      /\ OpenShape(q, file', fd', names')
  BY <1>1, <1>6, <1>7 DEF Shape, TypeOK
<1> HIDE DEF q
<1>9. Shape' /\ Running' = q
  BY <1>1, <1>4, <1>5, <1>7, <1>8, FlushStep
<1> QED BY <1>3, <1>9 DEF q

(* The end of a flush. *)
LEMMA ShapeFinish ==
  ASSUME Shape, Remember, NEW f \in Flushes, flush[f].pc = "next", Finish(f),
         UNCHANGED <<values, lineCount, queue, flushTimer, file, disk, updates,
                     crashes>>
  PROVE  Shape' /\ Running' = Idle
<1>1. /\ flushPromise = f /\ flush[f] \in Flush /\ file \in Handles
      /\ OpenShape(flush[f], file, fd, names)
  BY UnderWay
<1>2. flush \in [Flushes -> Flush] /\ \A g \in Flushes : g # f => flush[g] = Idle
  BY <1>1 DEF Shape, TypeOK
<1>3. flushPromise' = None /\ \A g \in Flushes : flush'[g] = Idle
  BY <1>2 DEF Finish
<1>4. flush' \in [Flushes -> Flush]
  BY <1>2, IdleTyped DEF Finish
<1>5. closing' = None
  BY ConstantsAssumption DEF Finish, Shape
<1>6. OpenShape(Idle, file, fd, names)
  BY <1>1 DEF OpenShape, Idle, Loop
<1>7. UNCHANGED <<fd, names, data>>
  BY DEF disk
<1>8. Running' = Idle
  BY <1>3 DEF Running, Idle
<1>9. /\ values' \in [Keys -> Values] /\ lineCount' \in Nat
      /\ queue' \in Seq(Line \cup {Merge}) /\ flushTimer' \in BOOLEAN
      /\ (flushTimer' => queue' # <<>>) /\ file' \in Handles
      /\ fd' \in [Handles -> Inodes \cup {None}]
      /\ names' \in [{"main", "temp"} -> Inodes \cup {None}]
      /\ data' \in [Inodes -> Seq(Line)] /\ updates' \in Nat /\ crashes' \in Nat
      /\ OpenShape(Running', file', fd', names')
  BY <1>1, <1>6, <1>7, <1>8 DEF Shape, TypeOK, Values
<1> QED BY <1>3, <1>4, <1>5, <1>8, <1>9, ShapeKept

LEMMA ShapeLastLine ==
  ASSUME Shape, Remember, NEW f \in Flushes, LastLine(f)
  PROVE  /\ Shape'
         /\ UNCHANGED <<values, queue, file, disk>>
         /\ \/ Running' = [flush[f] EXCEPT !.pc = "mopen", !.last = TRUE]
            \/ Running' = Idle
<1> DEFINE r == flush[f]
           q == [r EXCEPT !.pc = "mopen", !.last = TRUE]
<1>1. /\ flushPromise = f /\ r \in Flush /\ file \in Handles
      /\ OpenShape(r, file, fd, names) /\ r.pc = "next"
  BY UnderWay DEF LastLine
<1>2. UNCHANGED <<values, lineCount, queue, flushTimer, file, disk, updates, crashes>>
  BY DEF LastLine
<1>3. CASE Finish(f)
  BY <1>1, <1>2, <1>3, ShapeFinish
<1>4. CASE flush' = [flush EXCEPT ![f] = q] /\ UNCHANGED <<flushPromise, closing>>
  <2>1. q \in Flush /\ q.pc # "idle"
    BY <1>1 DEF Flush, Merging
  <2>2. OpenShape(q, file, fd, names)
    BY <1>1 DEF OpenShape, Loop, Flush
  <2>3. UNCHANGED <<fd, names, data>>
    BY <1>2 DEF disk
  <2>4. /\ lineCount' \in Nat /\ file' \in Handles
        /\ fd' \in [Handles -> Inodes \cup {None}]
        /\ names' \in [{"main", "temp"} -> Inodes \cup {None}]
        /\ data' \in [Inodes -> Seq(Line)]
        /\ OpenShape(q, file', fd', names')
    BY <1>1, <1>2, <2>2, <2>3 DEF Shape, TypeOK
  <2> HIDE DEF q
  <2>5. Shape' /\ Running' = q
    BY <1>1, <1>2, <1>4, <2>1, <2>4, FlushStep
  <2> QED BY <1>2, <2>5 DEF q
<1>5. \/ Finish(f)
      \/ flush' = [flush EXCEPT ![f] = q] /\ UNCHANGED <<flushPromise, closing>>
  BY DEF LastLine
<1> QED BY <1>3, <1>4, <1>5

LEMMA ShapeLineWritten ==
  ASSUME Shape, Remember, NEW f \in Flushes, LineWritten(f)
  PROVE  /\ Shape'
         /\ flush[f].line \in Line
         /\ \/ /\ flush[f].pc = "write" /\ names.main # None
               /\ data' = [data EXCEPT ![names.main] = Append(@, flush[f].line)]
               /\ Running' = [flush[f] EXCEPT !.pc = "next", !.line = None,
                                              !.handle = None]
            \/ /\ flush[f].pc = "mwrite" /\ names.temp # None
               /\ data' = [data EXCEPT ![names.temp] = Append(@, flush[f].line)]
               /\ Running' = [flush[f] EXCEPT !.pc = "mnext", !.line = None]
<1> DEFINE r == flush[f]
           i == fd[r.handle]
           q == IF r.pc = "write"
                THEN [r EXCEPT !.pc = "next", !.line = None, !.handle = None]
                ELSE [r EXCEPT !.pc = "mnext", !.line = None]
<1>1. /\ flushPromise = f /\ r \in Flush /\ file \in Handles /\ file # None
      /\ OpenShape(r, file, fd, names) /\ r.pc \in {"write", "mwrite"}
  BY UnderWay, ConstantsAssumption DEF LineWritten
<1>2. /\ r.line \in Line /\ i # None
      /\ data' = [data EXCEPT ![i] = Append(@, r.line)]
  BY <1>1 DEF OpenShape, LineWritten
<1>3. /\ r.pc = "write" => i = names.main
      /\ r.pc = "mwrite" => i = names.temp
  BY <1>1 DEF OpenShape, Loop
<1>4. i \in Inodes /\ data \in [Inodes -> Seq(Line)]
  BY <1>1, <1>2, <1>3 DEF Shape, TypeOK
<1>5. data' \in [Inodes -> Seq(Line)]
  <2>1. Append(data[i], r.line) \in Seq(Line)
    BY <1>2, <1>4
  <2> QED BY <1>2, <1>4, <2>1
<1>6. q \in Flush /\ q.pc # "idle"
  BY <1>1 DEF Flush, Merging
<1>7. flush' = [flush EXCEPT ![f] = q]
  BY <1>1 DEF LineWritten
<1>8. OpenShape(q, file, fd, names)
  BY <1>1 DEF OpenShape, Loop, Flush
<1>9. UNCHANGED <<values, queue, flushTimer, flushPromise, closing, updates,
                  crashes, lineCount, file, fd, names>>
  BY DEF LineWritten, object
<1>10. /\ lineCount' \in Nat /\ file' \in Handles
       /\ fd' \in [Handles -> Inodes \cup {None}]
       /\ names' \in [{"main", "temp"} -> Inodes \cup {None}]
       /\ OpenShape(q, file', fd', names')
  BY <1>1, <1>8, <1>9 DEF Shape, TypeOK
<1> HIDE DEF q
<1>11. Shape' /\ Running' = q
  BY <1>1, <1>5, <1>6, <1>7, <1>9, <1>10, FlushStep
<1> QED BY <1>1, <1>2, <1>3, <1>11 DEF q

LEMMA ShapeMergeOpen ==
  ASSUME Slots, Shape, Remember, NEW f \in Flushes, MergeOpen(f)
  PROVE  /\ Shape'
         /\ UNCHANGED <<values, queue, file>>
         /\ names.main # None /\ names'.main = names.main /\ names'.temp # None
         /\ names'.temp # names.main
         /\ data' = [data EXCEPT ![names'.temp] = <<>>]
         /\ Running' = [flush[f] EXCEPT !.pc = "mnext", !.handle = NewHandle]
<1> DEFINE r == flush[f]
           q == [r EXCEPT !.pc = "mnext", !.handle = NewHandle]
<1>1. /\ flushPromise = f /\ r \in Flush /\ file \in Handles /\ file # None
      /\ OpenShape(r, file, fd, names) /\ r.pc = "mopen"
  BY UnderWay, ConstantsAssumption DEF MergeOpen
<1>2. /\ names.main # None /\ names.temp = None /\ r.handle = None
      /\ r.seen = {} /\ r.from = None
      /\ \A h \in Handles : fd[h] = IF h = file THEN names.main ELSE None
      /\ names \in [{"main", "temp"} -> Inodes \cup {None}]
      /\ fd \in [Handles -> Inodes \cup {None}]
      /\ data \in [Inodes -> Seq(Line)]
  BY <1>1 DEF OpenShape, Loop, Shape, TypeOK
<1>3. \A g \in Flushes : flush[g].handle = None
  BY <1>1, <1>2 DEF Shape, Idle
<1>4. NewHandle \in Handles /\ FreeHandle(NewHandle)
  <2>1. PICK h \in Handles : h # file
    BY DEF Slots
  <2>2. h # None
    BY ConstantsAssumption
  <2>3. FreeHandle(h)
    BY <1>2, <1>3, <2>1, <2>2 DEF FreeHandle
  <2> QED BY <2>3, NewHandleFree
<1>5. NewHandle # file
  BY <1>4 DEF FreeHandle
<1>6. \E i \in Inodes :
        i \notin {names.main, names.temp} /\ \A g \in Handles : fd[g] # i
  <2>1. PICK i \in Inodes : i # names.main
    BY DEF Slots
  <2>2. i # None
    BY ConstantsAssumption
  <2> QED BY <1>2, <2>1, <2>2
<1>7. PICK i \in Inodes : /\ i \notin {names.main, names.temp}
                          /\ names' = [names EXCEPT !["temp"] = i]
                          /\ fd' = [fd EXCEPT ![NewHandle] = i]
                          /\ data' = [data EXCEPT ![i] = <<>>]
  <2>1. OpenFile("temp", NewHandle)
    BY DEF MergeOpen
  <2> QED BY <1>2, <1>6, <2>1, OpensNew
<1>8. names'.main = names.main /\ names'.temp = i /\ i # None
  BY <1>2, <1>7, ConstantsAssumption
<1>9. /\ fd' \in [Handles -> Inodes \cup {None}]
      /\ names' \in [{"main", "temp"} -> Inodes \cup {None}]
      /\ data' \in [Inodes -> Seq(Line)]
  BY <1>2, <1>4, <1>7
<1>10. q \in Flush /\ q.pc # "idle"
  BY <1>1, <1>4 DEF Flush, Merging
<1>11. flush' = [flush EXCEPT ![f] = q]
  BY DEF MergeOpen
<1>12. UNCHANGED <<values, queue, flushTimer, flushPromise, closing, updates,
                   crashes, lineCount, file>>
  BY DEF MergeOpen, object
<1>13. q.pc = "mnext" /\ q.handle = NewHandle
  BY <1>1 DEF Flush
<1>14. OpenShape(q, file, fd', names')
  <2>1. \A h \in Handles :
          fd'[h] = IF h = file THEN names.main ELSE IF h = NewHandle THEN i ELSE None
    BY <1>2, <1>4, <1>5, <1>7
  <2> HIDE DEF q
  <2> QED BY <1>2, <1>4, <1>5, <1>7, <1>8, <1>13, <2>1 DEF OpenShape, Loop
<1>15. lineCount' \in Nat /\ file' \in Handles /\ OpenShape(q, file', fd', names')
  BY <1>1, <1>12, <1>14 DEF Shape, TypeOK
<1> HIDE DEF q
<1>16. Shape' /\ Running' = q
  BY <1>1, <1>9, <1>10, <1>11, <1>12, <1>15, FlushStep
<1> QED BY <1>2, <1>7, <1>8, <1>12, <1>16 DEF q

LEMMA ShapeMergeLine ==
  ASSUME Shape, Remember, NEW f \in Flushes, MergeLine(f)
  PROVE  /\ Shape'
         /\ flush[f].pc = "mnext" /\ UNCHANGED <<values, queue, file, disk>>
         /\ \/ /\ Left(flush[f]) = {}
               /\ Running' = [flush[f] EXCEPT !.pc = "mclose"]
            \/ \E k \in Left(flush[f]) :
                 /\ MapOf(flush[f])[k] \in Values
                 /\ Running' = [flush[f] EXCEPT
                                  !.pc = "mwrite", !.seen = @ \cup {k},
                                  !.count = @ + 1,
                                  !.line = [key |-> k, val |-> MapOf(flush[f])[k]]]
<1> DEFINE r == flush[f]
           p == [r EXCEPT !.pc = "mclose"]
           q(k) == [r EXCEPT !.pc = "mwrite", !.seen = @ \cup {k}, !.count = @ + 1,
                             !.line = [key |-> k, val |-> MapOf(r)[k]]]
<1>1. /\ flushPromise = f /\ r \in Flush /\ file \in Handles
      /\ OpenShape(r, file, fd, names) /\ r.pc = "mnext"
  BY UnderWay DEF MergeLine
<1>2. UNCHANGED <<values, queue, flushTimer, flushPromise, closing, updates,
                  crashes, lineCount, file, fd, names, data, disk>>
  BY DEF MergeLine, object, disk
<1>3. /\ lineCount' \in Nat /\ file' \in Handles
      /\ fd' \in [Handles -> Inodes \cup {None}]
      /\ names' \in [{"main", "temp"} -> Inodes \cup {None}]
      /\ data' \in [Inodes -> Seq(Line)]
  BY <1>1, <1>2 DEF Shape, TypeOK
<1>4. MapOf(r) \in [Keys -> Values]
  BY <1>1 DEF MapOf, Shape, TypeOK, Flush, Values
<1>5. CASE Left(r) = {} /\ flush' = [flush EXCEPT ![f] = p]
  <2>1. p \in Flush /\ p.pc # "idle"
    BY <1>1 DEF Flush, Merging
  <2>2. OpenShape(p, file, fd, names)
    BY <1>1 DEF OpenShape, Loop, Flush
  <2> HIDE DEF p
  <2>3. Shape' /\ Running' = p
    BY <1>1, <1>2, <1>3, <1>5, <2>1, <2>2, FlushStep
  <2> QED BY <1>1, <1>2, <1>5, <2>3 DEF p
<1>6. ASSUME NEW k \in Left(r), flush' = [flush EXCEPT ![f] = q(k)]
      PROVE  Shape' /\ Running' = q(k) /\ MapOf(r)[k] \in Values
  <2> DEFINE w == q(k)
  <2>1. k \in Keys /\ MapOf(r)[k] \in Values
    BY <1>4 DEF Left
  <2>2. [key |-> k, val |-> MapOf(r)[k]] \in Line
    BY <2>1 DEF Line, Values
  <2>3. w \in Flush /\ w.pc # "idle"
    <3>1. r.seen \cup {k} \in SUBSET Keys /\ r.count + 1 \in Nat
      BY <1>1, <2>1 DEF Flush
    <3>2. w = [r EXCEPT !.pc = "mwrite", !.seen = r.seen \cup {k},
                        !.count = r.count + 1, !.line = [key |-> k, val |-> MapOf(r)[k]]]
      OBVIOUS
    <3> HIDE DEF w
    <3> QED BY <1>1, <2>2, <3>1, <3>2 DEF Flush, Merging
  <2>4. OpenShape(w, file, fd, names)
    BY <1>1, <2>2 DEF OpenShape, Loop, Flush
  <2> HIDE DEF w
  <2>5. flush' = [flush EXCEPT ![f] = w]
    BY <1>6 DEF w
  <2>6. Shape' /\ Running' = w
    BY <1>1, <1>2, <1>3, <2>3, <2>4, <2>5, FlushStep
  <2> QED BY <2>1, <2>6 DEF w
<1>7. \/ Left(r) = {} /\ flush' = [flush EXCEPT ![f] = p]
      \/ \E k \in Left(r) : flush' = [flush EXCEPT ![f] = q(k)]
  <2>1. CASE Left(r) = {}
    BY <2>1 DEF MergeLine, Left, MapOf
  <2>2. CASE Left(r) # {}
    <3>1. PICK k \in Left(r) :
            flush' = [flush EXCEPT
                        ![f] = [r EXCEPT !.pc = "mwrite", !.seen = @ \cup {k},
                                         !.count = @ + 1,
                                         !.line = [key |-> k, val |-> MapOf(r)[k]]]]
      BY <2>2 DEF MergeLine, Left, MapOf
    <3> QED BY <3>1
  <2> QED BY <2>1, <2>2
<1> QED BY <1>1, <1>2, <1>5, <1>6, <1>7

LEMMA ShapeMergeClosed ==
  ASSUME Shape, Remember, NEW f \in Flushes, MergeClosed(f)
  PROVE  /\ Shape'
         /\ flush[f].pc = "mclose" /\ UNCHANGED <<values, queue, file, names, data>>
         /\ Running' = [flush[f] EXCEPT !.pc = "close", !.handle = file]
<1> DEFINE r == flush[f]
           q == [r EXCEPT !.pc = "close", !.handle = file]
<1>1. /\ flushPromise = f /\ r \in Flush /\ file \in Handles
      /\ OpenShape(r, file, fd, names) /\ r.pc = "mclose"
  BY UnderWay DEF MergeClosed
<1>2. UNCHANGED <<values, queue, flushTimer, flushPromise, closing, updates,
                  crashes, lineCount, file, names, data>>
  BY DEF MergeClosed, object
<1>3. r.handle \in Handles \ {file} /\ fd \in [Handles -> Inodes \cup {None}]
  BY <1>1 DEF OpenShape, Loop, Shape, TypeOK
<1>4. fd' = [fd EXCEPT ![r.handle] = None] /\ flush' = [flush EXCEPT ![f] = q]
  BY DEF MergeClosed
<1>5. fd' \in [Handles -> Inodes \cup {None}]
  BY <1>3, <1>4
<1>6. q \in Flush /\ q.pc = "close" /\ q.handle = file
  BY <1>1 DEF Flush, Merging
<1>7. OpenShape(q, file, fd', names)
  <2>1. \A h \in Handles : fd'[h] = IF h = file THEN names.main ELSE None
    BY <1>1, <1>3, <1>4 DEF OpenShape, Loop
  <2>2. names.main # None /\ names.temp # None /\ names.main # names.temp
    BY <1>1 DEF OpenShape, Loop
  <2> HIDE DEF q
  <2> QED BY <1>6, <2>1, <2>2 DEF OpenShape, Loop
<1>8. /\ lineCount' \in Nat /\ file' \in Handles
      /\ names' \in [{"main", "temp"} -> Inodes \cup {None}]
      /\ data' \in [Inodes -> Seq(Line)] /\ OpenShape(q, file', fd', names')
  BY <1>1, <1>2, <1>7 DEF Shape, TypeOK
<1> HIDE DEF q
<1>9. Shape' /\ Running' = q
  BY <1>1, <1>2, <1>4, <1>5, <1>6, <1>8, FlushStep
<1> QED BY <1>1, <1>2, <1>9 DEF q

LEMMA ShapeFileClosed ==
  ASSUME Shape, Remember, NEW f \in Flushes, FileClosed(f)
  PROVE  /\ Shape'
         /\ flush[f].pc = "close" /\ UNCHANGED <<values, queue, file, names, data>>
         /\ Running' = [flush[f] EXCEPT !.pc = "unlink", !.handle = None]
<1> DEFINE r == flush[f]
           q == [r EXCEPT !.pc = "unlink", !.handle = None]
<1>1. /\ flushPromise = f /\ r \in Flush /\ file \in Handles /\ file # None
      /\ OpenShape(r, file, fd, names) /\ r.pc = "close"
  BY UnderWay, ConstantsAssumption DEF FileClosed
<1>2. UNCHANGED <<values, queue, flushTimer, flushPromise, closing, updates,
                  crashes, lineCount, file, names, data>>
  BY DEF FileClosed, object
<1>3. r.handle = file /\ fd \in [Handles -> Inodes \cup {None}]
  BY <1>1 DEF OpenShape, Loop, Shape, TypeOK
<1>4. fd' = [fd EXCEPT ![file] = None] /\ flush' = [flush EXCEPT ![f] = q]
  BY <1>1, <1>3 DEF FileClosed
<1>5. fd' \in [Handles -> Inodes \cup {None}]
  BY <1>3, <1>4
<1>6. q \in Flush /\ q.pc = "unlink" /\ q.handle = None
  BY <1>1 DEF Flush, Merging
<1>7. OpenShape(q, file, fd', names)
  <2>1. \A h \in Handles : fd'[h] = None
    BY <1>1, <1>3, <1>4 DEF OpenShape, Loop
  <2>2. names.main # None /\ names.temp # None /\ names.main # names.temp
    BY <1>1 DEF OpenShape, Loop
  <2> HIDE DEF q
  <2> QED BY <1>6, <2>1, <2>2 DEF OpenShape, Loop
<1>8. /\ lineCount' \in Nat /\ file' \in Handles
      /\ names' \in [{"main", "temp"} -> Inodes \cup {None}]
      /\ data' \in [Inodes -> Seq(Line)] /\ OpenShape(q, file', fd', names')
  BY <1>1, <1>2, <1>7 DEF Shape, TypeOK
<1> HIDE DEF q
<1>9. Shape' /\ Running' = q
  BY <1>1, <1>2, <1>4, <1>5, <1>6, <1>8, FlushStep
<1> QED BY <1>1, <1>2, <1>9 DEF q

LEMMA ShapeUnlinked ==
  ASSUME Shape, Remember, NEW f \in Flushes, Unlinked(f)
  PROVE  /\ Shape'
         /\ flush[f].pc = "unlink" /\ UNCHANGED <<values, queue, file, data>>
         /\ names'.main = None /\ names'.temp = names.temp /\ names.temp # None
         /\ Running' = [flush[f] EXCEPT !.pc = "rename"]
<1> DEFINE r == flush[f]
           q == [r EXCEPT !.pc = "rename"]
<1>1. /\ flushPromise = f /\ r \in Flush /\ file \in Handles
      /\ OpenShape(r, file, fd, names) /\ r.pc = "unlink"
  BY UnderWay DEF Unlinked
<1>2. UNCHANGED <<values, queue, flushTimer, flushPromise, closing, updates,
                  crashes, lineCount, file, fd, data>>
  BY DEF Unlinked, object
<1>3. /\ names \in [{"main", "temp"} -> Inodes \cup {None}] /\ names.temp # None
      /\ names' = [names EXCEPT !["main"] = None]
      /\ flush' = [flush EXCEPT ![f] = q]
  BY <1>1 DEF OpenShape, Loop, Shape, TypeOK, Unlinked
<1>4. /\ names' \in [{"main", "temp"} -> Inodes \cup {None}]
      /\ names'.main = None /\ names'.temp = names.temp
  BY <1>3
<1>5. q \in Flush /\ q.pc = "rename" /\ q.handle = None
  BY <1>1 DEF Flush, Merging, OpenShape, Loop
<1>6. OpenShape(q, file, fd, names')
  <2>1. \A h \in Handles : fd[h] = None
    BY <1>1 DEF OpenShape, Loop
  <2> HIDE DEF q
  <2> QED BY <1>3, <1>4, <1>5, <2>1 DEF OpenShape, Loop
<1>7. /\ lineCount' \in Nat /\ file' \in Handles
      /\ fd' \in [Handles -> Inodes \cup {None}]
      /\ data' \in [Inodes -> Seq(Line)] /\ OpenShape(q, file', fd', names')
  BY <1>1, <1>2, <1>6 DEF Shape, TypeOK
<1> HIDE DEF q
<1>8. Shape' /\ Running' = q
  BY <1>1, <1>2, <1>3, <1>4, <1>5, <1>7, FlushStep
<1> QED BY <1>1, <1>2, <1>3, <1>4, <1>8 DEF q

LEMMA ShapeRenamed ==
  ASSUME Shape, Remember, NEW f \in Flushes, Renamed(f)
  PROVE  /\ Shape'
         /\ flush[f].pc = "rename" /\ UNCHANGED <<values, queue, file, data>>
         /\ names.main = None /\ names.temp # None
         /\ names'.main = names.temp /\ names'.temp = None
         /\ Running' = [flush[f] EXCEPT !.pc = "reopen"]
<1> DEFINE r == flush[f]
           q == [r EXCEPT !.pc = "reopen"]
<1>1. /\ flushPromise = f /\ r \in Flush /\ file \in Handles
      /\ OpenShape(r, file, fd, names) /\ r.pc = "rename"
  BY UnderWay DEF Renamed
<1>2. UNCHANGED <<values, queue, flushTimer, flushPromise, closing, updates,
                  crashes, lineCount, file, fd, data>>
  BY DEF Renamed, object
<1>3. /\ names \in [{"main", "temp"} -> Inodes \cup {None}]
      /\ names.main = None /\ names.temp # None
      /\ names' = [main |-> names.temp, temp |-> None]
      /\ flush' = [flush EXCEPT ![f] = q]
  BY <1>1 DEF OpenShape, Loop, Shape, TypeOK, Renamed
<1>4. names' \in [{"main", "temp"} -> Inodes \cup {None}]
  BY <1>3
<1>5. q \in Flush /\ q.pc = "reopen" /\ q.handle = None
  BY <1>1 DEF Flush, Merging, OpenShape, Loop
<1>6. OpenShape(q, file, fd, names')
  <2>1. \A h \in Handles : fd[h] = None
    BY <1>1 DEF OpenShape, Loop
  <2> HIDE DEF q
  <2> QED BY <1>3, <1>5, <2>1 DEF OpenShape, Loop
<1>7. /\ lineCount' \in Nat /\ file' \in Handles
      /\ fd' \in [Handles -> Inodes \cup {None}]
      /\ data' \in [Inodes -> Seq(Line)] /\ OpenShape(q, file', fd', names')
  BY <1>1, <1>2, <1>6 DEF Shape, TypeOK
<1> HIDE DEF q
<1>8. Shape' /\ Running' = q
  BY <1>1, <1>2, <1>3, <1>4, <1>5, <1>7, FlushStep
<1> QED BY <1>1, <1>2, <1>3, <1>8 DEF q

LEMMA ShapeReopened ==
  ASSUME Slots, Shape, Remember, NEW f \in Flushes, Reopened(f)
  PROVE  /\ Shape'
         /\ flush[f].pc = "reopen" /\ UNCHANGED <<values, queue, names, data>>
         /\ file' # None
         /\ Running' = [flush[f] EXCEPT !.pc = "next", !.seen = {}, !.count = 0,
                                        !.from = None]
<1> DEFINE r == flush[f]
           q == [r EXCEPT !.pc = "next", !.seen = {}, !.count = 0, !.from = None]
<1>1. /\ flushPromise = f /\ r \in Flush /\ file \in Handles
      /\ OpenShape(r, file, fd, names) /\ r.pc = "reopen"
  BY UnderWay DEF Reopened
<1>2. /\ names.main # None /\ names.temp = None /\ r.handle = None
      /\ \A h \in Handles : fd[h] = None
      /\ fd \in [Handles -> Inodes \cup {None}]
      /\ names \in [{"main", "temp"} -> Inodes \cup {None}]
  BY <1>1 DEF OpenShape, Loop, Shape, TypeOK
<1>3. \A g \in Flushes : flush[g].handle = None
  BY <1>1, <1>2 DEF Shape, Idle
<1>4. NewHandle \in Handles /\ FreeHandle(NewHandle)
  <2>1. PICK h \in Handles : h # file
    BY DEF Slots
  <2>2. h # None
    BY ConstantsAssumption
  <2>3. FreeHandle(h)
    BY <1>2, <1>3, <2>1, <2>2 DEF FreeHandle
  <2> QED BY <2>3, NewHandleFree
<1>5. fd' = [fd EXCEPT ![NewHandle] = names.main] /\ UNCHANGED <<names, data>>
  <2>1. OpenFile("main", NewHandle)
    BY DEF Reopened
  <2> QED BY <1>2, <2>1, OpensOld
<1>6. fd' \in [Handles -> Inodes \cup {None}]
  BY <1>2, <1>4, <1>5
<1>7. UNCHANGED <<values, queue, flushTimer, flushPromise, closing, updates, crashes>>
  BY DEF Reopened
<1>8. q \in Flush /\ q.pc = "next" /\ q.handle = None /\ q.seen = {} /\ q.from = None
  BY <1>1, <1>2 DEF Flush, Merging
<1>9. flush' = [flush EXCEPT ![f] = q] /\ file' = NewHandle /\ lineCount' = r.count
  BY DEF Reopened
<1>10. OpenShape(q, NewHandle, fd', names)
  <2>1. \A h \in Handles : fd'[h] = IF h = NewHandle THEN names.main ELSE None
    BY <1>2, <1>4, <1>5
  <2> HIDE DEF q
  <2> QED BY <1>2, <1>4, <1>8, <2>1 DEF OpenShape, Loop
<1>11. /\ lineCount' \in Nat /\ file' \in Handles
       /\ names' \in [{"main", "temp"} -> Inodes \cup {None}]
       /\ data' \in [Inodes -> Seq(Line)] /\ OpenShape(q, file', fd', names')
  BY <1>1, <1>4, <1>5, <1>9, <1>10 DEF Shape, TypeOK, Flush
<1> HIDE DEF q
<1>12. Shape' /\ Running' = q
  BY <1>1, <1>6, <1>7, <1>8, <1>9, <1>11, FlushStep
<1> QED BY <1>1, <1>4, <1>5, <1>7, <1>9, <1>12, ConstantsAssumption DEF q

(* No file operation has a reason to fail. *)
LEMMA NothingFails ==
  ASSUME Undisturbed, Shape, NEW f \in Flushes
  PROVE  ~FlushFails(f)
<1> SUFFICES ASSUME FlushFails(f) PROVE FALSE
  OBVIOUS
<1> DEFINE r == flush[f]
<1>1. r.pc \notin {"idle", "next", "mnext", "unlink"}
  BY DEF FlushFails
<1>2. /\ r \in Flush /\ file \in Handles /\ file # None
      /\ OpenShape(r, file, fd, names)
  BY <1>1, UnderWay, ConstantsAssumption
<1>3. ~(r.handle # None /\ fd[r.handle] = None)
  BY <1>1, <1>2 DEF OpenShape, Loop, Flush, Merging
<1>4. ~(r.pc = "rename" /\ names["temp"] = None)
  BY <1>1, <1>2 DEF OpenShape, Loop
<1> QED BY <1>3, <1>4 DEF FlushFails, Undisturbed

-----------------------------------------------------------------------------
(* The other steps *)

LEMMA ShapeOpen ==
  ASSUME Slots, Shape, Remember, Open
  PROVE  /\ Shape'
         /\ Running' = Running /\ Running = Idle
         /\ queue = <<>> /\ queue' = <<>> /\ \A f \in Flushes : flush'[f] = Idle
         /\ file = None /\ file' # None /\ names'.main # None /\ names'.temp = None
         /\ values' = Parse(data'[names'.main])
         /\ values' = Durable
<1>1. /\ queue = <<>> /\ flushPromise = None /\ names.temp = None
      /\ \A h \in Handles : fd[h] = None
      /\ file = None /\ \A f \in Flushes : flush[f] = Idle
  BY ConstantsAssumption DEF Shape, Closed, Open
<1>2. /\ names \in [{"main", "temp"} -> Inodes \cup {None}]
      /\ fd \in [Handles -> Inodes \cup {None}]
      /\ data \in [Inodes -> Seq(Line)]
  BY DEF Shape, TypeOK
<1>3. NewHandle \in Handles
  <2>1. PICK h \in Handles : TRUE
    BY DEF Slots
  <2>2. h # None
    BY ConstantsAssumption
  <2>3. FreeHandle(h)
    BY <1>1, <2>1, <2>2 DEF FreeHandle, Idle
  <2> QED BY <2>3, NewHandleFree
<1>4. \E i \in Inodes :
        i \notin {names.main, names.temp} /\ \A g \in Handles : fd[g] # i
  <2>1. PICK i \in Inodes : i # names.main
    BY DEF Slots
  <2>2. i # None
    BY ConstantsAssumption
  <2> QED BY <1>1, <2>1, <2>2
<1>5. OpenFile("main", NewHandle) /\ file' = NewHandle /\ NewHandle # None
  BY <1>3, ConstantsAssumption DEF Open
<1>6. /\ fd' = [fd EXCEPT ![NewHandle] = names'.main]
      /\ names'.main # None /\ names'.main \in Inodes /\ names'.temp = None
      /\ names' \in [{"main", "temp"} -> Inodes \cup {None}]
      /\ data' \in [Inodes -> Seq(Line)]
      /\ Parse(data'[names'.main]) = Durable
  <2>1. CASE names.main # None
    <3>1. fd' = [fd EXCEPT ![NewHandle] = names["main"]] /\ UNCHANGED <<names, data>>
      BY <1>5, <2>1, OpensOld
    <3> QED BY <1>1, <1>2, <2>1, <3>1 DEF Durable, Recovered
  <2>2. CASE names.main = None
    <3>1. PICK i \in Inodes : /\ i \notin {names.main, names.temp}
                              /\ names' = [names EXCEPT !["main"] = i]
                              /\ fd' = [fd EXCEPT ![NewHandle] = i]
                              /\ data' = [data EXCEPT ![i] = <<>>]
      BY <1>4, <1>5, <2>2, OpensNew
    <3>2. names'.main = i /\ names'.temp = None /\ i # None /\ data'[i] = <<>>
      BY <1>1, <1>2, <3>1, ConstantsAssumption
    <3>3. Durable = Empty
      BY <1>1, <2>2 DEF Durable, Recovered
    <3> QED BY <1>2, <3>1, <3>2, <3>3, ParseEmpty
  <2> QED BY <2>1, <2>2
<1>7. fd' \in [Handles -> Inodes \cup {None}]
  BY <1>2, <1>3, <1>6
<1>8. /\ values' = Parse(data'[names'.main])
      /\ lineCount' = Len(data'[names'.main])
      /\ UNCHANGED <<queue, flushTimer, flushPromise, closing, flush, updates, crashes>>
  BY DEF Open
<1>9. Running = Idle /\ Running' = Idle
  BY <1>1, <1>8 DEF Running, Idle
<1>10. OpenShape(Idle, NewHandle, fd', names')
  <2>1. \A h \in Handles : fd'[h] = IF h = NewHandle THEN names'.main ELSE None
    BY <1>1, <1>2, <1>3, <1>6
  <2> QED BY <1>3, <1>6, <2>1 DEF OpenShape, Loop, Idle
<1>11. /\ values' \in [Keys -> Values] /\ lineCount' \in Nat
       /\ queue' \in Seq(Line \cup {Merge}) /\ flushTimer' \in BOOLEAN
       /\ (flushTimer' => queue' # <<>>) /\ file' \in Handles /\ closing' = None
       /\ updates' \in Nat /\ crashes' \in Nat /\ flush' \in [Flushes -> Flush]
  BY <1>3, <1>5, <1>6, <1>8, ParseTyped DEF Shape, TypeOK
<1>12. /\ flushPromise' = None /\ OpenShape(Running', file', fd', names')
       /\ \A f \in Flushes : f # flushPromise' => flush'[f] = Idle
  BY <1>1, <1>5, <1>8, <1>9, <1>10
<1>13. Shape'
  BY <1>6, <1>7, <1>11, <1>12, ShapeKept
<1> QED BY <1>1, <1>5, <1>6, <1>8, <1>9, <1>13

(* The shape after a change of the values. *)
LEMMA ShapeChange ==
  ASSUME Shape, Remember, file # None, NEW line \in Line \cup {Merge}, Enqueue(line),
         values' \in [Keys -> Values], lineCount' \in Nat,
         UNCHANGED <<flushPromise, file, closing, disk, crashes>>,
         flush' \in [Flushes -> Flush], NEW q, Running' = q,
         q.pc = Running.pc, q.handle = Running.handle, q.line = Running.line,
         q.pc \in {"idle", "next", "write", "mopen"} =>
           q.seen = {} /\ q.from = None,
         \A f \in Flushes : f # flushPromise => flush'[f] = Idle
  PROVE  Shape'
<1>1. queue' \in Seq(Line \cup {Merge}) /\ queue' # <<>>
  <2>1. queue \in Seq(Line \cup {Merge}) /\ queue' = Append(queue, line)
    BY DEF Shape, TypeOK, Enqueue
  <2>2. Len(queue') = Len(queue) + 1 /\ Len(queue) \in Nat
    BY <2>1
  <2> QED BY <2>1, <2>2
<1>2. UNCHANGED <<fd, names, data>>
  BY DEF disk
<1>3. OpenShape(Running, file, fd, names)
  BY DEF Shape
<1>4. OpenShape(Running', file', fd', names')
  BY <1>2, <1>3 DEF OpenShape
<1>5. /\ flushTimer' = TRUE /\ updates' \in Nat
  BY DEF Shape, TypeOK, Enqueue
<1>6. flushPromise \in Flushes \cup {None}
  BY DEF Shape, TypeOK
<1>7. flushPromise' # None => flush'[flushPromise'].pc # "idle"
  <2>1. flushPromise # None => Running' = flush'[flushPromise] /\ Running.pc # "idle"
    BY DEF Running, Shape
  <2> QED BY <2>1
<1>8. /\ file' \in Handles /\ closing' = None /\ crashes' \in Nat
      /\ fd' \in [Handles -> Inodes \cup {None}]
      /\ names' \in [{"main", "temp"} -> Inodes \cup {None}]
      /\ data' \in [Inodes -> Seq(Line)]
  BY <1>2 DEF Shape, TypeOK
<1> QED BY <1>1, <1>4, <1>5, <1>6, <1>7, <1>8, ShapeKept

LEMMA RunningTyped == Shape => Running \in Flush
BY IdleTyped DEF Shape, TypeOK, Running

LEMMA ShapeSetItem ==
  ASSUME Shape, Remember, NEW k \in Keys, NEW v \in Vals, SetItem(k, v)
  PROVE  Shape' /\ Running' = Running /\ file # None
<1>1. /\ file # None /\ Enqueue([key |-> k, val |-> v])
      /\ values' = [values EXCEPT ![k] = v] /\ lineCount' = lineCount + 1
      /\ UNCHANGED <<flushPromise, file, closing, disk, flush, crashes>>
  BY DEF SetItem
<1>2. Running' = Running
  BY <1>1 DEF Running, Idle
<1>3. [key |-> k, val |-> v] \in Line \cup {Merge}
  BY DEF Line
<1>4. /\ values' \in [Keys -> Values] /\ lineCount' \in Nat
      /\ flush' \in [Flushes -> Flush]
      /\ \A f \in Flushes : f # flushPromise => flush'[f] = Idle
  BY <1>1 DEF Shape, TypeOK, Values
<1>5. Running.pc \in {"idle", "next", "write", "mopen"} =>
        Running.seen = {} /\ Running.from = None
  BY <1>1 DEF Shape, OpenShape
<1> QED BY <1>1, <1>2, <1>3, <1>4, <1>5, ShapeChange

LEMMA ShapeRemoveItem ==
  ASSUME Shape, Remember, NEW k \in Keys, RemoveItem(k)
  PROVE  /\ Shape' /\ file # None
         /\ Running' = Running \/
            Running' = [Running EXCEPT !.seen = Running.seen \ {k}]
<1> DEFINE q == IF Running.from = None
                THEN [Running EXCEPT !.seen = @ \ {k}] ELSE Running
<1>1. /\ file # None /\ Enqueue([key |-> k, val |-> Absent])
      /\ values' = [values EXCEPT ![k] = Absent] /\ lineCount' = lineCount + 1
      /\ Forget(k)
      /\ UNCHANGED <<flushPromise, file, closing, disk, crashes>>
  BY DEF RemoveItem
<1>2. flush \in [Flushes -> Flush]
  BY DEF Shape, TypeOK
<1>3. ASSUME NEW f \in Flushes, flush[f] = Idle PROVE flush'[f] = Idle
  <2>1. [Idle EXCEPT !.seen = @ \ {k}] = Idle
    <3> DEFINE r == [Idle EXCEPT !.seen = @ \ {k}]
    <3>1. Idle \in Flush /\ Idle.seen \ {k} = {} /\ Idle.seen = {}
      BY IdleTyped DEF Idle
    <3>2. /\ r \in Flush
          /\ r.pc = Idle.pc /\ r.todo = Idle.todo /\ r.line = Idle.line
          /\ r.handle = Idle.handle /\ r.seen = Idle.seen /\ r.count = Idle.count
          /\ r.from = Idle.from /\ r.last = Idle.last
      BY <3>1 DEF Flush
    <3> HIDE DEF r
    <3>3. r = [pc |-> r.pc, todo |-> r.todo, line |-> r.line, handle |-> r.handle,
               seen |-> r.seen, count |-> r.count, from |-> r.from, last |-> r.last]
      BY <3>2 DEF Flush
    <3>4. r = Idle
      BY <3>2, <3>3 DEF Idle
    <3> QED BY <3>4 DEF r
  <2> QED BY <1>1, <1>3, <2>1 DEF Forget
<1>4. flushPromise \in Flushes => Running = flush[flushPromise] /\ Running' = q
  BY <1>1, ConstantsAssumption DEF Forget, Running
<1>5. flushPromise = None => Running = Idle /\ Running' = Idle
  BY <1>1 DEF Running, Idle
<1>6. flushPromise \in Flushes \cup {None} /\ Running \in Flush
  BY RunningTyped DEF Shape, TypeOK
<1>7. flush' \in [Flushes -> Flush]
  <2>1. ASSUME NEW f \in Flushes PROVE [flush[f] EXCEPT !.seen = @ \ {k}] \in Flush
    BY <1>2 DEF Flush
  <2> QED BY <1>1, <1>2, <2>1 DEF Forget
<1>8. [key |-> k, val |-> Absent] \in Line \cup {Merge}
  BY DEF Line
<1>9. /\ values' \in [Keys -> Values] /\ lineCount' \in Nat
      /\ \A f \in Flushes : f # flushPromise => flush'[f] = Idle
  BY <1>1, <1>3 DEF Shape, TypeOK, Values
<1>10. Running.pc \in {"idle", "next", "write", "mopen"} =>
         Running.seen = {} /\ Running.from = None
  BY <1>1 DEF Shape, OpenShape
<1>11. \/ Running' = Running
       \/ Running' = [Running EXCEPT !.seen = Running.seen \ {k}]
  BY <1>4, <1>5, <1>6
<1>12. /\ Running'.pc = Running.pc /\ Running'.handle = Running.handle
       /\ Running'.line = Running.line
       /\ Running'.pc \in {"idle", "next", "write", "mopen"} =>
            Running'.seen = {} /\ Running'.from = None
  BY <1>6, <1>10, <1>11 DEF Flush
<1>13. Shape'
  BY <1>1, <1>7, <1>8, <1>9, <1>12, ShapeChange
<1> QED BY <1>1, <1>11, <1>13

LEMMA ShapeClear ==
  ASSUME Shape, Remember, Clear
  PROVE  /\ Shape' /\ file # None
         /\ \/ Running' = Running
            \/ /\ Running.pc \in {"mnext", "mwrite"} /\ Running.from = None
               /\ Running' = [Running EXCEPT !.from = values]
<1> DEFINE q == IF Running.pc \in {"mnext", "mwrite"} /\ Running.from = None
                THEN [Running EXCEPT !.from = values] ELSE Running
<1>1. /\ file # None /\ Enqueue(Merge) /\ values' = Empty /\ lineCount' = 0
      /\ flush' = KeepMap
      /\ UNCHANGED <<flushPromise, file, closing, disk, crashes>>
  BY DEF Clear
<1>2. flush \in [Flushes -> Flush] /\ values \in [Keys -> Vals \cup {Absent}]
  BY DEF Shape, TypeOK
<1>3. ASSUME NEW f \in Flushes, flush[f] = Idle PROVE flush'[f] = Idle
  BY <1>1, <1>3 DEF KeepMap, Idle
<1>4. flushPromise \in Flushes => Running = flush[flushPromise] /\ Running' = q
  BY <1>1, ConstantsAssumption DEF KeepMap, Running
<1>5. flushPromise = None => Running = Idle /\ Running' = Idle
  BY <1>1 DEF Running, Idle
<1>6. flushPromise \in Flushes \cup {None} /\ Running \in Flush
  BY RunningTyped DEF Shape, TypeOK
<1>7. flush' \in [Flushes -> Flush]
  <2>1. ASSUME NEW f \in Flushes PROVE [flush[f] EXCEPT !.from = values] \in Flush
    BY <1>2 DEF Flush
  <2> QED BY <1>1, <1>2, <2>1 DEF KeepMap
<1>8. /\ values' \in [Keys -> Values] /\ lineCount' \in Nat
      /\ \A f \in Flushes : f # flushPromise => flush'[f] = Idle
  BY <1>1, <1>3 DEF Shape, TypeOK, Values, Empty
<1>9. Running.pc \in {"idle", "next", "write", "mopen"} =>
        Running.seen = {} /\ Running.from = None
  BY <1>1 DEF Shape, OpenShape
<1>10. \/ Running' = Running
       \/ /\ Running.pc \in {"mnext", "mwrite"} /\ Running.from = None
          /\ Running' = [Running EXCEPT !.from = values]
  BY <1>4, <1>5, <1>6
<1>11. /\ Running'.pc = Running.pc /\ Running'.handle = Running.handle
       /\ Running'.line = Running.line
       /\ Running'.pc \in {"idle", "next", "write", "mopen"} =>
            Running'.seen = {} /\ Running'.from = None
  BY <1>6, <1>9, <1>10 DEF Flush
<1>12. Shape'
  BY <1>1, <1>7, <1>8, <1>11, ShapeChange
<1> QED BY <1>1, <1>10, <1>12

LEMMA ShapeTimerFires ==
  ASSUME Shape, Remember, TimerFires
  PROVE  /\ Shape' /\ file # None /\ queue # <<>>
         /\ UNCHANGED <<values, file, disk>>
         /\ \/ Running' = Running /\ Running.pc # "idle" /\ UNCHANGED queue
            \/ /\ Running = Idle /\ queue' = <<>>
               /\ Running' = [Idle EXCEPT !.pc = "next", !.todo = queue]
<1>1. /\ flushTimer /\ queue # <<>> /\ file # None
      /\ queue \in Seq(Line \cup {Merge}) /\ flush \in [Flushes -> Flush]
      /\ OpenShape(Running, file, fd, names)
      /\ flushPromise \in Flushes \cup {None} /\ file \in Handles
  BY DEF TimerFires, Shape, Closed, TypeOK
<1>2. /\ flushTimer' = FALSE
      /\ UNCHANGED <<values, lineCount, file, closing, disk, updates, crashes>>
      /\ UNCHANGED <<fd, names, data>>
  BY DEF TimerFires, disk
<1>3. /\ values' \in [Keys -> Values] /\ lineCount' \in Nat
      /\ flushTimer' \in BOOLEAN /\ (flushTimer' => queue' # <<>>)
      /\ file' \in Handles /\ closing' = None
      /\ fd' \in [Handles -> Inodes \cup {None}]
      /\ names' \in [{"main", "temp"} -> Inodes \cup {None}]
      /\ data' \in [Inodes -> Seq(Line)] /\ updates' \in Nat /\ crashes' \in Nat
  BY <1>1, <1>2 DEF Shape, TypeOK, Values
<1>4. CASE flushPromise # None
  <2>1. UNCHANGED <<queue, flushPromise, flush>>
    BY <1>4 DEF TimerFires
  <2>2. Running' = Running /\ Running.pc # "idle"
    BY <1>4, <2>1 DEF Running, Shape, Idle
  <2>3. /\ queue' \in Seq(Line \cup {Merge}) /\ flush' \in [Flushes -> Flush]
        /\ flushPromise' \in Flushes \cup {None}
        /\ (flushPromise' # None => flush'[flushPromise'].pc # "idle")
        /\ \A f \in Flushes : f # flushPromise' => flush'[f] = Idle
    BY <1>1, <2>1, <2>2 DEF Shape, Running
  <2>4. OpenShape(Running', file', fd', names')
    BY <1>1, <1>2, <2>2
  <2>5. Shape'
    BY <1>3, <2>3, <2>4, ShapeKept
  <2> QED BY <1>1, <1>2, <2>1, <2>2, <2>5
<1>5. CASE flushPromise = None
  <2>1. StartFlush /\ flushPromise' = NewFlush
    BY <1>1, <1>5 DEF TimerFires
  <2>2. \A f \in Flushes : flush[f] = Idle
    BY <1>5, ConstantsAssumption DEF Shape
  <2>3. NewFlush \in Flushes /\ NewFlush # None
    BY <2>1, ConstantsAssumption DEF StartFlush, NewFlush
  <2> DEFINE q == [Idle EXCEPT !.pc = "next", !.todo = queue]
  <2>4. flush' = [flush EXCEPT ![NewFlush] = q] /\ queue' = <<>>
    BY <2>1 DEF StartFlush
  <2>5. q \in Flush /\ q.pc = "next"
    BY <1>1, IdleTyped DEF Flush
  <2>6. Running = Idle /\ flush'[NewFlush] = q
    BY <1>1, <1>5, <2>3, <2>4 DEF Running
  <2>7. Running' = q
    BY <2>1, <2>3, <2>6 DEF Running
  <2>8. OpenShape(q, file, fd, names)
    BY <1>1, <2>6 DEF OpenShape, Loop, Idle
  <2> HIDE DEF q
  <2>9. /\ queue' \in Seq(Line \cup {Merge}) /\ flush' \in [Flushes -> Flush]
        /\ flushPromise' \in Flushes \cup {None}
        /\ (flushPromise' # None => flush'[flushPromise'].pc # "idle")
        /\ \A f \in Flushes : f # flushPromise' => flush'[f] = Idle
    BY <1>1, <2>1, <2>2, <2>3, <2>4, <2>5, <2>6
  <2>10. OpenShape(Running', file', fd', names')
    BY <1>2, <2>7, <2>8
  <2>11. Shape'
    BY <1>3, <2>9, <2>10, ShapeKept
  <2> QED BY <1>1, <1>2, <2>4, <2>6, <2>7, <2>11 DEF q
<1> QED BY <1>4, <1>5

LEMMA ShapeCrash ==
  ASSUME Undisturbed, Shape, Remember, Crash
  PROVE  /\ Shape' /\ Running' = Idle /\ file' = None /\ queue' = <<>>
         /\ names.temp = None /\ UNCHANGED <<names, data>>
         /\ \A f \in Flushes : flush'[f] = Idle
<1>1. /\ values' = Empty /\ lineCount' = 0 /\ queue' = <<>> /\ flushTimer' = FALSE
      /\ flushPromise' = None /\ file' = None /\ closing' = None
      /\ fd' = [h \in Handles |-> None] /\ flush' = [f \in Flushes |-> Idle]
      /\ crashes' = crashes + 1 /\ UNCHANGED <<names, data, updates>>
  BY DEF Crash
<1>2. names.temp = None
  <2>1. CASE file = None
    BY <2>1 DEF Shape, Closed
  <2>2. CASE file # None
    <3>1. Running.pc \notin Merging
      BY DEF Running, Shape, TypeOK, Crash, Undisturbed, Idle, Merging
    <3> QED BY <2>2, <3>1 DEF Shape, OpenShape, Loop, Merging
  <2> QED BY <2>1, <2>2
<1>3. /\ values' \in [Keys -> Values] /\ queue' \in Seq(Line \cup {Merge})
      /\ flush' \in [Flushes -> Flush]
      /\ lineCount' \in Nat /\ crashes' \in Nat /\ updates' \in Nat
      /\ fd' \in [Handles -> Inodes \cup {None}]
      /\ names' \in [{"main", "temp"} -> Inodes \cup {None}]
      /\ data' \in [Inodes -> Seq(Line)]
  BY <1>1, IdleTyped DEF Shape, TypeOK, Values, Empty
<1>4. /\ held' \in [Keys -> SUBSET (Vals \cup {Absent})]
      /\ asked' \in [Keys -> SUBSET (Vals \cup {Absent})]
  BY <1>3, MemoryTypedNext, HistoriesTyped DEF Shape
<1>5. TypeOK'
  BY <1>1, <1>3, <1>4 DEF TypeOK, Values
<1>6. Closed'
  BY <1>1, <1>2 DEF Closed
<1>7. flushPromise' # "settled" /\ \A f \in Flushes : flush'[f] = Idle'
  BY <1>1, ConstantsAssumption DEF Idle
<1>8. Shape'
  BY <1>1, <1>5, <1>6, <1>7 DEF Shape
<1>9. Running' = Idle
  BY <1>1 DEF Running, Idle
<1> QED BY <1>1, <1>2, <1>8, <1>9

LEMMA ShapeInit == Init => Shape
<1> SUFFICES ASSUME Init PROVE Shape
  OBVIOUS
<1>1. TypeOK
  <2>1. /\ held \in [Keys -> SUBSET (Vals \cup {Absent})]
        /\ asked \in [Keys -> SUBSET (Vals \cup {Absent})]
        /\ values \in [Keys -> Vals \cup {Absent}]
    BY DEF Init, Empty
  <2>2. /\ data \in [Inodes -> Seq(Line)] /\ queue \in Seq(Line \cup {Merge})
        /\ flush \in [Flushes -> Flush]
    BY IdleTyped DEF Init
  <2>3. /\ fd \in [Handles -> Inodes \cup {None}]
        /\ names \in [{"main", "temp"} -> Inodes \cup {None}]
    BY DEF Init
  <2> QED BY <2>1, <2>2, <2>3 DEF Init, TypeOK
<1>2. Closed
  BY DEF Init, Closed
<1> QED BY <1>1, <1>2, ConstantsAssumption DEF Init, Shape

LEMMA ShapeSame == Shape /\ UNCHANGED vars => Shape' /\ Running' = Running
BY DEF Shape, vars, object, disk, TypeOK, Closed, OpenShape, Running, Idle

(* What the undisturbed store can do. *)
Changes ==
  \/ Open \/ Clear
  \/ \E k \in Keys : RemoveItem(k) \/ \E v \in Vals : SetItem(k, v)

FlushSteps(f) ==
  \/ NextLine(f) \/ LastLine(f) \/ MergeLine(f)
  \/ LineWritten(f) \/ MergeOpen(f) \/ MergeClosed(f) \/ FileClosed(f)
  \/ Unlinked(f) \/ Renamed(f) \/ Reopened(f)

LEMMA UndisturbedSteps ==
  ASSUME Undisturbed, Shape, [Next]_vars
  PROVE  \/ Remember /\ (Changes \/ TimerFires \/ Crash)
         \/ Remember /\ \E f \in Flushes : FlushSteps(f)
         \/ UNCHANGED vars
<1>1. ~FlushValues /\ ~Close /\ ~CloseFile /\ ~CloseEnd
  BY ConstantsAssumption
     DEF Undisturbed, FlushValues, Close, CloseFile, CloseEnd, Shape
<1>2. \A f \in Flushes : ~FlushFails(f)
  BY NothingFails
<1> QED
  BY <1>1, <1>2
     DEF Next, Step, Application, FileIO, Resumed, Changes, FlushSteps

LEMMA ShapeNext == Undisturbed /\ Slots /\ Shape /\ [Next]_vars => Shape'
<1> SUFFICES ASSUME Undisturbed, Slots, Shape, [Next]_vars PROVE Shape'
  OBVIOUS
<1>1. CASE Remember /\ (Changes \/ TimerFires \/ Crash)
  BY <1>1, ShapeOpen, ShapeClear, ShapeRemoveItem, ShapeSetItem, ShapeTimerFires,
     ShapeCrash DEF Changes
<1>2. CASE Remember /\ \E f \in Flushes : FlushSteps(f)
  BY <1>2, ShapeNextLine, ShapeLastLine, ShapeMergeLine, ShapeLineWritten,
     ShapeMergeOpen, ShapeMergeClosed, ShapeFileClosed, ShapeUnlinked, ShapeRenamed,
     ShapeReopened DEF FlushSteps
<1> QED BY <1>1, <1>2, ShapeSame, UndisturbedSteps

-----------------------------------------------------------------------------
(* Lines that wait *)

LEMMA LineIsNoMerge == Merge \notin Line
BY ConstantsAssumption DEF Line

LEMMA NoLines ==
  ASSUME NEW k, NEW v
  PROVE  Settles(<<>>, k, v) /\ Untouched(<<>>, k)
BY DEF Settles, Untouched

LEMMA AppendFacts ==
  ASSUME NEW T, NEW lines \in Seq(T), NEW line \in T
  PROVE  /\ Len(lines) \in Nat
         /\ DOMAIN lines = 1 .. Len(lines)
         /\ DOMAIN Append(lines, line) = 1 .. Len(lines) + 1
         /\ Append(lines, line)[Len(lines) + 1] = line
         /\ \A n \in DOMAIN lines : /\ n \in DOMAIN Append(lines, line)
                                    /\ Append(lines, line)[n] = lines[n]
OBVIOUS

(* A line about another key changes nothing. *)
LEMMA AppendOther ==
  ASSUME NEW lines \in Seq(Line \cup {Merge}), NEW line \in Line, NEW k, NEW v,
         line.key # k
  PROVE  /\ Settles(lines, k, v) => Settles(Append(lines, line), k, v)
         /\ Untouched(Append(lines, line), k) => Untouched(lines, k)
<1> DEFINE more == Append(lines, line)
           l == Len(lines)
<1>1. /\ l \in Nat /\ DOMAIN lines = 1 .. l /\ DOMAIN more = 1 .. l + 1
      /\ more[l + 1] = line
      /\ \A n \in DOMAIN lines : n \in DOMAIN more /\ more[n] = lines[n]
  BY AppendFacts
<1> HIDE DEF more
<1>2. ~Touches(line, k)
  BY LineIsNoMerge DEF Touches
<1>3. \A n \in DOMAIN more : n \in DOMAIN lines \/ n = l + 1
  BY <1>1
<1>4. Settles(lines, k, v) => Settles(more, k, v)
  BY <1>1, <1>2, <1>3 DEF Settles, Touches
<1>5. Untouched(more, k) => Untouched(lines, k)
  BY <1>1 DEF Untouched
<1> QED BY <1>4, <1>5 DEF more

(* A line with the value of its key is the one that counts. *)
LEMMA AppendOwn ==
  ASSUME NEW lines \in Seq(Line \cup {Merge}), NEW line \in Line, NEW k, NEW v,
         line.key = k, line.val = v
  PROVE  /\ Settles(Append(lines, line), k, v)
         /\ ~Untouched(Append(lines, line), k)
<1> DEFINE more == Append(lines, line)
           l == Len(lines)
<1>1. /\ l \in Nat /\ DOMAIN lines = 1 .. l /\ DOMAIN more = 1 .. l + 1
      /\ more[l + 1] = line /\ l + 1 \in DOMAIN more
  BY AppendFacts
<1> HIDE DEF more
<1>2. Touches(line, k)
  BY DEF Touches
<1>3. \A n \in DOMAIN more : n = l + 1 \/ l + 1 > n
  BY <1>1
<1>4. Settles(more, k, v)
  BY <1>1, <1>2, <1>3 DEF Settles
<1>5. ~Untouched(more, k)
  BY <1>1, <1>2 DEF Untouched
<1> QED BY <1>4, <1>5 DEF more

(* Before a merge nothing counts. *)
LEMMA AppendMerge ==
  ASSUME NEW lines \in Seq(Line \cup {Merge}), NEW k, NEW v
  PROVE  /\ Settles(Append(lines, Merge), k, v)
         /\ ~Untouched(Append(lines, Merge), k)
<1> DEFINE more == Append(lines, Merge)
           l == Len(lines)
<1>1. /\ l \in Nat /\ DOMAIN lines = 1 .. l /\ DOMAIN more = 1 .. l + 1
      /\ more[l + 1] = Merge /\ l + 1 \in DOMAIN more
  BY AppendFacts
<1> HIDE DEF more
<1>2. Touches(Merge, k)
  BY DEF Touches
<1>3. \A n \in DOMAIN more : n = l + 1 \/ l + 1 > n
  BY <1>1
<1>4. Settles(more, k, v)
  BY <1>1, <1>2, <1>3 DEF Settles
<1>5. ~Untouched(more, k)
  BY <1>1, <1>2 DEF Untouched
<1> QED BY <1>4, <1>5 DEF more

(* What is left when the first line is taken. *)
LEMMA TailLines ==
  ASSUME NEW lines \in Seq(Line \cup {Merge}), lines # <<>>, NEW k, NEW v
  PROVE  /\ Settles(lines, k, v) => Settles(Tail(lines), k, v)
         /\ Untouched(Tail(lines), k) /\ ~Touches(Head(lines), k) =>
              Untouched(lines, k)
         /\ /\ Settles(lines, k, v) /\ Untouched(Tail(lines), k)
            /\ Head(lines) # Merge /\ Head(lines).key = k
            => Head(lines).val = v
<1> DEFINE rest == Tail(lines)
           l == Len(lines)
<1>1. /\ l \in Nat \ {0} /\ DOMAIN lines = 1 .. l /\ DOMAIN rest = 1 .. l - 1
      /\ Head(lines) = lines[1] /\ 1 \in DOMAIN lines
      /\ \A n \in DOMAIN rest : n + 1 \in DOMAIN lines /\ rest[n] = lines[n + 1]
  OBVIOUS
<1> HIDE DEF rest
<1>2. \A n \in DOMAIN lines : n = 1 \/ (n - 1 \in DOMAIN rest /\ lines[n] = rest[n - 1])
  <2> SUFFICES ASSUME NEW n \in DOMAIN lines, n # 1
               PROVE  n - 1 \in DOMAIN rest /\ lines[n] = rest[n - 1]
    OBVIOUS
  <2>1. n \in Nat /\ n - 1 \in 1 .. l - 1 /\ (n - 1) + 1 = n
    BY <1>1
  <2> QED BY <1>1, <2>1
<1>3. ASSUME Settles(lines, k, v) PROVE Settles(rest, k, v)
  <2> SUFFICES ASSUME NEW n \in DOMAIN rest, rest[n] # Merge, rest[n].key = k,
                      \A m \in DOMAIN rest : m > n => ~Touches(rest[m], k)
               PROVE  rest[n].val = v
    BY DEF Settles
  <2>1. n \in Nat /\ n + 1 \in DOMAIN lines /\ lines[n + 1] = rest[n]
    BY <1>1
  <2>2. ASSUME NEW m \in DOMAIN lines, m > n + 1 PROVE ~Touches(lines[m], k)
    <3>1. m \in Nat /\ m # 1 /\ m - 1 > n
      BY <1>1, <2>1, <2>2
    <3> QED BY <1>2, <3>1
  <2> QED BY <1>3, <2>1, <2>2 DEF Settles
<1>4. Untouched(rest, k) /\ ~Touches(lines[1], k) => Untouched(lines, k)
  BY <1>2 DEF Untouched
<1>5. ASSUME Settles(lines, k, v), Untouched(rest, k), lines[1] # Merge,
             lines[1].key = k
      PROVE  lines[1].val = v
  <2>1. \A m \in DOMAIN lines : m > 1 => ~Touches(lines[m], k)
    BY <1>2, <1>5 DEF Untouched
  <2> QED BY <1>1, <1>5, <2>1 DEF Settles
<1> QED BY <1>1, <1>3, <1>4, <1>5 DEF rest

(* A line that is no merge is about its own key only. *)
LEMMA OtherLine ==
  ASSUME NEW line \in Line, NEW k
  PROVE  Touches(line, k) <=> line.key = k
BY LineIsNoMerge DEF Touches

-----------------------------------------------------------------------------
(* The file will agree with the memory *)

(* A line written to one of the two files. *)
LEMMA WriteContent ==
  ASSUME TypeOK, NEW n \in {"main", "temp"}, names[n] # None,
         NEW line \in Line, UNCHANGED names,
         data' = [data EXCEPT ![names[n]] = Append(@, line)]
  PROVE  /\ Parse(data[names[n]]) \in [Keys -> Values]
         /\ Parse(data'[names[n]]) =
              [Parse(data[names[n]]) EXCEPT ![line.key] = line.val]
         /\ \A i \in Inodes : i # names[n] => data'[i] = data[i]
<1>1. names[n] \in Inodes /\ data \in [Inodes -> Seq(Line)]
  BY DEF TypeOK
<1>2. data[names[n]] \in Seq(Line)
  BY <1>1
<1>3. data'[names[n]] = Append(data[names[n]], line)
  BY <1>1
<1> QED BY <1>1, <1>2, <1>3, ParseTyped, ParseAppend

LEMMA SettlesSame ==
  ASSUME NEW lines, NEW k, NEW v, NEW w, Settles(lines, k, v), v = w
  PROVE  Settles(lines, k, w)
OBVIOUS

(* A step of the flush that takes no line and leaves the values alone. *)
LEMMA AgreeKept ==
  ASSUME Agree, file # None, UNCHANGED <<values, queue>>,
         Running'.todo = Running.todo,
         \A k \in Keys : Untouched(queue, k) /\ Untouched(Running.todo, k)
                         /\ Arrives(Running, k, values[k])
                         => Arrives(Running, k, values[k])'
  PROVE  Agree'
<1> SUFFICES ASSUME NEW k \in Keys PROVE AgreeKey(k)'
  BY DEF Agree
<1>1. AgreeKey(k)
  BY DEF Agree
<1>2. /\ Settles(queue, k, values[k])' <=> Settles(queue, k, values[k])
      /\ Untouched(queue, k)' <=> Untouched(queue, k)
      /\ Settles(Running.todo, k, values[k])' <=> Settles(Running.todo, k, values[k])
      /\ Untouched(Running.todo, k)' <=> Untouched(Running.todo, k)
  BY DEF Settles, Untouched, Touches
<1> QED BY <1>1, <1>2 DEF AgreeKey

LEMMA AgreeNextLine ==
  ASSUME Shape, Agree, Remember, NEW f \in Flushes, NextLine(f)
  PROVE  Agree'
<1> DEFINE r == flush[f]
           line == Head(r.todo)
           rest == Tail(r.todo)
<1>1. /\ Running = r /\ r \in Flush /\ file # None /\ r.pc = "next"
      /\ OpenShape(r, file, fd, names)
  BY UnderWay, ConstantsAssumption DEF NextLine
<1>2. r.todo \in Seq(Line \cup {Merge}) /\ r.todo # <<>>
  BY <1>1 DEF Flush, NextLine
<1>3. UNCHANGED <<values, queue, file, names, data>>
  BY DEF NextLine, object, disk
<1>4. /\ line = Merge => Running' = [r EXCEPT !.todo = rest, !.pc = "mopen"]
      /\ line # Merge => line \in Line /\ Running' = [r EXCEPT !.todo = rest,
                           !.pc = "write", !.line = line, !.handle = file]
  BY ShapeNextLine
<1>5. Running'.todo = rest
  BY <1>1, <1>4 DEF Flush
<1> SUFFICES ASSUME NEW k \in Keys PROVE AgreeKey(k)'
  BY DEF Agree
<1> DEFINE v == values[k]
<1>6. /\ Settles(queue, k, v)
      /\ Untouched(queue, k) => /\ Settles(r.todo, k, v)
                                /\ Untouched(r.todo, k) => Main[k] = v
  BY <1>1 DEF Agree, AgreeKey, Arrives
<1>7. /\ Settles(r.todo, k, v) => Settles(rest, k, v)
      /\ Untouched(rest, k) /\ ~Touches(line, k) => Untouched(r.todo, k)
      /\ Settles(r.todo, k, v) /\ Untouched(rest, k) /\ line # Merge /\ line.key = k
         => line.val = v
  BY <1>2, TailLines
<1>8. ASSUME Untouched(queue, k), Untouched(rest, k)
      PROVE  Arrives(Running, k, v)'
  <2>1. CASE line = Merge
    <3>1. Running'.pc = "mopen"
      BY <1>1, <1>4, <2>1 DEF Flush
    <3> QED BY <3>1 DEF Arrives
  <2>2. CASE line # Merge
    <3>1. line \in Line /\ Running'.pc = "write" /\ Running'.line = line
      BY <1>1, <1>4, <2>2 DEF Flush
    <3>2. IF line.key = k THEN line.val = v ELSE Main[k] = v
      BY <1>6, <1>7, <1>8, <2>2, <3>1, OtherLine
    <3>3. Main' = Main
      BY <1>3 DEF Main, Parse
    <3> QED BY <1>3, <3>1, <3>2, <3>3 DEF Arrives
  <2> QED BY <2>1, <2>2
<1>9. /\ Settles(queue, k, v)' <=> Settles(queue, k, v)
      /\ Untouched(queue, k)' <=> Untouched(queue, k)
      /\ Settles(Running.todo, k, v)' <=> Settles(rest, k, v)
      /\ Untouched(Running.todo, k)' <=> Untouched(rest, k)
  BY <1>3, <1>5 DEF Settles, Untouched, Touches
<1> QED BY <1>6, <1>7, <1>8, <1>9 DEF AgreeKey

LEMMA AgreeLastLine ==
  ASSUME Shape, Agree, Remember, NEW f \in Flushes, LastLine(f)
  PROVE  Agree'
<1> DEFINE r == flush[f]
<1>1. /\ Running = r /\ r \in Flush /\ file # None /\ r.pc = "next" /\ r.todo = <<>>
  BY UnderWay, ConstantsAssumption DEF LastLine
<1>2. /\ UNCHANGED <<values, queue, file, names, data>>
      /\ \/ Running' = [r EXCEPT !.pc = "mopen", !.last = TRUE]
         \/ Running' = Idle
  BY ShapeLastLine DEF disk
<1>3. Running'.todo = Running.todo /\ Running'.pc \in {"mopen", "idle"}
  <2>1. CASE Running' = [r EXCEPT !.pc = "mopen", !.last = TRUE]
    BY <1>1, <2>1 DEF Flush
  <2>2. CASE Running' = Idle
    BY <1>1, <2>2 DEF Idle
  <2> QED BY <1>2, <2>1, <2>2
<1>4. Main' = Main
  BY <1>2 DEF Main, Parse
<1>5. \A k \in Keys : Arrives(Running, k, values[k]) => Arrives(Running, k, values[k])'
  BY <1>1, <1>2, <1>3, <1>4 DEF Arrives
<1> QED BY <1>1, <1>2, <1>3, <1>5, AgreeKept

LEMMA AgreeLineWritten ==
  ASSUME Shape, Agree, Remember, NEW f \in Flushes, LineWritten(f)
  PROVE  Agree'
<1> DEFINE r == flush[f]
<1>1. /\ Running = r /\ r \in Flush /\ file # None /\ OpenShape(r, file, fd, names)
  BY UnderWay, ConstantsAssumption DEF LineWritten
<1>2. UNCHANGED <<values, queue, file, names>> /\ r.line \in Line /\ TypeOK
  BY ShapeLineWritten DEF LineWritten, object, Shape
<1>3. CASE r.pc = "write"
  <2>1. /\ names.main # None
        /\ data' = [data EXCEPT ![names.main] = Append(@, r.line)]
        /\ Running' = [r EXCEPT !.pc = "next", !.line = None, !.handle = None]
    BY <1>3, ShapeLineWritten
  <2>2. Main \in [Keys -> Values] /\ Main' = [Main EXCEPT ![r.line.key] = r.line.val]
    <3>1. /\ Parse(data[names["main"]]) \in [Keys -> Values]
          /\ Parse(data'[names["main"]]) =
               [Parse(data[names["main"]]) EXCEPT ![r.line.key] = r.line.val]
      BY <1>2, <2>1, WriteContent
    <3>2. Main' = Parse(data'[names["main"]])
      BY <1>2 DEF Main, Parse
    <3> QED BY <3>1, <3>2 DEF Main
  <2>3. Running'.todo = Running.todo /\ Running'.pc = "next"
    BY <1>1, <2>1 DEF Flush
  <2>4. ASSUME NEW k \in Keys, Arrives(Running, k, values[k])
        PROVE  Arrives(Running, k, values[k])'
    BY <1>1, <1>2, <1>3, <2>2, <2>3, <2>4 DEF Arrives
  <2> QED BY <1>1, <1>2, <2>3, <2>4, AgreeKept
<1>4. CASE r.pc = "mwrite"
  <2>1. /\ names.temp # None
        /\ data' = [data EXCEPT ![names.temp] = Append(@, r.line)]
        /\ Running' = [r EXCEPT !.pc = "mnext", !.line = None]
    BY <1>4, ShapeLineWritten
  <2>2. Temp \in [Keys -> Values] /\ Temp' = [Temp EXCEPT ![r.line.key] = r.line.val]
    <3>1. /\ Parse(data[names["temp"]]) \in [Keys -> Values]
          /\ Parse(data'[names["temp"]]) =
               [Parse(data[names["temp"]]) EXCEPT ![r.line.key] = r.line.val]
      BY <1>2, <2>1, WriteContent
    <3>2. Temp' = Parse(data'[names["temp"]])
      BY <1>2 DEF Temp, Parse
    <3> QED BY <3>1, <3>2 DEF Temp
  <2>3. /\ Running'.todo = Running.todo /\ Running'.pc = "mnext"
        /\ Running'.seen = r.seen /\ Running'.from = r.from
    BY <1>1, <2>1 DEF Flush
  <2>4. ASSUME NEW k \in Keys, Arrives(Running, k, values[k])
        PROVE  Arrives(Running, k, values[k])'
    BY <1>1, <1>2, <1>4, <2>2, <2>3, <2>4 DEF Arrives
  <2> QED BY <1>1, <1>2, <2>3, <2>4, AgreeKept
<1> QED BY <1>3, <1>4, ShapeLineWritten

LEMMA AgreeMergeOpen ==
  ASSUME Slots, Shape, Agree, Remember, NEW f \in Flushes, MergeOpen(f)
  PROVE  Agree'
<1> DEFINE r == flush[f]
<1>1. /\ Running = r /\ r \in Flush /\ file # None /\ r.pc = "mopen"
      /\ OpenShape(r, file, fd, names)
  BY UnderWay, ConstantsAssumption DEF MergeOpen
<1>2. /\ UNCHANGED <<values, queue, file>> /\ names'.temp # None
      /\ data' = [data EXCEPT ![names'.temp] = <<>>]
      /\ Running' = [r EXCEPT !.pc = "mnext", !.handle = NewHandle]
      /\ Shape'
  BY ShapeMergeOpen
<1>3. names'.temp \in Inodes /\ data \in [Inodes -> Seq(Line)]
  BY <1>2 DEF Shape, TypeOK
<1>4. data'[names'.temp] = <<>>
  BY <1>2, <1>3
<1>5. Temp' = Empty
  BY <1>4, ParseEmpty DEF Temp, Parse
<1>6. /\ Running'.todo = Running.todo /\ Running'.pc = "mnext"
      /\ Running'.seen = {} /\ Running'.from = None
  BY <1>1, <1>2 DEF Flush, OpenShape
<1>7. \A k \in Keys : Arrives(Running, k, values[k])'
  BY <1>5, <1>6 DEF Arrives, Empty
<1> QED BY <1>1, <1>2, <1>6, <1>7, AgreeKept

LEMMA AgreeMergeLine ==
  ASSUME Shape, Agree, Remember, NEW f \in Flushes, MergeLine(f)
  PROVE  Agree'
<1> DEFINE r == flush[f]
<1>1. /\ Running = r /\ r \in Flush /\ file # None /\ r.pc = "mnext"
  BY UnderWay, ConstantsAssumption DEF MergeLine
<1>2. UNCHANGED <<values, queue, file, names, data>>
  BY ShapeMergeLine DEF disk
<1>3. Temp' = Temp
  BY <1>2 DEF Temp, Parse
<1>4. CASE Left(r) = {} /\ Running' = [r EXCEPT !.pc = "mclose"]
  <2>1. Running'.todo = Running.todo /\ Running'.pc = "mclose"
    BY <1>1, <1>4 DEF Flush
  <2>2. ASSUME NEW k \in Keys, Arrives(Running, k, values[k])
        PROVE  Arrives(Running, k, values[k])'
    <3>1. r.from = None /\ Temp[k] = IF k \in r.seen THEN values[k] ELSE Absent
      BY <1>1, <2>2 DEF Arrives
    <3>2. k \notin r.seen => values[k] = Absent
      BY <1>4, <3>1 DEF Left, MapOf
    <3> QED BY <1>2, <1>3, <2>1, <3>1, <3>2 DEF Arrives
  <2> QED BY <1>1, <1>2, <2>1, <2>2, AgreeKept
<1>5. ASSUME NEW j \in Left(r),
             Running' = [r EXCEPT !.pc = "mwrite", !.seen = @ \cup {j}, !.count = @ + 1,
                                  !.line = [key |-> j, val |-> MapOf(r)[j]]]
      PROVE  Agree'
  <2>1. /\ Running'.todo = Running.todo /\ Running'.pc = "mwrite"
        /\ Running'.seen = r.seen \cup {j} /\ Running'.from = r.from
        /\ Running'.line.key = j /\ Running'.line.val = MapOf(r)[j]
    BY <1>1, <1>5 DEF Flush
  <2>2. ASSUME NEW k \in Keys, Arrives(Running, k, values[k])
        PROVE  Arrives(Running, k, values[k])'
    <3>1. r.from = None /\ Temp[k] = IF k \in r.seen THEN values[k] ELSE Absent
      BY <1>1, <2>2 DEF Arrives
    <3>2. MapOf(r)[j] = values[j]
      BY <3>1 DEF MapOf
    <3> QED BY <1>2, <1>3, <2>1, <3>1, <3>2 DEF Arrives
  <2> QED BY <1>1, <1>2, <2>1, <2>2, AgreeKept
<1> QED BY <1>4, <1>5, ShapeMergeLine

(* The steps of a merge that only move it on. *)
LEMMA AgreeMergeClosed ==
  ASSUME Shape, Agree, Remember, NEW f \in Flushes, MergeClosed(f) \/ FileClosed(f)
  PROVE  Agree'
<1>1. /\ Running = flush[f] /\ Running \in Flush /\ file # None
      /\ Running.pc \in {"mclose", "close"}
  BY UnderWay, ConstantsAssumption DEF MergeClosed, FileClosed
<1>2. /\ UNCHANGED <<values, queue, file, names, data>>
      /\ \/ Running' = [Running EXCEPT !.pc = "close", !.handle = file]
         \/ Running' = [Running EXCEPT !.pc = "unlink", !.handle = None]
  BY <1>1, ShapeMergeClosed, ShapeFileClosed
<1>3. Running'.todo = Running.todo /\ Running'.pc \in {"close", "unlink"}
  BY <1>1, <1>2 DEF Flush
<1>4. Temp' = Temp
  BY <1>2 DEF Temp, Parse
<1>5. \A k \in Keys : Arrives(Running, k, values[k]) => Arrives(Running, k, values[k])'
  BY <1>1, <1>2, <1>3, <1>4 DEF Arrives
<1> QED BY <1>1, <1>2, <1>3, <1>5, AgreeKept

LEMMA AgreeUnlinked ==
  ASSUME Shape, Agree, Remember, NEW f \in Flushes, Unlinked(f)
  PROVE  Agree'
<1>1. /\ Running = flush[f] /\ Running \in Flush /\ file # None
      /\ Running.pc = "unlink"
  BY UnderWay, ConstantsAssumption DEF Unlinked
<1>2. /\ UNCHANGED <<values, queue, file, data>> /\ names'.temp = names.temp
      /\ Running' = [Running EXCEPT !.pc = "rename"]
  BY <1>1, ShapeUnlinked
<1>3. Running'.todo = Running.todo /\ Running'.pc = "rename"
  BY <1>1, <1>2 DEF Flush
<1>4. Temp' = Temp
  BY <1>2 DEF Temp, Parse
<1>5. \A k \in Keys : Arrives(Running, k, values[k]) => Arrives(Running, k, values[k])'
  BY <1>1, <1>2, <1>3, <1>4 DEF Arrives
<1> QED BY <1>1, <1>2, <1>3, <1>5, AgreeKept

LEMMA AgreeRenamed ==
  ASSUME Shape, Agree, Remember, NEW f \in Flushes, Renamed(f)
  PROVE  Agree'
<1>1. /\ Running = flush[f] /\ Running \in Flush /\ file # None
      /\ Running.pc = "rename"
  BY UnderWay, ConstantsAssumption DEF Renamed
<1>2. /\ UNCHANGED <<values, queue, file, data>> /\ names'.main = names.temp
      /\ Running' = [Running EXCEPT !.pc = "reopen"]
  BY <1>1, ShapeRenamed
<1>3. Running'.todo = Running.todo /\ Running'.pc = "reopen"
  BY <1>1, <1>2 DEF Flush
<1>4. Main' = Temp
  BY <1>2 DEF Main, Temp, Parse
<1>5. \A k \in Keys : Arrives(Running, k, values[k]) => Arrives(Running, k, values[k])'
  BY <1>1, <1>2, <1>3, <1>4 DEF Arrives
<1> QED BY <1>1, <1>2, <1>3, <1>5, AgreeKept

LEMMA AgreeReopened ==
  ASSUME Slots, Shape, Agree, Remember, NEW f \in Flushes, Reopened(f)
  PROVE  Agree'
<1>1. /\ Running = flush[f] /\ Running \in Flush /\ file # None
      /\ Running.pc = "reopen"
  BY UnderWay, ConstantsAssumption DEF Reopened
<1>2. /\ UNCHANGED <<values, queue, names, data>>
      /\ Running' = [Running EXCEPT !.pc = "next", !.seen = {}, !.count = 0, !.from = None]
  BY <1>1, ShapeReopened
<1>3. Running'.todo = Running.todo /\ Running'.pc = "next"
  BY <1>1, <1>2 DEF Flush
<1>4. Main' = Main
  BY <1>2 DEF Main, Parse
<1>5. \A k \in Keys : Arrives(Running, k, values[k]) => Arrives(Running, k, values[k])'
  BY <1>1, <1>2, <1>3, <1>4 DEF Arrives
<1> QED BY <1>1, <1>2, <1>3, <1>5, AgreeKept

LEMMA AgreeOpen ==
  ASSUME Slots, Shape, Remember, Open
  PROVE  Agree'
<1>1. /\ Running' = Idle /\ queue' = <<>> /\ values' = Parse(data'[names'.main])
  BY ShapeOpen
<1>2. Main' = values'
  BY <1>1 DEF Main, Parse
<1> SUFFICES ASSUME NEW k \in Keys PROVE AgreeKey(k)'
  BY DEF Agree
<1>3. Settles(<<>>, k, values'[k])
  BY NoLines
<1>4. /\ Settles(queue, k, values[k])' /\ Settles(Running.todo, k, values[k])'
  BY <1>1, <1>3 DEF Settles, Touches, Idle
<1>5. Arrives(Running, k, values[k])'
  BY <1>1, <1>2 DEF Arrives, Idle
<1> QED BY <1>4, <1>5 DEF AgreeKey

(* A change of values and the line it puts in the queue. *)
LEMMA AgreeChange ==
  ASSUME Shape, Agree, file # None, NEW line \in Line \cup {Merge},
         queue' = Append(queue, line), UNCHANGED disk,
         Running'.todo = Running.todo, Running'.pc = Running.pc,
         Running'.line = Running.line,
         NEW k \in Keys,
         line # Merge /\ line.key = k => line.val = values'[k],
         line # Merge /\ line.key # k =>
           /\ values'[k] = values[k] /\ Running'.from = Running.from
           /\ k \in Running'.seen <=> k \in Running.seen
  PROVE  AgreeKey(k)'
<1>1. queue \in Seq(Line \cup {Merge})
  BY DEF Shape, TypeOK
<1>2. AgreeKey(k)
  BY DEF Agree
<1>3. CASE line = Merge
  <2>1. Settles(queue', k, values'[k]) /\ ~Untouched(queue', k)
    BY <1>1, <1>3, AppendMerge
  <2>2. Settles(queue, k, values[k])' /\ ~Untouched(queue, k)'
    BY <2>1 DEF Settles, Untouched, Touches
  <2> QED BY <2>2 DEF AgreeKey
<1>4. CASE line \in Line /\ line.key = k
  <2>1. Settles(queue', k, values'[k]) /\ ~Untouched(queue', k)
    BY <1>1, <1>4, AppendOwn, LineIsNoMerge
  <2>2. Settles(queue, k, values[k])' /\ ~Untouched(queue, k)'
    BY <2>1 DEF Settles, Untouched, Touches
  <2> QED BY <2>2 DEF AgreeKey
<1>5. CASE line \in Line /\ line.key # k
  <2>1. /\ values'[k] = values[k] /\ Running'.from = Running.from
        /\ k \in Running'.seen <=> k \in Running.seen
    BY <1>5, LineIsNoMerge
  <2>2. /\ Settles(queue, k, values[k]) => Settles(queue', k, values'[k])
        /\ Untouched(queue', k) => Untouched(queue, k)
    BY <1>1, <1>5, <2>1, AppendOther
  <2>3. /\ Settles(queue, k, values[k]) => Settles(queue, k, values[k])'
        /\ Untouched(queue, k)' => Untouched(queue, k)
        /\ Settles(Running.todo, k, values[k])' <=> Settles(Running.todo, k, values[k])
        /\ Untouched(Running.todo, k)' <=> Untouched(Running.todo, k)
    BY <2>1, <2>2 DEF Settles, Untouched, Touches
  <2>4. Main' = Main /\ Temp' = Temp
    BY DEF Main, Temp, Parse, disk
  <2>5. Arrives(Running, k, values[k]) => Arrives(Running, k, values[k])'
    BY <2>1, <2>4 DEF Arrives
  <2> QED BY <1>2, <2>3, <2>5 DEF AgreeKey
<1> QED BY <1>3, <1>4, <1>5

LEMMA AgreeSetItem ==
  ASSUME Shape, Agree, Remember, NEW j \in Keys, NEW v \in Vals, SetItem(j, v)
  PROVE  Agree'
<1> DEFINE line == [key |-> j, val |-> v]
<1>1. /\ file # None /\ queue' = Append(queue, line) /\ UNCHANGED disk
      /\ values' = [values EXCEPT ![j] = v] /\ values \in [Keys -> Values]
  BY DEF SetItem, Enqueue, Shape, TypeOK, Values
<1>2. Running' = Running
  BY ShapeSetItem
<1>3. line \in Line /\ line.key = j /\ line.val = v
  BY DEF Line
<1> HIDE DEF line
<1> SUFFICES ASSUME NEW k \in Keys PROVE AgreeKey(k)'
  BY DEF Agree
<1>4. /\ line.key = k => line.val = values'[k]
      /\ line.key # k => values'[k] = values[k]
  BY <1>1, <1>3
<1> QED BY <1>1, <1>2, <1>3, <1>4, AgreeChange

LEMMA AgreeRemoveItem ==
  ASSUME Shape, Agree, Remember, NEW j \in Keys, RemoveItem(j)
  PROVE  Agree'
<1> DEFINE line == [key |-> j, val |-> Absent]
<1>1. /\ file # None /\ queue' = Append(queue, line) /\ UNCHANGED disk
      /\ values' = [values EXCEPT ![j] = Absent] /\ values \in [Keys -> Values]
  BY DEF RemoveItem, Enqueue, Shape, TypeOK, Values
<1>2. \/ Running' = Running
      \/ Running' = [Running EXCEPT !.seen = Running.seen \ {j}]
  BY ShapeRemoveItem
<1>3. line \in Line /\ line.key = j /\ line.val = Absent
  BY DEF Line
<1> HIDE DEF line
<1> SUFFICES ASSUME NEW k \in Keys PROVE AgreeKey(k)'
  BY DEF Agree
<1>4. /\ line.key = k => line.val = values'[k]
      /\ line.key # k => values'[k] = values[k]
  BY <1>1, <1>3
<1>5. /\ Running'.todo = Running.todo /\ Running'.pc = Running.pc
      /\ Running'.line = Running.line /\ Running'.from = Running.from
      /\ line.key # k => (k \in Running'.seen <=> k \in Running.seen)
  BY <1>2, <1>3, RunningTyped DEF Flush
<1> QED BY <1>1, <1>3, <1>4, <1>5, AgreeChange

LEMMA AgreeClear ==
  ASSUME Shape, Agree, Remember, Clear
  PROVE  Agree'
<1>1. /\ file # None /\ queue' = Append(queue, Merge) /\ UNCHANGED disk
  BY DEF Clear, Enqueue
<1>2. Running' = Running \/ Running' = [Running EXCEPT !.from = values]
  BY ShapeClear
<1> SUFFICES ASSUME NEW k \in Keys PROVE AgreeKey(k)'
  BY DEF Agree
<1>3. /\ Running'.todo = Running.todo /\ Running'.pc = Running.pc
      /\ Running'.line = Running.line
  BY <1>2, RunningTyped DEF Flush
<1> QED BY <1>1, <1>3, AgreeChange

LEMMA AgreeTimerFires ==
  ASSUME Shape, Agree, Remember, TimerFires
  PROVE  Agree'
<1>1. UNCHANGED <<values, file, names, data>> /\ file # None
  BY ShapeTimerFires DEF disk
<1>2. Main' = Main /\ Temp' = Temp
  BY <1>1 DEF Main, Temp, Parse
<1>3. CASE Running' = Running /\ UNCHANGED queue
  <2>1. \A k \in Keys : Arrives(Running, k, values[k]) => Arrives(Running, k, values[k])'
    BY <1>1, <1>2, <1>3 DEF Arrives
  <2> QED BY <1>1, <1>3, <2>1, AgreeKept
<1>4. CASE /\ Running = Idle /\ queue' = <<>>
           /\ Running' = [Idle EXCEPT !.pc = "next", !.todo = queue]
  <2> SUFFICES ASSUME NEW k \in Keys PROVE AgreeKey(k)'
    BY DEF Agree
  <2>1. AgreeKey(k)
    BY <1>1 DEF Agree
  <2>2. Settles(<<>>, k, values[k]) /\ Untouched(<<>>, k)
    BY NoLines
  <2>3. Running.todo = <<>> /\ Running'.todo = queue /\ Running'.pc = "next"
    BY <1>4 DEF Idle
  <2>4. /\ Settles(queue, k, values[k])'
        /\ Settles(queue, k, values[k]) => Settles(Running.todo, k, values[k])'
        /\ Untouched(Running.todo, k)' => Untouched(queue, k)
    BY <1>1, <1>4, <2>2, <2>3 DEF Settles, Untouched, Touches
  <2>5. Untouched(Running.todo, k)
    BY <2>2, <2>3
  <2>6. Arrives(Running, k, values[k]) => Arrives(Running, k, values[k])'
    BY <1>1, <1>2, <1>4, <2>3 DEF Arrives, Idle
  <2> QED BY <2>1, <2>4, <2>5, <2>6 DEF AgreeKey
<1> QED BY <1>3, <1>4, ShapeTimerFires

LEMMA AgreeSame == Shape /\ Agree /\ UNCHANGED vars => Agree'
<1> SUFFICES ASSUME Shape, Agree, UNCHANGED vars, file # None PROVE Agree'
  BY DEF Agree, vars, object
<1>1. UNCHANGED <<values, queue, file, names, data>> /\ Running' = Running
  BY ShapeSame DEF vars, object, disk
<1>2. Main' = Main /\ Temp' = Temp
  BY <1>1 DEF Main, Temp, Parse
<1>3. \A k \in Keys : Arrives(Running, k, values[k]) => Arrives(Running, k, values[k])'
  BY <1>1, <1>2 DEF Arrives
<1> QED BY <1>1, <1>3, AgreeKept

LEMMA AgreeNext ==
  Undisturbed /\ Slots /\ Shape /\ Agree /\ [Next]_vars => Agree'
<1> SUFFICES ASSUME Undisturbed, Slots, Shape, Agree, [Next]_vars PROVE Agree'
  OBVIOUS
<1>1. CASE Remember /\ (Changes \/ TimerFires)
  BY <1>1, AgreeOpen, AgreeClear, AgreeRemoveItem, AgreeSetItem, AgreeTimerFires
     DEF Changes
<1>2. CASE Remember /\ Crash
  BY <1>2, ShapeCrash DEF Agree
<1>3. CASE Remember /\ \E f \in Flushes : FlushSteps(f)
  BY <1>3, AgreeNextLine, AgreeLastLine, AgreeMergeLine, AgreeLineWritten,
     AgreeMergeOpen, AgreeMergeClosed, AgreeUnlinked, AgreeRenamed, AgreeReopened
     DEF FlushSteps
<1> QED BY <1>1, <1>2, <1>3, AgreeSame, UndisturbedSteps

-----------------------------------------------------------------------------
(* The store writes behind *)

BehindStep == [Behind!Next]_(Behind!vars)

LEMMA Persists ==
  ASSUME Memory' = Memory, held' = held, Durable' \in [Keys -> Values],
         \A k \in Keys : Durable'[k] \in held[k]
  PROVE  BehindStep
BY DEF BehindStep, Behind!Next, Behind!Persist, Behind!vars, Values

LEMMA Settles2 ==
  ASSUME Memory' = Memory, Durable' = Durable, Durable = Memory,
         held' = [k \in Keys |-> {Memory[k]}]
  PROVE  BehindStep
BY DEF BehindStep, Behind!Next, Behind!Settle, Behind!vars

(* held after a step that leaves something to do. *)
LEMMA HeldGrows ==
  ASSUME Remember, queue' # <<>> \/ \E f \in Flushes : flush'[f] # Idle
  PROVE  held' = [k \in Keys |-> held[k] \cup {Memory'[k]}]
<1>1. ~Quiet'
  BY DEF Quiet, Idle
<1> QED BY <1>1 DEF Remember

LEMMA DurableIs ==
  Shape /\ file # None =>
    /\ Memory = values
    /\ names.main # None => Durable = Main
    /\ names.main = None => Running.pc = "rename" /\ names.temp # None /\ Durable = Temp
BY DEF Shape, OpenShape, Loop, Memory, Durable, Recovered, Main, Temp

LEMMA DurableIsNext ==
  Shape' /\ file' # None =>
    /\ Memory' = values'
    /\ names'.main # None => Durable' = Main'
    /\ names'.main = None => Running'.pc = "rename" /\ Durable' = Temp'
BY DEF Shape, OpenShape, Loop, Memory, Durable, Recovered, Main, Temp, Parse

LEMMA DurableTypedNext == Shape' => Durable' \in [Keys -> Values]
<1> SUFFICES ASSUME Shape' PROVE Durable' \in [Keys -> Values]
  OBVIOUS
<1>1. /\ values' \in [Keys -> Values]
      /\ names' \in [{"main", "temp"} -> Inodes \cup {None}]
      /\ data' \in [Inodes -> Seq(Line)]
  BY DEF Shape, TypeOK, Values, Line
<1> QED BY <1>1, MemoryTypedNext

(* A flush that goes on remembers what was remembered. *)
LEMMA FlushGoesOn ==
  ASSUME Shape, Held, Remember, Shape', file # None, file' # None,
         UNCHANGED values, Running'.pc # "idle"
  PROVE  held' = held /\ Memory' = Memory
<1>1. Memory = values /\ Memory' = values
  BY DurableIs, DurableIsNext
<1>2. \E f \in Flushes : flush'[f] # Idle
  <2>1. flushPromise' \in Flushes \cup {None} /\ flushPromise' # None
    BY DEF Shape, TypeOK, Running, Idle
  <2>2. flush'[flushPromise'] # Idle
    BY <2>1 DEF Running, Idle
  <2> QED BY <2>1, <2>2
<1>3. held' = [k \in Keys |-> held[k] \cup {values[k]}]
  BY <1>1, <1>2, HeldGrows
<1>4. /\ \A k \in Keys : values[k] \in held[k]
      /\ held \in [Keys -> SUBSET (Vals \cup {Absent})]
  BY <1>1 DEF Held, Shape, TypeOK
<1>5. held' = held
  <2>1. \A k \in Keys : held[k] \cup {values[k]} = held[k]
    BY <1>4
  <2> QED BY <1>3, <1>4, <2>1
<1> QED BY <1>1, <1>5

LEMMA HeldKept ==
  ASSUME Held, held' = held, Memory' = Memory, UNCHANGED queue,
         \A k \in Keys : Durable'[k] \in held[k],
         HeldLines(Running'.todo),
         Running'.pc \in {"write", "mwrite"} =>
           Running'.line.val \in held[Running'.line.key],
         \A k \in Keys : HeldKey(Running, k)'
  PROVE  Held'
<1>1. /\ HeldLines(queue)' /\ HeldLines(Running.todo)'
  BY DEF Held, HeldLines
<1>2. \A k \in Keys : Memory'[k] \in held'[k] /\ Durable'[k] \in held'[k]
  BY DEF Held
<1> QED BY <1>1, <1>2 DEF Held

LEMMA HeldTail ==
  ASSUME NEW lines \in Seq(Line \cup {Merge}), lines # <<>>, HeldLines(lines)
  PROVE  /\ HeldLines(Tail(lines))
         /\ Head(lines) # Merge => Head(lines).val \in held[Head(lines).key]
<1>1. /\ Head(lines) = lines[1] /\ 1 \in DOMAIN lines
      /\ \A n \in DOMAIN Tail(lines) :
           n + 1 \in DOMAIN lines /\ Tail(lines)[n] = lines[n + 1]
  OBVIOUS
<1> QED BY <1>1 DEF HeldLines

LEMMA BehindNextLine ==
  ASSUME Shape, Held, Remember, NEW f \in Flushes, NextLine(f)
  PROVE  Held' /\ BehindStep
<1> DEFINE r == flush[f]
           line == Head(r.todo)
           rest == Tail(r.todo)
<1>1. /\ Running = r /\ r \in Flush /\ file # None /\ r.pc = "next"
      /\ OpenShape(r, file, fd, names)
  BY UnderWay, ConstantsAssumption DEF NextLine
<1>2. r.todo \in Seq(Line \cup {Merge}) /\ r.todo # <<>>
  BY <1>1 DEF Flush, NextLine
<1>3. UNCHANGED <<values, queue, file, names, data>>
  BY DEF NextLine, object, disk
<1>4. /\ Shape'
      /\ line = Merge => Running' = [r EXCEPT !.todo = rest, !.pc = "mopen"]
      /\ line # Merge => line \in Line /\ Running' = [r EXCEPT !.todo = rest,
                           !.pc = "write", !.line = line, !.handle = file]
  BY ShapeNextLine
<1>5. /\ Running'.todo = rest /\ Running'.from = None
      /\ Running'.pc = "mopen" \/
         (Running'.pc = "write" /\ line # Merge /\ Running'.line = line)
  BY <1>1, <1>4 DEF Flush, OpenShape
<1>6. HeldLines(rest) /\ (line # Merge => line.val \in held[line.key])
  BY <1>1, <1>2, HeldTail DEF Held
<1>7. held' = held /\ Memory' = Memory
  BY <1>1, <1>3, <1>4, <1>5, FlushGoesOn
<1>8. Durable' = Durable
  BY <1>3 DEF Durable, Recovered, Parse, Empty
<1>9. \A k \in Keys : Durable'[k] \in held[k]
  BY <1>8 DEF Held
<1>10. \A k \in Keys : HeldKey(Running, k)'
  BY <1>5 DEF HeldKey
<1>11. Held'
  BY <1>3, <1>5, <1>6, <1>7, <1>9, <1>10, HeldKept
<1> QED BY <1>4, <1>7, <1>9, <1>11, DurableTypedNext, Persists

LEMMA BehindLastLine ==
  ASSUME Shape, Held, Remember, NEW f \in Flushes, LastLine(f)
  PROVE  Held' /\ BehindStep
<1> DEFINE r == flush[f]
<1>1. /\ Running = r /\ r \in Flush /\ file # None /\ r.pc = "next" /\ r.todo = <<>>
      /\ OpenShape(r, file, fd, names)
  BY UnderWay, ConstantsAssumption DEF LastLine
<1>2. /\ UNCHANGED <<values, queue, file, names, data>> /\ Shape'
      /\ \/ Running' = [r EXCEPT !.pc = "mopen", !.last = TRUE]
         \/ Running' = Idle
  BY ShapeLastLine DEF disk
<1>3. Running'.todo = <<>> /\ Running'.pc \in {"mopen", "idle"} /\ Running'.from = None
  <2>1. CASE Running' = [r EXCEPT !.pc = "mopen", !.last = TRUE]
    BY <1>1, <2>1 DEF Flush, OpenShape
  <2>2. CASE Running' = Idle
    BY <1>1, <2>2 DEF Idle
  <2> QED BY <1>2, <2>1, <2>2
<1>4. Durable' = Durable /\ Memory' = Memory
  BY <1>2 DEF Memory, Durable, Recovered, Parse, Empty
<1>5. \A k \in Keys : HeldKey(Running, k)'
  BY <1>3 DEF HeldKey
<1>6. \A k \in Keys : Memory[k] \in held[k] /\ Durable[k] \in held[k]
  BY DEF Held
<1>7. CASE held' = [k \in Keys |-> held[k] \cup {Memory'[k]}]
  <2>1. held \in [Keys -> SUBSET (Vals \cup {Absent})]
    BY DEF Shape, TypeOK
  <2>2. \A k \in Keys : held[k] \cup {Memory'[k]} = held[k]
    BY <1>4, <1>6
  <2>3. held' = held
    BY <1>7, <2>1, <2>2
  <2>4. HeldLines(Running'.todo)
    BY <1>3 DEF HeldLines
  <2>5. Held'
    BY <1>2, <1>3, <1>4, <1>5, <1>6, <2>3, <2>4, HeldKept
  <2> QED BY <1>2, <1>4, <1>6, <2>3, <2>5, DurableTypedNext, Persists
<1>8. CASE (Quiet /\ Durable = Memory)' /\ held' = [k \in Keys |-> {Memory'[k]}]
  <2>1. queue' = <<>>
    BY <1>8 DEF Quiet
  <2>2. HeldLines(queue)' /\ HeldLines(Running.todo)'
    BY <1>3, <2>1 DEF HeldLines
  <2>3. Held'
    BY <1>3, <1>4, <1>5, <1>8, <2>2 DEF Held
  <2> QED BY <1>4, <1>8, <2>3, Settles2
<1> QED BY <1>7, <1>8 DEF Remember

LEMMA BehindLineWritten ==
  ASSUME Shape, Held, Remember, NEW f \in Flushes, LineWritten(f)
  PROVE  Held' /\ BehindStep
<1> DEFINE r == flush[f]
           line == r.line
<1>1. /\ Running = r /\ r \in Flush /\ file # None /\ r.pc \in {"write", "mwrite"}
      /\ OpenShape(r, file, fd, names)
  BY UnderWay, ConstantsAssumption DEF LineWritten
<1>2. /\ UNCHANGED <<values, queue, file, names>> /\ line \in Line /\ TypeOK
      /\ Shape' /\ line.key \in Keys
  BY ShapeLineWritten DEF LineWritten, object, Shape, Line
<1>3. /\ HeldLines(r.todo) /\ line.val \in held[line.key]
      /\ \A k \in Keys : Durable[k] \in held[k] /\ HeldKey(r, k)
  BY <1>1 DEF Held
<1>4. names.main # None /\ Durable = Main /\ names.main # names.temp
  BY <1>1, DurableIs DEF OpenShape
<1>5. Durable' = Main'
  <2>1. Shape' /\ file' # None /\ names'.main # None
    BY <1>1, <1>2, <1>4
  <2> QED BY <2>1, DurableIsNext
<1>6. CASE r.pc = "write"
  <2>1. /\ data' = [data EXCEPT ![names.main] = Append(@, line)]
        /\ Running' = [r EXCEPT !.pc = "next", !.line = None, !.handle = None]
    BY <1>6, ShapeLineWritten
  <2>2. Main \in [Keys -> Values] /\ Main' = [Main EXCEPT ![line.key] = line.val]
    <3>1. /\ Parse(data[names["main"]]) \in [Keys -> Values]
          /\ Parse(data'[names["main"]]) =
               [Parse(data[names["main"]]) EXCEPT ![line.key] = line.val]
      BY <1>2, <1>4, <2>1, WriteContent
    <3>2. Main' = Parse(data'[names["main"]])
      BY <1>2 DEF Main, Parse
    <3> QED BY <3>1, <3>2 DEF Main
  <2>3. Running'.todo = r.todo /\ Running'.pc = "next" /\ Running'.from = None
    BY <1>1, <1>6, <2>1 DEF Flush, OpenShape
  <2>4. held' = held /\ Memory' = Memory
    BY <1>1, <1>2, <2>3, FlushGoesOn
  <2>5. \A k \in Keys : Durable'[k] \in held[k]
    BY <1>2, <1>3, <1>4, <1>5, <2>2
  <2>6. \A k \in Keys : HeldKey(Running, k)'
    BY <2>3 DEF HeldKey
  <2>7. Held'
    BY <1>2, <1>3, <2>3, <2>4, <2>5, <2>6, HeldKept
  <2> QED BY <1>2, <2>4, <2>5, <2>7, DurableTypedNext, Persists
<1>7. CASE r.pc = "mwrite"
  <2>1. /\ names.temp # None
        /\ data' = [data EXCEPT ![names.temp] = Append(@, line)]
        /\ Running' = [r EXCEPT !.pc = "mnext", !.line = None]
    BY <1>7, ShapeLineWritten
  <2>2. /\ Temp \in [Keys -> Values] /\ Temp' = [Temp EXCEPT ![line.key] = line.val]
        /\ \A i \in Inodes : i # names.temp => data'[i] = data[i]
    <3>1. /\ Parse(data[names["temp"]]) \in [Keys -> Values]
          /\ Parse(data'[names["temp"]]) =
               [Parse(data[names["temp"]]) EXCEPT ![line.key] = line.val]
          /\ \A i \in Inodes : i # names["temp"] => data'[i] = data[i]
      BY <1>2, <2>1, WriteContent
    <3>2. Temp' = Parse(data'[names["temp"]])
      BY <1>2 DEF Temp, Parse
    <3> QED BY <3>1, <3>2 DEF Temp
  <2>3. Durable' = Durable
    <3>1. names.main \in Inodes
      BY <1>2, <1>4 DEF TypeOK
    <3>2. data'[names.main] = data[names.main]
      BY <1>4, <2>2, <3>1
    <3>3. Main' = Main
      BY <1>2, <3>2 DEF Main, Parse
    <3> QED BY <1>4, <1>5, <3>3
  <2>4. /\ Running'.todo = r.todo /\ Running'.pc = "mnext"
        /\ Running'.from = r.from /\ Running'.seen = r.seen
    BY <1>1, <2>1 DEF Flush
  <2>5. held' = held /\ Memory' = Memory
    BY <1>1, <1>2, <2>4, FlushGoesOn
  <2>6. \A k \in Keys : Durable'[k] \in held[k]
    BY <1>3, <2>3
  <2>7. ASSUME NEW k \in Keys PROVE HeldKey(Running, k)'
    <3>1. HeldKey(r, k)
      BY <1>3
    <3> QED BY <1>2, <1>3, <1>7, <2>2, <2>4, <2>5, <3>1 DEF HeldKey
  <2>8. Held'
    BY <1>2, <1>3, <2>4, <2>5, <2>6, <2>7, HeldKept
  <2> QED BY <1>2, <2>5, <2>6, <2>8, DurableTypedNext, Persists
<1> QED BY <1>1, <1>6, <1>7

LEMMA MainNext ==
  ASSUME data'[names'.main] = data[names.main] PROVE Main' = Main
BY DEF Main, Parse

LEMMA TempNext ==
  ASSUME NEW lines, data'[names'.temp] = lines
  PROVE  Temp' = Parse(lines)
BY DEF Temp, Parse

LEMMA BehindMergeOpen ==
  ASSUME Slots, Shape, Held, Remember, NEW f \in Flushes, MergeOpen(f)
  PROVE  Held' /\ BehindStep
<1> DEFINE r == flush[f]
<1>1. /\ Running = r /\ r \in Flush /\ file # None /\ r.pc = "mopen"
      /\ OpenShape(r, file, fd, names)
  BY UnderWay, ConstantsAssumption DEF MergeOpen
<1>2. /\ UNCHANGED <<values, queue, file>> /\ names'.temp # None
      /\ names.main # None /\ names'.main = names.main /\ names'.temp # names.main
      /\ data' = [data EXCEPT ![names'.temp] = <<>>]
      /\ Running' = [r EXCEPT !.pc = "mnext", !.handle = NewHandle]
      /\ Shape'
  BY ShapeMergeOpen
<1>3. /\ names'.temp \in Inodes /\ names.main \in Inodes
      /\ data \in [Inodes -> Seq(Line)]
  BY <1>2 DEF Shape, TypeOK
<1>4. data'[names'.temp] = <<>> /\ data'[names.main] = data[names.main]
  BY <1>2, <1>3
<1>5. Temp' = Empty
  BY <1>4, TempNext, ParseEmpty
<1>6. Durable' = Durable
  <2>1. Main' = Main
    BY <1>2, <1>4, MainNext
  <2>2. Shape
    OBVIOUS
  <2>3. Durable = Main
    BY <1>1, <1>2, <2>2, DurableIs
  <2>4. Durable' = Main'
    BY <1>1, <1>2, DurableIsNext
  <2> QED BY <2>1, <2>3, <2>4
<1>7. /\ Running'.todo = r.todo /\ Running'.pc = "mnext"
      /\ Running'.seen = {} /\ Running'.from = None
  BY <1>1, <1>2 DEF Flush, OpenShape
<1>8. held' = held /\ Memory' = Memory
  BY <1>1, <1>2, <1>7, FlushGoesOn
<1>9. /\ HeldLines(Running'.todo) /\ \A k \in Keys : Durable'[k] \in held[k]
  BY <1>1, <1>6, <1>7 DEF Held
<1>10. \A k \in Keys : HeldKey(Running, k)'
  BY <1>5, <1>7 DEF HeldKey, Empty
<1>11. Held'
  BY <1>2, <1>7, <1>8, <1>9, <1>10, HeldKept
<1> QED BY <1>2, <1>8, <1>9, <1>11, DurableTypedNext, Persists

LEMMA BehindMergeLine ==
  ASSUME Shape, Held, Remember, NEW f \in Flushes, MergeLine(f)
  PROVE  Held' /\ BehindStep
<1> DEFINE r == flush[f]
<1>1. /\ Running = r /\ r \in Flush /\ file # None /\ r.pc = "mnext"
  BY UnderWay, ConstantsAssumption DEF MergeLine
<1>2. UNCHANGED <<values, queue, file, names, data>> /\ Shape'
  BY ShapeMergeLine DEF disk
<1>3. Temp' = Temp /\ Durable' = Durable
  BY <1>2 DEF Temp, Durable, Recovered, Parse, Empty
<1>4. /\ \A k \in Keys : values[k] \in held[k] /\ Durable[k] \in held[k]
                         /\ HeldKey(r, k)
      /\ HeldLines(r.todo)
  BY <1>1, DurableIs DEF Held
<1>5. \A k \in Keys : MapOf(r)[k] \in held[k]
  BY <1>4 DEF MapOf, HeldKey
<1>6. CASE Left(r) = {} /\ Running' = [r EXCEPT !.pc = "mclose"]
  <2>1. Running'.todo = r.todo /\ Running'.pc = "mclose" /\ Running'.from = r.from
    BY <1>1, <1>6 DEF Flush
  <2>2. held' = held /\ Memory' = Memory
    BY <1>1, <1>2, <2>1, FlushGoesOn
  <2>3. ASSUME NEW k \in Keys PROVE HeldKey(Running, k)'
    <3>1. HeldKey(r, k)
      BY <1>4
    <3>2. k \notin r.seen => Absent \in held[k]
      BY <1>5, <1>6 DEF Left
    <3> QED BY <1>1, <1>3, <2>1, <2>2, <3>1, <3>2 DEF HeldKey
  <2>4. Held'
    BY <1>2, <1>3, <1>4, <2>1, <2>2, <2>3, HeldKept
  <2> QED BY <1>2, <1>3, <1>4, <2>2, <2>4, DurableTypedNext, Persists
<1>7. ASSUME NEW j \in Left(r),
             Running' = [r EXCEPT !.pc = "mwrite", !.seen = @ \cup {j}, !.count = @ + 1,
                                  !.line = [key |-> j, val |-> MapOf(r)[j]]]
      PROVE  Held' /\ BehindStep
  <2>1. /\ Running'.todo = r.todo /\ Running'.pc = "mwrite"
        /\ Running'.seen = r.seen \cup {j} /\ Running'.from = r.from
        /\ Running'.line.key = j /\ Running'.line.val = MapOf(r)[j]
    BY <1>1, <1>7 DEF Flush
  <2>2. held' = held /\ Memory' = Memory
    BY <1>1, <1>2, <2>1, FlushGoesOn
  <2>3. ASSUME NEW k \in Keys PROVE HeldKey(Running, k)'
    <3>1. HeldKey(r, k)
      BY <1>4
    <3> QED BY <1>1, <1>3, <2>1, <2>2, <3>1 DEF HeldKey
  <2>4. Running'.line.val \in held[Running'.line.key]
    BY <1>5, <2>1 DEF Left
  <2>5. Held'
    BY <1>2, <1>3, <1>4, <2>1, <2>2, <2>3, <2>4, HeldKept
  <2> QED BY <1>2, <1>3, <1>4, <2>2, <2>5, DurableTypedNext, Persists
<1> QED BY <1>6, <1>7, ShapeMergeLine

(* The steps of a merge that only move it on. *)
LEMMA BehindMergeClosed ==
  ASSUME Shape, Held, Remember, NEW f \in Flushes, MergeClosed(f) \/ FileClosed(f)
  PROVE  Held' /\ BehindStep
<1>1. /\ Running = flush[f] /\ Running \in Flush /\ file # None
      /\ Running.pc \in {"mclose", "close"}
  BY UnderWay, ConstantsAssumption DEF MergeClosed, FileClosed
<1>2. /\ UNCHANGED <<values, queue, file, names, data>> /\ Shape'
      /\ \/ Running' = [Running EXCEPT !.pc = "close", !.handle = file]
         \/ Running' = [Running EXCEPT !.pc = "unlink", !.handle = None]
  BY <1>1, ShapeMergeClosed, ShapeFileClosed
<1>3. /\ Running'.todo = Running.todo /\ Running'.pc \in {"close", "unlink"}
      /\ Running'.from = Running.from
  BY <1>1, <1>2 DEF Flush
<1>4. Temp' = Temp /\ Durable' = Durable
  BY <1>2 DEF Temp, Durable, Recovered, Parse, Empty
<1>5. held' = held /\ Memory' = Memory
  BY <1>1, <1>2, <1>3, FlushGoesOn
<1>6. \A k \in Keys : HeldKey(Running, k)'
  BY <1>1, <1>3, <1>4, <1>5 DEF HeldKey, Held
<1>7. HeldLines(Running'.todo) /\ \A k \in Keys : Durable'[k] \in held[k]
  BY <1>3, <1>4 DEF Held
<1>8. Held'
  BY <1>2, <1>3, <1>5, <1>6, <1>7, HeldKept
<1> QED BY <1>2, <1>5, <1>7, <1>8, DurableTypedNext, Persists

LEMMA BehindUnlinked ==
  ASSUME Shape, Held, Remember, NEW f \in Flushes, Unlinked(f)
  PROVE  Held' /\ BehindStep
<1>1. /\ Running = flush[f] /\ Running \in Flush /\ file # None
      /\ Running.pc = "unlink"
  BY UnderWay, ConstantsAssumption DEF Unlinked
<1>2. /\ UNCHANGED <<values, queue, file, data>> /\ Shape'
      /\ names'.main = None /\ names'.temp = names.temp
      /\ Running' = [Running EXCEPT !.pc = "rename"]
  BY <1>1, ShapeUnlinked
<1>3. /\ Running'.todo = Running.todo /\ Running'.pc = "rename"
      /\ Running'.from = Running.from
  BY <1>1, <1>2 DEF Flush
<1>4. Temp' = Temp
  BY <1>2 DEF Temp, Parse
<1>5. Durable' = Temp
  BY <1>1, <1>2, <1>4, DurableIsNext
<1>6. held' = held /\ Memory' = Memory
  BY <1>1, <1>2, <1>3, FlushGoesOn
<1>7. \A k \in Keys : HeldKey(Running, k)'
  BY <1>1, <1>3, <1>4, <1>6 DEF HeldKey, Held
<1>8. HeldLines(Running'.todo) /\ \A k \in Keys : Durable'[k] \in held[k]
  BY <1>1, <1>3, <1>5 DEF Held, HeldKey
<1>9. Held'
  BY <1>2, <1>3, <1>6, <1>7, <1>8, HeldKept
<1> QED BY <1>2, <1>6, <1>8, <1>9, DurableTypedNext, Persists

LEMMA BehindRenamed ==
  ASSUME Shape, Held, Remember, NEW f \in Flushes, Renamed(f)
  PROVE  Held' /\ BehindStep
<1>1. /\ Running = flush[f] /\ Running \in Flush /\ file # None
      /\ Running.pc = "rename"
  BY UnderWay, ConstantsAssumption DEF Renamed
<1>2. /\ UNCHANGED <<values, queue, file, data>> /\ Shape'
      /\ names.main = None /\ names.temp # None /\ names'.main = names.temp
      /\ Running' = [Running EXCEPT !.pc = "reopen"]
  BY <1>1, ShapeRenamed
<1>3. /\ Running'.todo = Running.todo /\ Running'.pc = "reopen"
      /\ Running'.from = Running.from
  BY <1>1, <1>2 DEF Flush
<1>4. Durable' = Durable
  <2>1. Main' = Temp
    BY <1>2 DEF Main, Temp, Parse
  <2> QED BY <1>1, <1>2, <2>1, DurableIs, DurableIsNext
<1>5. held' = held /\ Memory' = Memory
  BY <1>1, <1>2, <1>3, FlushGoesOn
<1>6. \A k \in Keys : HeldKey(Running, k)'
  BY <1>1, <1>3, <1>5 DEF HeldKey, Held
<1>7. HeldLines(Running'.todo) /\ \A k \in Keys : Durable'[k] \in held[k]
  BY <1>3, <1>4 DEF Held
<1>8. Held'
  BY <1>2, <1>3, <1>5, <1>6, <1>7, HeldKept
<1> QED BY <1>2, <1>5, <1>7, <1>8, DurableTypedNext, Persists

LEMMA BehindReopened ==
  ASSUME Slots, Shape, Held, Remember, NEW f \in Flushes, Reopened(f)
  PROVE  Held' /\ BehindStep
<1>1. /\ Running = flush[f] /\ Running \in Flush /\ file # None
      /\ Running.pc = "reopen"
  BY UnderWay, ConstantsAssumption DEF Reopened
<1>2. /\ UNCHANGED <<values, queue, names, data>> /\ Shape' /\ file' # None
      /\ Running' = [Running EXCEPT !.pc = "next", !.seen = {}, !.count = 0, !.from = None]
  BY <1>1, ShapeReopened
<1>3. Running'.todo = Running.todo /\ Running'.pc = "next" /\ Running'.from = None
  BY <1>1, <1>2 DEF Flush
<1>4. Durable' = Durable
  BY <1>2 DEF Durable, Recovered, Parse, Empty
<1>5. held' = held /\ Memory' = Memory
  BY <1>1, <1>2, <1>3, FlushGoesOn
<1>6. \A k \in Keys : HeldKey(Running, k)'
  BY <1>3 DEF HeldKey
<1>7. HeldLines(Running'.todo) /\ \A k \in Keys : Durable'[k] \in held[k]
  BY <1>3, <1>4 DEF Held
<1>8. Held'
  BY <1>2, <1>3, <1>5, <1>6, <1>7, HeldKept
<1> QED BY <1>2, <1>5, <1>7, <1>8, DurableTypedNext, Persists

(* A change of values and the line it puts in the queue. *)
LEMMA BehindChange ==
  ASSUME Shape, Held, Remember, Shape', file # None, UNCHANGED <<file, disk>>,
         NEW line \in Line \cup {Merge}, queue' = Append(queue, line),
         line # Merge => line.val = values'[line.key],
         Running'.todo = Running.todo, Running'.pc = Running.pc,
         Running'.line = Running.line, Running'.from \in {Running.from, values},
         Running'.seen \subseteq Running.seen
  PROVE  Held' /\ BehindStep
<1>1. queue \in Seq(Line \cup {Merge}) /\ values' \in [Keys -> Values]
  BY DEF Shape, TypeOK, Values, Line
<1>2. /\ Len(queue) \in Nat /\ DOMAIN queue = 1 .. Len(queue)
      /\ DOMAIN queue' = 1 .. Len(queue) + 1
      /\ queue'[Len(queue) + 1] = line
      /\ \A n \in DOMAIN queue : n \in DOMAIN queue' /\ queue'[n] = queue[n]
  BY <1>1, AppendFacts
<1>3. queue' # <<>>
  BY <1>2
<1>4. Memory = values /\ Memory' = values'
  BY DurableIs, DurableIsNext
<1>5. held' = [k \in Keys |-> held[k] \cup {values'[k]}]
  BY <1>3, <1>4, HeldGrows
<1>6. \A k \in Keys : held[k] \subseteq held'[k] /\ values'[k] \in held'[k]
  BY <1>5
<1>7. Durable' = Durable /\ Temp' = Temp
  BY DEF Durable, Recovered, Temp, Parse, Empty, disk
<1>8. ASSUME NEW lines \in Seq(Line \cup {Merge}), HeldLines(lines), NEW n \in DOMAIN lines,
             lines[n] # Merge
      PROVE  lines[n].val \in held'[lines[n].key]
  <2>1. lines[n] \in Line
    BY <1>8
  <2> QED BY <1>6, <1>8, <2>1 DEF HeldLines, Line
<1>9. HeldLines(queue)'
  <2> SUFFICES ASSUME NEW n \in DOMAIN queue', queue'[n] # Merge
               PROVE  queue'[n].val \in held'[queue'[n].key]
    BY DEF HeldLines
  <2>1. CASE n \in DOMAIN queue
    BY <1>1, <1>2, <1>8, <2>1 DEF Held
  <2>2. CASE n = Len(queue) + 1
    BY <1>2, <1>6, <2>2 DEF Line
  <2> QED BY <1>2, <2>1, <2>2
<1>10. HeldLines(Running.todo)'
  <2>1. Running.todo \in Seq(Line \cup {Merge})
    BY RunningTyped DEF Flush
  <2> QED BY <1>8, <2>1 DEF Held, HeldLines
<1>11. Running'.pc \in {"write", "mwrite"} => Running'.line.val \in held'[Running'.line.key]
  <2>1. Running.pc \in {"write", "mwrite"} => Running.line \in Line
    BY DEF Shape, OpenShape
  <2> QED BY <1>6, <2>1 DEF Held, Line
<1>12. ASSUME NEW k \in Keys PROVE HeldKey(Running, k)'
  <2>1. HeldKey(Running, k) /\ values[k] \in held[k]
    BY <1>4 DEF Held
  <2>2. held[k] \subseteq held'[k] /\ (k \in Running'.seen => k \in Running.seen)
    BY <1>6
  <2> QED BY <1>7, <2>1, <2>2 DEF HeldKey
<1>13. \A k \in Keys : Memory'[k] \in held'[k] /\ Durable'[k] \in held'[k]
  BY <1>4, <1>6, <1>7 DEF Held
<1>14. Held'
  BY <1>9, <1>10, <1>11, <1>12, <1>13 DEF Held
<1>15. BehindStep
  BY <1>1, <1>4, <1>5, <1>7
     DEF BehindStep, Behind!Next, Behind!Put, Behind!vars, Values
<1> QED BY <1>14, <1>15

LEMMA BehindSetItem ==
  ASSUME Shape, Held, Remember, NEW j \in Keys, NEW v \in Vals, SetItem(j, v)
  PROVE  Held' /\ BehindStep
<1> DEFINE line == [key |-> j, val |-> v]
<1>1. /\ file # None /\ queue' = Append(queue, line) /\ UNCHANGED <<file, disk>>
      /\ values' = [values EXCEPT ![j] = v] /\ values \in [Keys -> Values]
  BY DEF SetItem, Enqueue, Shape, TypeOK, Values
<1>2. Running' = Running /\ Shape'
  BY ShapeSetItem
<1>3. line \in Line /\ line.val = values'[line.key]
  BY <1>1 DEF Line
<1> HIDE DEF line
<1> QED BY <1>1, <1>2, <1>3, BehindChange

LEMMA BehindRemoveItem ==
  ASSUME Shape, Held, Remember, NEW j \in Keys, RemoveItem(j)
  PROVE  Held' /\ BehindStep
<1> DEFINE line == [key |-> j, val |-> Absent]
<1>1. /\ file # None /\ queue' = Append(queue, line) /\ UNCHANGED <<file, disk>>
      /\ values' = [values EXCEPT ![j] = Absent] /\ values \in [Keys -> Values]
  BY DEF RemoveItem, Enqueue, Shape, TypeOK, Values
<1>2. /\ Running' = Running \/ Running' = [Running EXCEPT !.seen = Running.seen \ {j}]
      /\ Shape'
  BY ShapeRemoveItem
<1>3. line \in Line /\ line.val = values'[line.key]
  BY <1>1 DEF Line
<1> HIDE DEF line
<1>4. /\ Running'.todo = Running.todo /\ Running'.pc = Running.pc
      /\ Running'.line = Running.line /\ Running'.from = Running.from
      /\ Running'.seen \subseteq Running.seen
  BY <1>2, RunningTyped DEF Flush
<1> QED BY <1>1, <1>2, <1>3, <1>4, BehindChange

LEMMA BehindClear ==
  ASSUME Shape, Held, Remember, Clear
  PROVE  Held' /\ BehindStep
<1>1. file # None /\ queue' = Append(queue, Merge) /\ UNCHANGED <<file, disk>>
  BY DEF Clear, Enqueue
<1>2. /\ Running' = Running \/ Running' = [Running EXCEPT !.from = values]
      /\ Shape'
  BY ShapeClear
<1>3. /\ Running'.todo = Running.todo /\ Running'.pc = Running.pc
      /\ Running'.line = Running.line /\ Running'.from \in {Running.from, values}
      /\ Running'.seen \subseteq Running.seen
  BY <1>2, RunningTyped DEF Flush
<1> QED BY <1>1, <1>2, <1>3, BehindChange

LEMMA BehindTimerFires ==
  ASSUME Shape, Held, Remember, TimerFires
  PROVE  Held' /\ BehindStep
<1>1. UNCHANGED <<values, file, names, data>> /\ file # None /\ Shape'
  BY ShapeTimerFires DEF disk
<1>2. Durable' = Durable /\ Temp' = Temp
  BY <1>1 DEF Durable, Recovered, Temp, Parse, Empty
<1>3. \/ Running' = Running /\ Running.pc # "idle" /\ UNCHANGED queue
      \/ /\ Running = Idle /\ queue' = <<>>
         /\ Running' = [Idle EXCEPT !.pc = "next", !.todo = queue]
  BY ShapeTimerFires
<1>4. Running'.pc # "idle"
  BY <1>3 DEF Idle
<1>5. held' = held /\ Memory' = Memory
  BY <1>1, <1>4, FlushGoesOn
<1>6. \A k \in Keys : Durable'[k] \in held[k]
  BY <1>2 DEF Held
<1>7. Held'
  <2>1. CASE Running' = Running /\ UNCHANGED queue
    <3>1. \A k \in Keys : HeldKey(Running, k)'
      BY <1>2, <1>5, <2>1 DEF Held, HeldKey
    <3>2. /\ HeldLines(Running'.todo)
          /\ Running'.pc \in {"write", "mwrite"} =>
               Running'.line.val \in held[Running'.line.key]
      BY <2>1 DEF Held
    <3> QED BY <1>5, <1>6, <2>1, <3>1, <3>2, HeldKept
  <2>2. CASE /\ queue' = <<>>
             /\ Running' = [Idle EXCEPT !.pc = "next", !.todo = queue]
    <3>1. Running'.todo = queue /\ Running'.pc = "next" /\ Running'.from = None
      BY <2>2 DEF Idle
    <3>2. HeldLines(queue)' /\ HeldLines(Running.todo)'
      BY <1>5, <2>2, <3>1 DEF Held, HeldLines
    <3>3. \A k \in Keys : HeldKey(Running, k)'
      BY <3>1 DEF HeldKey
    <3>4. \A k \in Keys : Memory'[k] \in held'[k] /\ Durable'[k] \in held'[k]
      BY <1>5, <1>6 DEF Held
    <3> QED BY <3>1, <3>2, <3>3, <3>4 DEF Held
  <2> QED BY <1>3, <2>1, <2>2
<1> QED BY <1>1, <1>5, <1>6, <1>7, DurableTypedNext, Persists

(* The store has nothing to do and the file agrees with the memory. *)
LEMMA HeldAtRest ==
  ASSUME Remember, queue' = <<>>, \A f \in Flushes : flush'[f] = Idle,
         Running' = Idle, Durable' = Memory'
  PROVE  Held' /\ held' = [k \in Keys |-> {Memory'[k]}]
<1>1. (Quiet /\ Durable = Memory)'
  BY DEF Quiet, Idle
<1>2. held' = [k \in Keys |-> {Memory'[k]}]
  BY <1>1 DEF Remember
<1>3. HeldLines(queue)' /\ HeldLines(Running.todo)'
  BY DEF HeldLines, Idle
<1>4. Running'.pc = "idle" /\ Running'.from = None
  BY DEF Idle
<1>5. \A k \in Keys : HeldKey(Running, k)'
  BY <1>4 DEF HeldKey
<1>6. Held'
  BY <1>2, <1>3, <1>4, <1>5 DEF Held
<1> QED BY <1>2, <1>6

LEMMA BehindOpen ==
  ASSUME Slots, Shape, Held, Remember, Open
  PROVE  Held' /\ BehindStep
<1>1. /\ Running' = Idle /\ queue' = <<>> /\ \A f \in Flushes : flush'[f] = Idle
      /\ file = None /\ file' # None /\ names'.main # None /\ Shape'
      /\ values' = Parse(data'[names'.main]) /\ values' = Durable
  BY ShapeOpen
<1>2. Memory' = values' /\ Durable' = values'
  <2>1. Main' = values'
    BY <1>1 DEF Main, Parse
  <2> QED BY <1>1, <2>1, DurableIsNext
<1>3. Memory = Durable
  BY <1>1 DEF Memory
<1>4. Held' /\ held' = [k \in Keys |-> {Memory'[k]}]
  BY <1>1, <1>2, HeldAtRest
<1>5. BehindStep
  BY <1>1, <1>2, <1>3, <1>4, Settles2
<1> QED BY <1>4, <1>5

LEMMA BehindCrash ==
  ASSUME Undisturbed, Shape, Held, Remember, Crash
  PROVE  Held' /\ BehindStep
<1>1. /\ Running' = Idle /\ file' = None /\ queue' = <<>> /\ UNCHANGED <<names, data>>
      /\ \A f \in Flushes : flush'[f] = Idle
  BY ShapeCrash
<1>2. Durable' = Durable
  BY <1>1 DEF Durable, Recovered, Parse, Empty
<1>3. Memory' = Durable'
  BY <1>1 DEF Memory
<1>4. Held' /\ held' = [k \in Keys |-> {Memory'[k]}]
  BY <1>1, <1>3, HeldAtRest
<1>5. BehindStep
  BY <1>2, <1>3, <1>4 DEF BehindStep, Behind!Next, Behind!Restart
<1> QED BY <1>4, <1>5

LEMMA BehindSame == Shape /\ Held /\ UNCHANGED vars => Held' /\ BehindStep
<1> SUFFICES ASSUME Shape, Held, UNCHANGED vars PROVE Held' /\ BehindStep
  OBVIOUS
<1>1. UNCHANGED <<values, queue, file, names, data, held>> /\ Running' = Running
  BY ShapeSame DEF vars, object, disk
<1>2. Durable' = Durable /\ Temp' = Temp /\ Memory' = Memory
  BY <1>1 DEF Memory, Durable, Recovered, Temp, Parse, Empty
<1>3. \A k \in Keys : HeldKey(Running, k)'
  BY <1>1, <1>2 DEF Held, HeldKey
<1>4. /\ HeldLines(Running'.todo) /\ \A k \in Keys : Durable'[k] \in held[k]
      /\ Running'.pc \in {"write", "mwrite"} =>
           Running'.line.val \in held[Running'.line.key]
  BY <1>1, <1>2 DEF Held
<1>5. Held'
  BY <1>1, <1>2, <1>3, <1>4, HeldKept
<1>6. BehindStep
  BY <1>1, <1>2 DEF BehindStep, Behind!vars
<1> QED BY <1>5, <1>6

LEMMA BehindNext ==
  Undisturbed /\ Slots /\ Shape /\ Held /\ [Next]_vars => Held' /\ BehindStep
<1> SUFFICES ASSUME Undisturbed, Slots, Shape, Held, [Next]_vars
             PROVE  Held' /\ BehindStep
  OBVIOUS
<1>1. CASE Remember /\ (Changes \/ TimerFires \/ Crash)
  BY <1>1, BehindOpen, BehindClear, BehindRemoveItem, BehindSetItem, BehindTimerFires,
     BehindCrash DEF Changes
<1>2. CASE Remember /\ \E f \in Flushes : FlushSteps(f)
  BY <1>2, BehindNextLine, BehindLastLine, BehindMergeLine, BehindLineWritten,
     BehindMergeOpen, BehindMergeClosed, BehindUnlinked, BehindRenamed, BehindReopened
     DEF FlushSteps
<1> QED BY <1>1, <1>2, BehindSame, UndisturbedSteps

-----------------------------------------------------------------------------
(* The theorems *)

LEMMA AgreeInit == Init => Agree
BY DEF Init, Agree

LEMMA BehindInit == Init => Held /\ Behind!Init
<1> SUFFICES ASSUME Init PROVE Held /\ Behind!Init
  OBVIOUS
<1>1. /\ queue = <<>> /\ flushPromise = None /\ file = None
      /\ names.main = None /\ names.temp = None
      /\ held = [k \in Keys |-> {Absent}]
  BY DEF Init
<1>2. Durable = Empty /\ Memory = Empty
  BY <1>1 DEF Durable, Recovered, Memory
<1>3. Behind!Init
  BY <1>1, <1>2 DEF Behind!Init, Empty
<1>4. Running = Idle /\ Running.pc = "idle" /\ Running.from = None
      /\ Running.todo = <<>>
  BY <1>1 DEF Running, Idle
<1>5. HeldLines(queue) /\ HeldLines(Running.todo)
  BY <1>1, <1>4 DEF HeldLines
<1>6. \A k \in Keys : HeldKey(Running, k)
  BY <1>4 DEF HeldKey
<1>7. \A k \in Keys : Memory[k] \in held[k] /\ Durable[k] \in held[k]
  BY <1>1, <1>2 DEF Empty
<1> QED BY <1>3, <1>4, <1>5, <1>6, <1>7 DEF Held

(* What remains to be written is nothing, so the file has it all. *)
LEMMA NothingLeft == Shape /\ Agree => IdleIsDurable
<1> SUFFICES ASSUME Shape, Agree, Quiet, file # None PROVE Recovered = values
  BY DEF IdleIsDurable
<1>1. queue = <<>> /\ \A f \in Flushes : flush[f] = Idle
  BY DEF Quiet
<1>2. Running = Idle /\ Running.pc = "idle" /\ Running.todo = <<>>
  BY <1>1 DEF Running, Shape, TypeOK, Idle
<1>3. names.main # None
  BY <1>2 DEF Shape, OpenShape
<1>4. Recovered = Main
  BY <1>3 DEF Recovered, Main
<1>5. ASSUME NEW k \in Keys PROVE Main[k] = values[k]
  <2>1. Untouched(queue, k) /\ Untouched(Running.todo, k)
    BY <1>1, <1>2, NoLines
  <2>2. Arrives(Running, k, values[k])
    BY <2>1 DEF Agree, AgreeKey
  <2> QED BY <1>2, <2>2 DEF Arrives
<1>6. Main \in [Keys -> Values] /\ values \in [Keys -> Values]
  BY <1>3, MemoryTyped DEF Shape, TypeOK, Values
<1> QED BY <1>4, <1>5, <1>6

(* The variables keep their types; and the handle that is open, the names  *)
(* in the directory and the place where onFlush() is suspended fit         *)
(* together: no file is written through a closed handle, and the file has  *)
(* a name at every moment but that between the unlink and the rename.      *)
THEOREM StoreTyped ==
  ASSUME Undisturbed, Slots
  PROVE  Spec => [](TypeOK /\ Shape)
<1>1. Shape => TypeOK /\ Shape
  BY DEF Shape
<1>2. Shape /\ [Next]_vars => Shape'
  BY ShapeNext
<1> QED BY <1>1, <1>2, ShapeInit, PTL DEF Spec

(* When onFlush() has nothing to do, a new process would read from the     *)
(* file exactly the values of this one, whatever was set, removed or       *)
(* cleared while a flush or a merge was suspended.                         *)
THEOREM IdleFileIsCurrent ==
  ASSUME Undisturbed, Slots
  PROVE  Spec => []IdleIsDurable
<1>1. Init => Shape /\ Agree
  BY ShapeInit, AgreeInit
<1>2. Shape /\ Agree /\ [Next]_vars => (Shape /\ Agree)'
  BY ShapeNext, AgreeNext
<1> QED BY <1>1, <1>2, NothingLeft, PTL DEF Spec

(* storage.js implements a store that writes behind: every step of the     *)
(* application, of the timer, of onFlush() and of merge(), and every crash *)
(* outside a merge, is a step of WriteBehind or leaves it alone.           *)
THEOREM StorageWritesBehind ==
  ASSUME Undisturbed, Slots
  PROVE  Spec => WritesBehind
<1>1. Init => Shape /\ Held /\ Behind!Init
  BY ShapeInit, BehindInit
<1>2. Shape /\ Held /\ [Next]_vars => (Shape /\ Held)' /\ BehindStep
  BY ShapeNext, BehindNext
<1>3. Shape /\ Held /\ [Next]_vars => (Shape /\ Held)' /\ [Behind!Next]_(Behind!vars)
  BY <1>2 DEF BehindStep
<1> QED BY <1>1, <1>3, PTL DEF Spec, WritesBehind, Behind!Spec
-----------------------------------------------------------------------------
(* In every environment *)

Fields == {"pc", "todo", "line", "handle", "seen", "count", "from", "last"}

(* The calls of onFlush() have their fields, whatever is in them. *)
FieldsInv == DOMAIN flush = Flushes /\ \A f \in Flushes : DOMAIN flush[f] = Fields

AwaitInv == FieldsInv /\ AwaitedFlushRuns

NotFlushes == {None, "settled", "file"}

LEMMA NotFlushesApart == NotFlushes \cap Flushes = {}
BY ConstantsAssumption DEF NotFlushes

LEMMA IdleFields == DOMAIN Idle = Fields /\ Idle.pc = "idle"
BY DEF Idle, Fields

(* No call ends, and nobody awaits another one. *)
LEMMA NoneEnds ==
  ASSUME AwaitInv, flushPromise' \in {flushPromise} \cup NotFlushes,
         closing' \in {closing, flushPromise} \cup NotFlushes, FieldsInv',
         \A f \in Flushes : flush[f].pc # "idle" => flush'[f].pc # "idle"
  PROVE  AwaitInv'
BY NotFlushesApart DEF AwaitInv, AwaitedFlushRuns

LEMMA SameFlushes ==
  ASSUME AwaitInv, UNCHANGED flush, flushPromise' \in {flushPromise} \cup NotFlushes,
         closing' \in {closing, flushPromise} \cup NotFlushes
  PROVE  AwaitInv'
BY NoneEnds DEF AwaitInv, FieldsInv

(* One call goes on, in the fields that are given. *)
LEMMA OneGoesOn ==
  ASSUME AwaitInv, NEW f \in Flushes, NEW r, DOMAIN r = Fields, r.pc # "idle",
         flush' = [flush EXCEPT ![f] = r], UNCHANGED <<flushPromise, closing>>
  PROVE  AwaitInv'
<1>1. FieldsInv' /\ \A g \in Flushes : flush[g].pc # "idle" => flush'[g].pc # "idle"
  BY DEF AwaitInv, FieldsInv
<1> QED BY <1>1, NoneEnds

LEMMA FinishKeepsAwait ==
  ASSUME AwaitInv, NEW f \in Flushes, Finish(f)
  PROVE  AwaitInv'
<1>1. FieldsInv'
  BY IdleFields DEF AwaitInv, FieldsInv, Finish
<1>2. ASSUME NEW g \in Flushes, g \in {flushPromise', closing'} PROVE flush'[g].pc # "idle"
  <2>1. g = closing /\ g # f
    BY <1>2, NotFlushesApart DEF Finish, NotFlushes
  <2> QED BY <2>1 DEF Finish, AwaitInv, AwaitedFlushRuns, FieldsInv
<1> QED BY <1>1, <1>2 DEF AwaitInv, AwaitedFlushRuns

LEMMA StartKeepsAwait ==
  ASSUME AwaitInv, StartFlush, flushPromise' \in {flushPromise, NewFlush},
         closing' \in {closing, NewFlush}
  PROVE  AwaitInv'
<1>1. NewFlush \in Flushes /\ flush[NewFlush] = Idle
  BY DEF StartFlush, NewFlush
<1> DEFINE r == [Idle EXCEPT !.pc = "next", !.todo = queue]
<1>2. DOMAIN r = Fields /\ r.pc = "next"
  BY DEF Idle, Fields
<1>3. flush' = [flush EXCEPT ![NewFlush] = r]
  BY DEF StartFlush
<1> HIDE DEF r
<1>4. FieldsInv' /\ flush'[NewFlush].pc = "next"
  BY <1>1, <1>2, <1>3 DEF AwaitInv, FieldsInv
<1>5. \A g \in Flushes : g # NewFlush => flush'[g] = flush[g]
  BY <1>1, <1>3 DEF AwaitInv, FieldsInv
<1> QED BY <1>1, <1>4, <1>5 DEF AwaitInv, AwaitedFlushRuns

(* The Map of a merge changes under it. *)
LEMMA MapsKeepAwait ==
  ASSUME AwaitInv, flush' = KeepMap \/ \E k \in Keys : Forget(k),
         flushPromise' = flushPromise, closing' \in {closing} \cup NotFlushes
  PROVE  AwaitInv'
<1>1. \A f \in Flushes : DOMAIN flush'[f] = DOMAIN flush[f] /\ flush'[f].pc = flush[f].pc
  BY DEF KeepMap, Forget, AwaitInv, FieldsInv, Fields
<1>2. FieldsInv'
  BY <1>1 DEF KeepMap, Forget, AwaitInv, FieldsInv
<1> QED BY <1>1, <1>2, NoneEnds

LEMMA ApplicationKeepsAwait ==
  ASSUME AwaitInv, Application
  PROVE  AwaitInv'
<1>1. CASE Open \/ (\E k \in Keys, v \in Vals : SetItem(k, v)) \/ CloseFile
  BY <1>1, SameFlushes DEF Open, SetItem, CloseFile, NotFlushes
<1>2. CASE (\E k \in Keys : RemoveItem(k)) \/ Clear \/ CloseEnd
  BY <1>2, MapsKeepAwait DEF RemoveItem, Clear, CloseEnd, NotFlushes
<1>3. CASE FlushValues
  BY <1>3, SameFlushes, StartKeepsAwait DEF FlushValues, NotFlushes
<1>4. CASE Close
  BY <1>4, SameFlushes, StartKeepsAwait DEF Close, NotFlushes
<1> QED BY <1>1, <1>2, <1>3, <1>4 DEF Application

LEMMA ResumedKeepsAwait ==
  ASSUME AwaitInv, NEW f \in Flushes, Resumed(f)
  PROVE  AwaitInv'
<1> DEFINE q == flush[f]
<1>0. DOMAIN q = Fields
  BY DEF AwaitInv, FieldsInv
<1>1. CASE NextLine(f)
  <2> DEFINE rest == [q EXCEPT !.todo = Tail(@)]
             line == Head(q.todo)
             r == IF line = Merge THEN [rest EXCEPT !.pc = "mopen"]
                  ELSE IF file = None THEN rest
                  ELSE [rest EXCEPT !.pc = "write", !.line = line, !.handle = file]
  <2>1. flush' = [flush EXCEPT ![f] = r] /\ q.pc = "next"
    BY <1>1 DEF NextLine
  <2>2. DOMAIN rest = Fields /\ rest.pc = "next"
    BY <1>0, <2>1 DEF Fields
  <2> HIDE DEF rest
  <2>3. DOMAIN r = Fields /\ r.pc # "idle"
    BY <2>2 DEF Fields
  <2> HIDE DEF r
  <2> QED BY <1>1, <2>1, <2>3, OneGoesOn DEF NextLine, object
<1>2. CASE LastLine(f)
  <2>1. CASE Finish(f)
    BY <2>1, FinishKeepsAwait
  <2>2. CASE ~Finish(f)
    <3> DEFINE r == [q EXCEPT !.pc = "mopen", !.last = TRUE]
    <3>1. flush' = [flush EXCEPT ![f] = r] /\ UNCHANGED <<flushPromise, closing>>
      BY <1>2, <2>2 DEF LastLine
    <3>2. DOMAIN r = Fields /\ r.pc = "mopen"
      BY <1>0 DEF Fields
    <3> HIDE DEF r
    <3> QED BY <3>1, <3>2, OneGoesOn
  <2> QED BY <2>1, <2>2
<1>3. CASE MergeLine(f)
  <2>1. \/ flush' = [flush EXCEPT ![f] = [q EXCEPT !.pc = "mclose"]]
        \/ \E k \in Keys : \E map : flush' = [flush EXCEPT ![f] =
             [q EXCEPT !.pc = "mwrite", !.seen = @ \cup {k}, !.count = @ + 1,
                       !.line = [key |-> k, val |-> map[k]]]]
    BY <1>3 DEF MergeLine
  <2>2. UNCHANGED <<flushPromise, closing>>
    BY <1>3 DEF MergeLine, object
  <2>3. CASE flush' = [flush EXCEPT ![f] = [q EXCEPT !.pc = "mclose"]]
    <3> DEFINE r == [q EXCEPT !.pc = "mclose"]
    <3>1. DOMAIN r = Fields /\ r.pc = "mclose"
      BY <1>0 DEF Fields
    <3>2. flush' = [flush EXCEPT ![f] = r]
      BY <2>3
    <3> HIDE DEF r
    <3> QED BY <2>2, <3>1, <3>2, OneGoesOn
  <2>4. ASSUME NEW k \in Keys, NEW map,
               flush' = [flush EXCEPT ![f] =
                 [q EXCEPT !.pc = "mwrite", !.seen = @ \cup {k}, !.count = @ + 1,
                           !.line = [key |-> k, val |-> map[k]]]]
        PROVE  AwaitInv'
    <3> DEFINE r == [q EXCEPT !.pc = "mwrite", !.seen = @ \cup {k}, !.count = @ + 1,
                              !.line = [key |-> k, val |-> map[k]]]
    <3>1. DOMAIN r = Fields /\ r.pc = "mwrite"
      BY <1>0 DEF Fields
    <3>2. flush' = [flush EXCEPT ![f] = r]
      BY <2>4
    <3> HIDE DEF r
    <3> QED BY <2>2, <3>1, <3>2, OneGoesOn
  <2> QED BY <2>1, <2>3, <2>4
<1> QED BY <1>1, <1>2, <1>3 DEF Resumed

LEMMA FileIOKeepsAwait ==
  ASSUME AwaitInv, NEW f \in Flushes, FileIO(f)
  PROVE  AwaitInv'
<1> DEFINE q == flush[f]
<1>0. DOMAIN q = Fields
  BY DEF AwaitInv, FieldsInv
<1>1. CASE FlushFails(f)
  BY <1>1, FinishKeepsAwait DEF FlushFails
<1>2. CASE ~FlushFails(f)
  <2>1. UNCHANGED <<flushPromise, closing>>
    BY <1>2 DEF FileIO, LineWritten, MergeOpen, MergeClosed, FileClosed, Unlinked, Renamed,
                Reopened, object
  <2>2. ASSUME NEW r, flush' = [flush EXCEPT ![f] = r], DOMAIN r = DOMAIN q, r.pc # "idle"
        PROVE  AwaitInv'
    BY <1>0, <2>1, <2>2, OneGoesOn
  <2>3. CASE LineWritten(f)
    <3> DEFINE r == IF q.pc = "write"
                    THEN [q EXCEPT !.pc = "next", !.line = None, !.handle = None]
                    ELSE [q EXCEPT !.pc = "mnext", !.line = None]
    <3>1. flush' = [flush EXCEPT ![f] = r]
      BY <2>3 DEF LineWritten, AwaitInv, FieldsInv
    <3>2. DOMAIN r = DOMAIN q /\ r.pc # "idle"
      BY <1>0 DEF Fields
    <3> HIDE DEF r
    <3> QED BY <2>2, <3>1, <3>2
  <2>4. CASE MergeOpen(f)
    <3> DEFINE r == [q EXCEPT !.pc = "mnext", !.handle = NewHandle]
    <3>1. flush' = [flush EXCEPT ![f] = r]
      BY <2>4 DEF MergeOpen, AwaitInv, FieldsInv
    <3>2. DOMAIN r = DOMAIN q /\ r.pc # "idle"
      BY <1>0 DEF Fields
    <3> HIDE DEF r
    <3> QED BY <2>2, <3>1, <3>2
  <2>5. CASE MergeClosed(f)
    <3> DEFINE r == [q EXCEPT !.pc = "close", !.handle = file]
    <3>1. flush' = [flush EXCEPT ![f] = r]
      BY <2>5 DEF MergeClosed, AwaitInv, FieldsInv
    <3>2. DOMAIN r = DOMAIN q /\ r.pc # "idle"
      BY <1>0 DEF Fields
    <3> HIDE DEF r
    <3> QED BY <2>2, <3>1, <3>2
  <2>6. CASE FileClosed(f)
    <3> DEFINE r == [q EXCEPT !.pc = "unlink", !.handle = None]
    <3>1. flush' = [flush EXCEPT ![f] = r]
      BY <2>6 DEF FileClosed, AwaitInv, FieldsInv
    <3>2. DOMAIN r = DOMAIN q /\ r.pc # "idle"
      BY <1>0 DEF Fields
    <3> HIDE DEF r
    <3> QED BY <2>2, <3>1, <3>2
  <2>7. CASE Unlinked(f)
    <3> DEFINE r == [q EXCEPT !.pc = "rename"]
    <3>1. flush' = [flush EXCEPT ![f] = r]
      BY <2>7 DEF Unlinked, AwaitInv, FieldsInv
    <3>2. DOMAIN r = DOMAIN q /\ r.pc # "idle"
      BY <1>0 DEF Fields
    <3> HIDE DEF r
    <3> QED BY <2>2, <3>1, <3>2
  <2>8. CASE Renamed(f)
    <3> DEFINE r == [q EXCEPT !.pc = "reopen"]
    <3>1. flush' = [flush EXCEPT ![f] = r]
      BY <2>8 DEF Renamed, AwaitInv, FieldsInv
    <3>2. DOMAIN r = DOMAIN q /\ r.pc # "idle"
      BY <1>0 DEF Fields
    <3> HIDE DEF r
    <3> QED BY <2>2, <3>1, <3>2
  <2>9. CASE Reopened(f)
    <3> DEFINE r == [q EXCEPT !.pc = "next", !.seen = {}, !.count = 0, !.from = None]
    <3>1. flush' = [flush EXCEPT ![f] = r]
      BY <2>9 DEF Reopened, AwaitInv, FieldsInv
    <3>2. DOMAIN r = DOMAIN q /\ r.pc # "idle"
      BY <1>0 DEF Fields
    <3> HIDE DEF r
    <3> QED BY <2>2, <3>1, <3>2
  <2> QED BY <1>2, <2>3, <2>4, <2>5, <2>6, <2>7, <2>8, <2>9 DEF FileIO
<1> QED BY <1>1, <1>2

(* Without any proviso: flushes that overlap, fail or outlast the timer,   *)
(* direct calls and crashes, for any constants of the module.              *)
THEOREM AwaitedFlushesRun == Spec => []AwaitedFlushRuns
<1>1. Init => AwaitInv
  BY IdleFields, NotFlushesApart DEF Init, AwaitInv, FieldsInv, AwaitedFlushRuns, NotFlushes
<1>2. AwaitInv /\ [Next]_vars => AwaitInv'
  <2> SUFFICES ASSUME AwaitInv, [Next]_vars PROVE AwaitInv'
    OBVIOUS
  <2>1. CASE TimerFires
    BY <2>1, SameFlushes, StartKeepsAwait DEF TimerFires, NotFlushes
  <2>2. CASE Crash
    BY <2>2, IdleFields, NotFlushesApart
       DEF Crash, AwaitInv, FieldsInv, AwaitedFlushRuns, NotFlushes
  <2>3. CASE UNCHANGED vars
    BY <2>3, SameFlushes DEF vars, object
  <2> QED BY <2>1, <2>2, <2>3, ApplicationKeepsAwait, ResumedKeepsAwait, FileIOKeepsAwait
          DEF Next, Step
<1>3. AwaitInv => AwaitedFlushRuns
  BY DEF AwaitInv
<1> QED BY <1>1, <1>2, <1>3, PTL DEF Spec
=============================================================================
