---------------------------- MODULE WriteBehind ----------------------------
(***************************************************************************)
(* What a store that writes behind promises.  The application reads and    *)
(* writes mem at once; disk follows later, key by key and in no particular *)
(* order, but every key is on disk with a value it has had since the disk  *)
(* last agreed with the memory.  held remembers those values.              *)
(***************************************************************************)
CONSTANTS Keys, Values

VARIABLES mem, disk, held

vars == <<mem, disk, held>>

Init ==
  /\ mem \in [Keys -> Values]
  /\ disk = mem
  /\ held = [k \in Keys |-> {mem[k]}]

(* setItem(), removeItem(), clear(): any keys change, in memory only. *)
Put ==
  /\ mem' \in [Keys -> Values]
  /\ held' = [k \in Keys |-> held[k] \cup {mem'[k]}]
  /\ UNCHANGED disk

(* Some of what was put reaches the disk. *)
Persist ==
  /\ disk' \in [Keys -> Values]
  /\ \A k \in Keys : disk'[k] \in held[k]
  /\ UNCHANGED mem
  /\ \/ UNCHANGED held
     \/ disk' = mem /\ held' = [k \in Keys |-> {mem[k]}]

(* The store has caught up: what is on disk now is the floor. *)
Settle ==
  /\ disk = mem
  /\ held' = [k \in Keys |-> {mem[k]}]
  /\ UNCHANGED <<mem, disk>>

(* A restart: memory is what the disk has. *)
Restart ==
  /\ mem' = disk
  /\ held' = [k \in Keys |-> {disk[k]}]
  /\ UNCHANGED disk

Next == Put \/ Persist \/ Settle \/ Restart

Spec == Init /\ [][Next]_vars
=============================================================================
