--------------------------- MODULE FetchPoolProofs ---------------------------
(***************************************************************************)
(* The safety of fetch() and its connection pool for any number of calls   *)
(* and connections.  The invariant says for each connection what it looks  *)
(* like while a fetch is suspended on it, by the await that fetch is       *)
(* suspended in (Serves), and what it looks like when none is (Rests); and *)
(* that no two fetches are suspended on one connection.                    *)
(***************************************************************************)
EXTENDS FetchPool, TLAPS

PendingOn(f, c) == fetch[f].pc \in Pending /\ fetch[f].conn = c

Unowned(c) == \A f \in Fetches : ~PendingOn(f, c)

(* The fields r of a connection and the server's side w of it. *)
Blank(r, w) == r.callback = None /\ r.reader = None /\ w = Silent

Gone(r, w) ==
  /\ r.state = "CLOSED" /\ r.socket = "none" /\ ~r.context /\ r.request = None
  /\ Blank(r, w)

InUse(r, st, sk, f) ==
  r.state = st /\ r.socket = sk /\ r.context /\ r.request = f

(* connect() went on after the connection had been closed. *)
Leaked(r, w, st, sk) ==
  /\ LateLookup /\ r.state = st /\ r.socket = sk /\ ~r.context /\ r.request = None
  /\ Blank(r, w)

Receiving(f) == [asked |-> <<f>>, sending |-> TRUE]

(* The server has the request of f and nothing else, or is done with it. *)
Answering(w, f) ==
  w \in {Silent, [asked |-> <<f>>, sending |-> FALSE], Receiving(f)}

Serves(r, w, f, pc) ==
  \/ pc # "response" /\ (pc = "lookup" => LateLookup) /\ Gone(r, w)
  \/ pc = "lookup" /\ InUse(r, "LOOKUPING", "none", f) /\ Blank(r, w)
  \/ pc = "tcp" /\ InUse(r, "CONNECTING", "opening", f) /\ Blank(r, w)
  \/ pc = "tcp" /\ Leaked(r, w, "CONNECTING", "opening")
  \/ pc = "ready" /\ InUse(r, "CONNECTED", "up", f) /\ Blank(r, w)
  \/ pc = "head" /\ InUse(r, "REQUEST_START", "up", f) /\ Blank(r, w)
  \/ /\ pc = "body" /\ InUse(r, "REQUEST_START", "up", f)
     /\ r.callback = None /\ r.reader = None /\ Answering(w, f)
  \/ /\ pc = "response" /\ InUse(r, "REQUEST_END", "up", f)
     /\ r.callback = f /\ r.reader = None /\ Answering(w, f)

Rests(r, w) ==
  \/ InUse(r, "INIT", "none", None) /\ Blank(r, w)
  \/ InUse(r, "IDLE", "up", None) /\ Blank(r, w)
  \/ Gone(r, w)
  \/ Leaked(r, w, "CONNECTED", "up")
  \/ \E f \in Fetches : /\ InUse(r, "RESPONSE_START", "up", f)
                        /\ r.callback = None /\ r.reader = f /\ w = Receiving(f)

PairInv ==
  /\ \A f \in Fetches : fetch[f].pc \in Pending => fetch[f].conn \in Conns
  /\ \A f, g \in Fetches, c \in Conns : PendingOn(f, c) /\ PendingOn(g, c) => f = g
  /\ \A f \in Fetches, c \in Conns :
       PendingOn(f, c) => Serves(conn[c], wire[c], f, fetch[f].pc)
  /\ \A c \in Conns : Unowned(c) => Rests(conn[c], wire[c])

(* Every connection that is not closed is in the pool. *)
PoolInv ==
  \A c \in Conns : conn[c].context /\ conn[c].state # "INIT" => c \in pool

(* Who reads is the reader of some connection. *)
ReadInv ==
  \A f \in Fetches : fetch[f].body = "open" => \E c \in Conns : conn[c].reader = f

(* No lookup grows old where lookups are not late. *)
AgeInv == ~LateLookup => \A c \in Conns : conn[c].state = "LOOKUPING" => ~conn[c].old

FetchInv == TypeOK /\ PairInv /\ PoolInv /\ ReadInv /\ AgeInv /\ OwnResponse
-----------------------------------------------------------------------------
(* What the invariant says of one connection *)

LEMMA NoneApart ==
  /\ None \notin Fetches /\ None \notin Conns
  /\ "none" \notin Fetches /\ "null" \notin Fetches /\ "error" \notin Fetches
BY ConstantsAssumption

LEMMA OwnerServed ==
  ASSUME PairInv, NEW f \in Fetches, fetch[f].pc \in Pending
  PROVE  /\ fetch[f].conn \in Conns /\ PendingOn(f, fetch[f].conn)
         /\ Serves(conn[fetch[f].conn], wire[fetch[f].conn], f, fetch[f].pc)
BY DEF PairInv, PendingOn

(* Only a fetch that waits for the response is called back. *)
LEMMA CallbackWaits ==
  ASSUME PairInv, NEW c \in Conns, NEW f \in Fetches, conn[c].callback = f
  PROVE  PendingOn(f, c) /\ fetch[f].pc = "response"
<1>1. ~Unowned(c)
  <2> SUFFICES ASSUME Unowned(c) PROVE FALSE
    OBVIOUS
  <2>1. Rests(conn[c], wire[c])
    BY DEF PairInv
  <2> QED BY <2>1, NoneApart DEF Rests, Gone, Leaked, Blank
<1>2. PICK g \in Fetches : PendingOn(g, c)
  BY <1>1 DEF Unowned
<1>3. Serves(conn[c], wire[c], g, fetch[g].pc)
  BY <1>2 DEF PairInv
<1>4. g = f /\ fetch[g].pc = "response"
  BY <1>3, NoneApart DEF Serves, Gone, Leaked, Blank
<1> QED BY <1>2, <1>4

(* Only a connection that nobody is suspended on has a reader. *)
LEMMA ReaderRests ==
  ASSUME PairInv, NEW c \in Conns, NEW f \in Fetches, conn[c].reader = f
  PROVE  /\ Unowned(c) /\ InUse(conn[c], "RESPONSE_START", "up", f)
         /\ conn[c].callback = None /\ wire[c] = Receiving(f)
<1>1. Unowned(c)
  <2> SUFFICES ASSUME NEW g \in Fetches, PendingOn(g, c) PROVE FALSE
    BY DEF Unowned
  <2>1. Serves(conn[c], wire[c], g, fetch[g].pc)
    BY DEF PairInv
  <2> QED BY <2>1, NoneApart DEF Serves, Gone, Leaked, Blank
<1>2. Rests(conn[c], wire[c])
  BY <1>1 DEF PairInv
<1> QED BY <1>1, <1>2, NoneApart DEF Rests, Gone, Leaked, Blank
-----------------------------------------------------------------------------
(* The shapes of a step *)

OnlyAt(c) == \A d \in Conns \ {c} : conn'[d] = conn[d] /\ wire'[d] = wire[d]

OnlyBy(f) == \A g \in Fetches \ {f} : fetch'[g] = fetch[g]

(* A step of fetch f on connection c, which is its own or becomes so. *)
LEMMA OwnerPair ==
  ASSUME PairInv, NEW f \in Fetches, NEW c \in Conns, OnlyAt(c), OnlyBy(f),
         \/ PendingOn(f, c)
         \/ Unowned(c) /\ fetch[f].pc \notin Pending,
         fetch'[f].conn = c,
         fetch'[f].pc \in Pending => Serves(conn'[c], wire'[c], f, fetch'[f].pc),
         fetch'[f].pc \notin Pending => Rests(conn'[c], wire'[c])
  PROVE  PairInv'
<1>1. \A g \in Fetches \ {f} : ~PendingOn(g, c) /\ fetch'[g] = fetch[g]
  BY DEF PairInv, Unowned, OnlyBy
<1>2. \A g \in Fetches : PendingOn(g, c)' => g = f
  BY <1>1 DEF PendingOn
<1>3. \A g \in Fetches, d \in Conns \ {c} :
        /\ PendingOn(g, d)' <=> PendingOn(g, d)
        /\ PendingOn(g, d) => fetch'[g] = fetch[g]
  BY DEF PendingOn, OnlyBy
<1>4. \A g \in Fetches : fetch'[g].pc \in Pending => fetch'[g].conn \in Conns
  BY DEF PairInv, OnlyBy
<1>5. \A g, h \in Fetches, d \in Conns :
        PendingOn(g, d)' /\ PendingOn(h, d)' => g = h
  BY <1>2, <1>3 DEF PairInv
<1>6. \A g \in Fetches, d \in Conns :
        PendingOn(g, d)' => Serves(conn'[d], wire'[d], g, fetch'[g].pc)
  <2> TAKE g \in Fetches, d \in Conns
  <2> HAVE PendingOn(g, d)'
  <2>1. CASE d = c
    <3>1. g = f /\ fetch'[f].pc \in Pending
      BY <2>1, <1>2 DEF PendingOn
    <3> QED BY <2>1, <3>1
  <2>2. CASE d # c
    <3>1. PendingOn(g, d) /\ fetch'[g] = fetch[g]
      BY <2>2, <1>3
    <3>2. Serves(conn[d], wire[d], g, fetch[g].pc)
      BY <3>1 DEF PairInv
    <3> QED BY <2>2, <3>1, <3>2 DEF OnlyAt
  <2> QED BY <2>1, <2>2
<1>7. \A d \in Conns : Unowned(d)' => Rests(conn'[d], wire'[d])
  <2> TAKE d \in Conns
  <2> HAVE Unowned(d)'
  <2>1. CASE d = c
    <3>1. fetch'[f].pc \notin Pending
      BY <2>1 DEF Unowned, PendingOn
    <3> QED BY <2>1, <3>1
  <2>2. CASE d # c
    <3>1. Unowned(d)
      BY <2>2, <1>3 DEF Unowned
    <3>2. Rests(conn[d], wire[d])
      BY <3>1 DEF PairInv
    <3> QED BY <2>2, <3>2 DEF OnlyAt
  <2> QED BY <2>1, <2>2
<1> QED BY <1>4, <1>5, <1>6, <1>7 DEF PairInv

(* Such a step that neither begins nor ends a body. *)
LEMMA OwnerRest ==
  ASSUME FetchInv, NEW f \in Fetches, NEW c \in Conns, OnlyAt(c), OnlyBy(f),
         pool \subseteq pool', conn'[c].context => c \in pool',
         conn'[c].reader = conn[c].reader, fetch'[f].body = fetch[f].body,
         fetch'[f].answer \in {fetch[f].answer, "error"},
         ~LateLookup /\ conn'[c].state = "LOOKUPING" => ~conn'[c].old
  PROVE  PoolInv' /\ ReadInv' /\ AgeInv' /\ OwnResponse'
<1>1. PoolInv'
  BY DEF FetchInv, PoolInv, OnlyAt
<1>2. ReadInv'
  <2> SUFFICES ASSUME NEW g \in Fetches, fetch'[g].body = "open"
               PROVE  \E d \in Conns : conn'[d].reader = g
    BY DEF ReadInv
  <2>1. fetch[g].body = "open"
    BY DEF OnlyBy
  <2>2. PICK d \in Conns : conn[d].reader = g
    BY <2>1 DEF FetchInv, ReadInv
  <2> QED BY <2>2 DEF OnlyAt
<1>3. AgeInv'
  BY DEF FetchInv, AgeInv, OnlyAt
<1>4. OwnResponse'
  BY NoneApart DEF FetchInv, OwnResponse, OnlyBy
<1> QED BY <1>1, <1>2, <1>3, <1>4
-----------------------------------------------------------------------------
(* fetch() until the request is sent *)

ConnType ==
  [state : States, socket : {"none", "opening", "up"}, context : BOOLEAN,
   callback : Fetches \cup {None}, reader : Fetches \cup {None},
   request : Fetches \cup {None}, isKeepAlive : BOOLEAN, old : BOOLEAN]

FetchType ==
  [pc : Pending \cup {"new", "done"}, conn : Conns \cup {None},
   answer : Fetches \cup {"none", "null", "error"},
   body : {"none", "open", "whole", "cut"}]

WireType == [asked : Seq(Fetches), sending : BOOLEAN]

LEMMA TypeParts ==
  /\ TypeOK <=> /\ pool \subseteq Conns /\ checkTimer \in BOOLEAN
                /\ conn \in [Conns -> ConnType] /\ fetch \in [Fetches -> FetchType]
                /\ wire \in [Conns -> WireType]
  /\ TypeOK' <=> /\ pool' \subseteq Conns /\ checkTimer' \in BOOLEAN
                 /\ conn' \in [Conns -> ConnType] /\ fetch' \in [Fetches -> FetchType]
                 /\ wire' \in [Conns -> WireType]
BY DEF TypeOK, ConnType, FetchType, WireType

LEMMA FieldTypes ==
  ASSUME NEW r \in ConnType
  PROVE  /\ \A st \in States : [r EXCEPT !.state = st] \in ConnType
         /\ \A sk \in {"none", "opening", "up"} : [r EXCEPT !.socket = sk] \in ConnType
         /\ \A g \in Fetches \cup {None} : /\ [r EXCEPT !.callback = g] \in ConnType
                                          /\ [r EXCEPT !.reader = g] \in ConnType
                                          /\ [r EXCEPT !.request = g] \in ConnType
         /\ \A b \in BOOLEAN : /\ [r EXCEPT !.context = b] \in ConnType
                               /\ [r EXCEPT !.isKeepAlive = b] \in ConnType
                               /\ [r EXCEPT !.old = b] \in ConnType
<1>1. \A st \in States : [r EXCEPT !.state = st] \in ConnType
  BY DEF ConnType
<1>2. \A sk \in {"none", "opening", "up"} : [r EXCEPT !.socket = sk] \in ConnType
  BY DEF ConnType
<1>3. \A g \in Fetches \cup {None} : [r EXCEPT !.callback = g] \in ConnType
  BY DEF ConnType
<1>4. \A g \in Fetches \cup {None} : [r EXCEPT !.reader = g] \in ConnType
  BY DEF ConnType
<1>5. \A g \in Fetches \cup {None} : [r EXCEPT !.request = g] \in ConnType
  BY DEF ConnType
<1>6. \A b \in BOOLEAN : [r EXCEPT !.context = b] \in ConnType
  BY DEF ConnType
<1>7. \A b \in BOOLEAN : [r EXCEPT !.isKeepAlive = b] \in ConnType
  BY DEF ConnType
<1>8. \A b \in BOOLEAN : [r EXCEPT !.old = b] \in ConnType
  BY DEF ConnType
<1> QED BY <1>1, <1>2, <1>3, <1>4, <1>5, <1>6, <1>7, <1>8

(* The changes of several fields that the actions make. *)
LEMMA ConnTypes ==
  ASSUME NEW r \in ConnType, NEW st \in States, NEW f \in Fetches \cup {None},
         NEW sk \in {"none", "opening", "up"}
  PROVE  /\ [r EXCEPT !.request = f, !.state = st] \in ConnType
         /\ [r EXCEPT !.socket = sk, !.state = st, !.old = FALSE] \in ConnType
         /\ [r EXCEPT !.state = st, !.callback = f, !.old = FALSE] \in ConnType
<1>1. [r EXCEPT !.request = f, !.state = st]
        = [[r EXCEPT !.request = f] EXCEPT !.state = st]
  OBVIOUS
<1>2. [r EXCEPT !.socket = sk, !.state = st, !.old = FALSE]
        = [[[r EXCEPT !.socket = sk] EXCEPT !.state = st] EXCEPT !.old = FALSE]
  OBVIOUS
<1>3. [r EXCEPT !.state = st, !.callback = f, !.old = FALSE]
        = [[[r EXCEPT !.state = st] EXCEPT !.callback = f] EXCEPT !.old = FALSE]
  OBVIOUS
<1>4. FALSE \in BOOLEAN
  OBVIOUS
<1>5. [r EXCEPT !.request = f] \in ConnType /\ [r EXCEPT !.state = st] \in ConnType
  BY FieldTypes
<1>6. [[r EXCEPT !.socket = sk] EXCEPT !.state = st] \in ConnType
  <2>1. [r EXCEPT !.socket = sk] \in ConnType
    BY FieldTypes
  <2> QED BY <2>1, FieldTypes
<1>7. [[r EXCEPT !.state = st] EXCEPT !.callback = f] \in ConnType
  BY <1>5, FieldTypes
<1>8. [[r EXCEPT !.request = f] EXCEPT !.state = st] \in ConnType
  BY <1>5, FieldTypes
<1>9. /\ [[[r EXCEPT !.socket = sk] EXCEPT !.state = st] EXCEPT !.old = FALSE] \in ConnType
      /\ [[[r EXCEPT !.state = st] EXCEPT !.callback = f] EXCEPT !.old = FALSE] \in ConnType
  BY <1>4, <1>6, <1>7, FieldTypes
<1> QED BY <1>1, <1>2, <1>3, <1>8, <1>9

(* The same for the fields of a fetch. *)
Pcs == Pending \cup {"new", "done"}
Answers == Fetches \cup {"none", "null", "error"}
Bodies == {"none", "open", "whole", "cut"}

LEMMA FetchFields ==
  ASSUME NEW r \in FetchType
  PROVE  /\ \A p \in Pcs : [r EXCEPT !.pc = p] \in FetchType
         /\ \A c \in Conns \cup {None} : [r EXCEPT !.conn = c] \in FetchType
         /\ \A a \in Answers : [r EXCEPT !.answer = a] \in FetchType
         /\ \A b \in Bodies : [r EXCEPT !.body = b] \in FetchType
<1>1. \A p \in Pcs : [r EXCEPT !.pc = p] \in FetchType
  BY DEF FetchType, Pcs
<1>2. \A c \in Conns \cup {None} : [r EXCEPT !.conn = c] \in FetchType
  BY DEF FetchType
<1>3. \A a \in Answers : [r EXCEPT !.answer = a] \in FetchType
  BY DEF FetchType, Answers
<1>4. \A b \in Bodies : [r EXCEPT !.body = b] \in FetchType
  BY DEF FetchType, Bodies
<1> QED BY <1>1, <1>2, <1>3, <1>4

LEMMA PcConnType ==
  ASSUME NEW r \in FetchType, NEW p \in Pcs, NEW c \in Conns \cup {None}
  PROVE  [r EXCEPT !.pc = p, !.conn = c] \in FetchType
<1>1. [r EXCEPT !.pc = p] \in FetchType
  BY FetchFields
<1>2. [[r EXCEPT !.pc = p] EXCEPT !.conn = c] \in FetchType
  BY <1>1, FetchFields
<1> QED BY <1>2

LEMMA PcAnswerType ==
  ASSUME NEW r \in FetchType, NEW p \in Pcs, NEW a \in Answers
  PROVE  [r EXCEPT !.pc = p, !.answer = a] \in FetchType
<1>1. [r EXCEPT !.pc = p] \in FetchType
  BY FetchFields
<1>2. [[r EXCEPT !.pc = p] EXCEPT !.answer = a] \in FetchType
  BY <1>1, FetchFields
<1> QED BY <1>2

LEMMA DoneType ==
  ASSUME NEW r \in FetchType, NEW p \in Pcs, NEW a \in Answers, NEW b \in Bodies
  PROVE  LET q == [r EXCEPT !.pc = p, !.answer = a, !.body = b]
         IN  /\ q \in FetchType
             /\ q.pc = p /\ q.conn = r.conn /\ q.answer = a /\ q.body = b
<1>1. [r EXCEPT !.pc = p] \in FetchType
  BY FetchFields
<1>2. [[r EXCEPT !.pc = p] EXCEPT !.answer = a] \in FetchType
  BY <1>1, FetchFields
<1>3. [[[r EXCEPT !.pc = p] EXCEPT !.answer = a] EXCEPT !.body = b] \in FetchType
  BY <1>2, FetchFields
<1>4. [r EXCEPT !.pc = p, !.answer = a, !.body = b] \in FetchType
  BY <1>3
<1> QED BY <1>4 DEF FetchType

LEMMA ReuseStep ==
  ASSUME FetchInv, NEW f \in Fetches, NEW c \in Conns, Reuse(f, c)
  PROVE  FetchInv'
<1>1. TypeOK'
  <2>1. [conn[c] EXCEPT !.request = f, !.state = "CONNECTED"] \in ConnType
    BY TypeParts, ConnTypes DEF FetchInv, States
  <2>2. [fetch[f] EXCEPT !.pc = "ready", !.conn = c] \in FetchType
    <3>1. fetch[f] \in FetchType /\ "ready" \in Pcs /\ c \in Conns \cup {None}
      BY TypeParts DEF FetchInv, Pending, Pcs
    <3> QED BY <3>1, PcConnType, Zenon
  <2> QED BY <2>1, <2>2, TypeParts DEF Reuse, FetchInv
<1>2. /\ conn'[c] = [conn[c] EXCEPT !.request = f, !.state = "CONNECTED"]
      /\ fetch'[f] = [fetch[f] EXCEPT !.pc = "ready", !.conn = c]
      /\ wire'[c] = wire[c] /\ OnlyAt(c) /\ OnlyBy(f)
  BY DEF Reuse, FetchInv, TypeOK, OnlyAt, OnlyBy
<1>3. Unowned(c) /\ InUse(conn[c], "IDLE", "up", None) /\ Blank(conn[c], wire[c])
  <2>1. conn[c].context /\ conn[c].state = "IDLE"
    BY DEF Reuse, Idle
  <2>2. Unowned(c)
    <3> SUFFICES ASSUME NEW g \in Fetches, PendingOn(g, c) PROVE FALSE
      BY DEF Unowned
    <3>1. Serves(conn[c], wire[c], g, fetch[g].pc)
      BY DEF FetchInv, PairInv
    <3> QED BY <2>1, <3>1 DEF Serves, Gone, Leaked, InUse
  <2>3. Rests(conn[c], wire[c])
    BY <2>2 DEF FetchInv, PairInv
  <2> QED BY <2>1, <2>2, <2>3 DEF Rests, InUse, Gone, Leaked
<1>4. Serves(conn'[c], wire'[c], f, fetch'[f].pc)
  BY <1>2, <1>3 DEF Serves, InUse, Blank, FetchInv, TypeOK
<1>5. PairInv'
  <2>1. fetch[f].pc \notin Pending
    BY DEF Reuse, At, Pending
  <2>2. fetch'[f].pc \in Pending /\ fetch'[f].conn = c
    BY <1>2 DEF Pending, FetchInv, TypeOK
  <2> QED BY <1>2, <1>3, <1>4, <2>1, <2>2, OwnerPair DEF FetchInv
<1>6. PoolInv' /\ ReadInv' /\ AgeInv' /\ OwnResponse'
  <2>1. pool \subseteq pool' /\ c \in pool'
    BY DEF Reuse, Idle
  <2>2. /\ conn'[c].reader = conn[c].reader /\ fetch'[f].body = fetch[f].body
        /\ fetch'[f].answer = fetch[f].answer /\ conn'[c].state # "LOOKUPING"
    BY <1>2 DEF FetchInv, TypeOK
  <2> QED BY <1>2, <2>1, <2>2, OwnerRest
<1> QED BY <1>1, <1>5, <1>6 DEF FetchInv

LEMMA NewFetchStep ==
  ASSUME FetchInv, NEW f \in Fetches, NEW c \in Conns, NewFetch(f, c)
  PROVE  FetchInv'
<1> DEFINE r == [NewConnection EXCEPT !.request = f, !.state = "LOOKUPING"]
<1>1. /\ InUse(r, "LOOKUPING", "none", f) /\ ~r.old
      /\ r.callback = None /\ r.reader = None
  BY DEF NewConnection, InUse
<1>2. TypeOK'
  <2>1. conn' = [conn EXCEPT ![c] = r]
    BY DEF NewFetch
  <2>2. r \in ConnType
    <3>1. NewConnection \in ConnType
      BY DEF NewConnection, ConnType, States
    <3> QED BY <3>1, ConnTypes DEF States
  <2>3. [fetch[f] EXCEPT !.pc = "lookup", !.conn = c] \in FetchType
    <3>1. fetch[f] \in FetchType /\ "lookup" \in Pcs /\ c \in Conns \cup {None}
      BY TypeParts DEF FetchInv, Pending, Pcs
    <3> QED BY <3>1, PcConnType, Zenon
  <2> HIDE DEF r
  <2> QED BY <2>1, <2>2, <2>3, TypeParts DEF NewFetch, FetchInv
<1>3. /\ conn'[c] = r /\ wire'[c] = wire[c] /\ OnlyAt(c) /\ OnlyBy(f)
      /\ fetch'[f] = [fetch[f] EXCEPT !.pc = "lookup", !.conn = c]
  BY DEF NewFetch, FetchInv, TypeOK, OnlyAt, OnlyBy
<1>4. Unowned(c) /\ Blank(conn[c], wire[c])
  <2>1. Unowned(c) /\ conn[c].socket = "none"
    BY DEF NewFetch, Free, Unowned, PendingOn
  <2>2. Rests(conn[c], wire[c])
    BY <2>1 DEF FetchInv, PairInv
  <2> QED BY <2>1, <2>2 DEF Rests, InUse, Gone, Leaked
<1> HIDE DEF r
<1>5. Serves(conn'[c], wire'[c], f, fetch'[f].pc)
  BY <1>1, <1>3, <1>4 DEF Serves, InUse, Blank, FetchInv, TypeOK
<1>6. PairInv'
  <2>1. fetch[f].pc \notin Pending
    BY DEF NewFetch, At, Pending
  <2>2. fetch'[f].pc \in Pending /\ fetch'[f].conn = c
    BY <1>3 DEF Pending, FetchInv, TypeOK
  <2> QED BY <1>3, <1>4, <1>5, <2>1, <2>2, OwnerPair DEF FetchInv
<1>7. PoolInv' /\ ReadInv' /\ AgeInv' /\ OwnResponse'
  <2>1. pool \subseteq pool' /\ c \in pool'
    BY DEF NewFetch
  <2>2. /\ conn'[c].reader = conn[c].reader /\ fetch'[f].body = fetch[f].body
        /\ fetch'[f].answer = fetch[f].answer /\ ~conn'[c].old
    BY <1>1, <1>3, <1>4 DEF FetchInv, TypeOK, Blank
  <2> QED BY <1>3, <2>1, <2>2, OwnerRest
<1> QED BY <1>2, <1>6, <1>7 DEF FetchInv

LEMMA LookupDoneStep ==
  ASSUME FetchInv, NEW f \in Fetches, LookupDone(f)
  PROVE  FetchInv'
<1> DEFINE c == fetch[f].conn
<1>1. fetch[f].pc = "lookup" /\ fetch[f].pc \in Pending
  BY DEF LookupDone, At, Pending
<1>2. c \in Conns /\ PendingOn(f, c) /\ Serves(conn[c], wire[c], f, "lookup")
  BY <1>1, OwnerServed DEF FetchInv
<1>3. /\ conn'[c] = [conn[c] EXCEPT !.socket = "opening", !.state = "CONNECTING",
                                    !.old = FALSE]
      /\ fetch'[f] = [fetch[f] EXCEPT !.pc = "tcp"]
      /\ wire'[c] = wire[c] /\ OnlyAt(c) /\ OnlyBy(f)
  BY <1>2 DEF LookupDone, FetchInv, TypeOK, OnlyAt, OnlyBy
<1>4. TypeOK'
  <2>1. [conn[c] EXCEPT !.socket = "opening", !.state = "CONNECTING",
                        !.old = FALSE] \in ConnType
    BY <1>2, TypeParts, ConnTypes DEF FetchInv, States
  <2>2. [fetch[f] EXCEPT !.pc = "tcp"] \in FetchType
    BY TypeParts DEF FetchInv, FetchType, Pending
  <2>3. conn' \in [Conns -> ConnType]
    BY <1>2, <2>1, TypeParts DEF LookupDone, FetchInv
  <2>4. fetch' \in [Fetches -> FetchType]
    BY <2>2, TypeParts DEF LookupDone, FetchInv
  <2> QED BY <2>3, <2>4, TypeParts DEF LookupDone, FetchInv
<1>5. Serves(conn'[c], wire'[c], f, fetch'[f].pc)
  BY <1>2, <1>3 DEF Serves, InUse, Blank, Gone, Leaked, FetchInv, TypeOK
<1>6. PairInv'
  <2>1. fetch'[f].pc \in Pending /\ fetch'[f].conn = c
    BY <1>3 DEF Pending, FetchInv, TypeOK
  <2> QED BY <1>2, <1>3, <1>5, <2>1, OwnerPair DEF FetchInv
<1>7. PoolInv' /\ ReadInv' /\ AgeInv' /\ OwnResponse'
  <2>1. pool' = pool
    BY DEF LookupDone
  <2>2. /\ conn'[c].reader = conn[c].reader /\ fetch'[f].body = fetch[f].body
        /\ fetch'[f].answer = fetch[f].answer /\ ~conn'[c].old
    BY <1>2, <1>3 DEF FetchInv, TypeOK
  <2>3. conn'[c].context => c \in pool'
    BY <1>2, <1>3, <2>1 DEF Serves, Gone, InUse, Leaked, FetchInv, TypeOK, PoolInv
  <2> QED BY <1>2, <1>3, <2>1, <2>2, <2>3, OwnerRest
<1> QED BY <1>4, <1>6, <1>7 DEF FetchInv

(* Rejected by a throw that leaves the connection alone. *)
LEMMA RejectedType ==
  ASSUME TypeOK, NEW f \in Fetches
  PROVE  /\ Rejected(f) \in [Fetches -> FetchType]
         /\ Rejected(f)[f].pc = "done" /\ Rejected(f)[f].conn = fetch[f].conn
         /\ Rejected(f)[f].body = fetch[f].body /\ Rejected(f)[f].answer = "error"
         /\ \A g \in Fetches \ {f} : Rejected(f)[g] = fetch[g]
<1>1. [fetch[f] EXCEPT !.pc = "done", !.answer = "error"] \in FetchType
  <2>1. fetch[f] \in FetchType /\ "done" \in Pcs /\ "error" \in Answers
    BY TypeParts DEF Pcs, Answers
  <2> QED BY <2>1, PcAnswerType, Zenon
<1>2. Rejected(f)
        = [fetch EXCEPT ![f] = [fetch[f] EXCEPT !.pc = "done", !.answer = "error"]]
  BY DEF Rejected
<1> QED BY <1>1, <1>2, TypeParts DEF FetchType

LEMMA PcType ==
  ASSUME TypeOK, NEW f \in Fetches, NEW pc \in Pending
  PROVE  [fetch EXCEPT ![f].pc = pc] \in [Fetches -> FetchType]
<1>1. [fetch[f] EXCEPT !.pc = pc] \in FetchType
  BY TypeParts DEF FetchType
<1> QED BY <1>1, TypeParts

LEMMA ConnectedStep ==
  ASSUME FetchInv, NEW f \in Fetches, Connected(f)
  PROVE  FetchInv'
<1> DEFINE c  == fetch[f].conn
           r  == [conn[c] EXCEPT !.socket = "up", !.state = "CONNECTED",
                                 !.old = FALSE]
           cs == [conn EXCEPT ![c].socket = "up", ![c].state = "CONNECTED",
                              ![c].old = FALSE]
<1>1. fetch[f].pc = "tcp" /\ fetch[f].pc \in Pending /\ conn[c].socket = "opening"
  BY DEF Connected, At, Pending
<1>2. c \in Conns /\ PendingOn(f, c) /\ Serves(conn[c], wire[c], f, "tcp")
  BY <1>1, OwnerServed DEF FetchInv
<1>3. r \in ConnType /\ conn[c] \in ConnType
  BY <1>2, TypeParts, ConnTypes DEF FetchInv, States
<1>4. /\ cs = [conn EXCEPT ![c] = r] /\ cs \in [Conns -> ConnType]
      /\ cs[c] = r /\ \A d \in Conns \ {c} : cs[d] = conn[d]
  <2>1. cs = [conn EXCEPT ![c] = r]
    OBVIOUS
  <2> HIDE DEF r, cs
  <2> QED BY <1>2, <1>3, <2>1, TypeParts DEF FetchInv
<1>5. /\ r.socket = "up" /\ r.state = "CONNECTED" /\ ~r.old
      /\ r.context = conn[c].context /\ r.request = conn[c].request
      /\ r.callback = conn[c].callback /\ r.reader = conn[c].reader
  BY <1>3 DEF ConnType
<1>6. wire'[c] = wire[c] /\ pool' = pool /\ checkTimer' = TRUE /\ wire' = wire
  BY DEF Connected
<1>7. conn[c].context => c \in pool
  BY <1>2 DEF Serves, Gone, InUse, Leaked, FetchInv, PoolInv
<1>8. CASE conn[c].request = None
  <2>1. conn' = cs /\ fetch' = Rejected(f)
    BY <1>8 DEF Connected
  <2> HIDE DEF r, cs
  <2>2. OnlyAt(c) /\ OnlyBy(f) /\ conn'[c] = r
    BY <1>4, <1>6, <2>1, RejectedType DEF OnlyAt, OnlyBy, FetchInv
  <2>3. Rests(conn'[c], wire'[c])
    <3>1. Leaked(conn[c], wire[c], "CONNECTING", "opening")
      BY <1>1, <1>2, <1>8, NoneApart DEF Serves, Gone, InUse
    <3> QED BY <1>5, <1>6, <2>2, <3>1 DEF Rests, Leaked, Blank
  <2>4. PairInv'
    <3>1. fetch'[f].pc \notin Pending /\ fetch'[f].conn = c
      BY <2>1, RejectedType DEF Pending, FetchInv
    <3> QED BY <1>2, <2>2, <2>3, <3>1, OwnerPair DEF FetchInv
  <2>5. PoolInv' /\ ReadInv' /\ AgeInv' /\ OwnResponse'
    <3>1. fetch'[f].body = fetch[f].body /\ fetch'[f].answer = "error"
      BY <2>1, RejectedType DEF FetchInv
    <3> QED BY <1>2, <1>5, <1>6, <1>7, <2>2, <3>1, OwnerRest
  <2>6. TypeOK'
    BY <1>4, <1>6, <2>1, RejectedType, TypeParts DEF FetchInv
  <2> QED BY <2>4, <2>5, <2>6 DEF FetchInv
<1>9. CASE conn[c].request # None
  <2>1. conn' = [cs EXCEPT ![c].state = "REQUEST_START"]
        /\ fetch' = [fetch EXCEPT ![f].pc = "head"]
    BY <1>9 DEF Connected, StartRequest
  <2> HIDE DEF r, cs
  <2>2. /\ OnlyAt(c) /\ OnlyBy(f)
        /\ conn'[c] = [r EXCEPT !.state = "REQUEST_START"]
        /\ fetch'[f] = [fetch[f] EXCEPT !.pc = "head"]
    BY <1>2, <1>4, <1>6, <2>1 DEF OnlyAt, OnlyBy, FetchInv, TypeOK
  <2>3. Serves(conn'[c], wire'[c], f, fetch'[f].pc)
    <3>1. InUse(conn[c], "CONNECTING", "opening", f) /\ Blank(conn[c], wire[c])
      BY <1>1, <1>2, <1>9 DEF Serves, Gone, Leaked
    <3>2. /\ conn'[c].state = "REQUEST_START" /\ conn'[c].socket = r.socket
          /\ conn'[c].context = r.context /\ conn'[c].request = r.request
          /\ conn'[c].callback = r.callback /\ conn'[c].reader = r.reader
      BY <1>3, <2>2 DEF ConnType
    <3>3. fetch'[f].pc = "head"
      BY <2>2 DEF FetchInv, TypeOK
    <3>4. InUse(conn'[c], "REQUEST_START", "up", f) /\ Blank(conn'[c], wire'[c])
      BY <1>5, <1>6, <3>1, <3>2 DEF InUse, Blank
    <3> QED BY <3>3, <3>4 DEF Serves
  <2>4. PairInv'
    <3>1. fetch'[f].pc \in Pending /\ fetch'[f].conn = c
      BY <2>2 DEF Pending, FetchInv, TypeOK
    <3> QED BY <1>2, <2>2, <2>3, <3>1, OwnerPair DEF FetchInv
  <2>5. PoolInv' /\ ReadInv' /\ AgeInv' /\ OwnResponse'
    <3>1. /\ fetch'[f].body = fetch[f].body /\ fetch'[f].answer = fetch[f].answer
          /\ conn'[c].context = conn[c].context /\ conn'[c].reader = conn[c].reader
          /\ ~conn'[c].old
      BY <1>3, <1>5, <2>2 DEF FetchInv, TypeOK, ConnType
    <3> QED BY <1>2, <1>6, <1>7, <2>2, <3>1, OwnerRest
  <2>6. TypeOK'
    <3>1. [r EXCEPT !.state = "REQUEST_START"] \in ConnType
      BY <1>3, FieldTypes DEF States
    <3>2. conn' \in [Conns -> ConnType]
      BY <1>2, <1>4, <2>1, <3>1
    <3>3. fetch' \in [Fetches -> FetchType]
      BY <2>1, PcType DEF Pending, FetchInv
    <3> QED BY <1>6, <3>2, <3>3, TypeParts DEF FetchInv
  <2> QED BY <2>4, <2>5, <2>6 DEF FetchInv
<1> QED BY <1>8, <1>9

LEMMA SendRequestStep ==
  ASSUME FetchInv, NEW f \in Fetches, SendRequest(f)
  PROVE  FetchInv'
<1> DEFINE c == fetch[f].conn
<1>1. fetch[f].pc = "ready" /\ fetch[f].pc \in Pending
  BY DEF SendRequest, At, Pending
<1>2. c \in Conns /\ PendingOn(f, c) /\ Serves(conn[c], wire[c], f, "ready")
  BY <1>1, OwnerServed DEF FetchInv
<1>3. pool' = pool /\ checkTimer' = checkTimer /\ wire' = wire
  BY DEF SendRequest
<1>4. conn[c].context => c \in pool
  BY <1>2 DEF Serves, Gone, InUse, FetchInv, PoolInv
<1>5. CASE conn[c].socket = "none"
  <2>1. conn' = conn /\ fetch' = Rejected(f)
    BY <1>5 DEF SendRequest
  <2>2. OnlyAt(c) /\ OnlyBy(f)
    BY <1>3, <2>1, RejectedType DEF OnlyAt, OnlyBy, FetchInv
  <2>3. Gone(conn[c], wire[c])
    BY <1>2, <1>5 DEF Serves, InUse
  <2>4. PairInv'
    <3>1. fetch'[f].pc \notin Pending /\ fetch'[f].conn = c
      BY <2>1, RejectedType DEF Pending, FetchInv
    <3>2. Rests(conn'[c], wire'[c])
      BY <1>3, <2>1, <2>3 DEF Rests
    <3> QED BY <1>2, <2>2, <3>1, <3>2, OwnerPair DEF FetchInv
  <2>5. PoolInv' /\ ReadInv' /\ AgeInv' /\ OwnResponse'
    <3>1. fetch'[f].body = fetch[f].body /\ fetch'[f].answer = "error"
      BY <2>1, RejectedType DEF FetchInv
    <3>2. conn'[c].state # "LOOKUPING"
      BY <2>1, <2>3 DEF Gone
    <3> QED BY <1>2, <1>3, <1>4, <2>1, <2>2, <3>1, <3>2, OwnerRest
  <2>6. TypeOK'
    BY <1>3, <2>1, RejectedType, TypeParts DEF FetchInv
  <2> QED BY <2>4, <2>5, <2>6 DEF FetchInv
<1>6. CASE conn[c].socket # "none"
  <2>1. conn' = [conn EXCEPT ![c].state = "REQUEST_START"]
        /\ fetch' = [fetch EXCEPT ![f].pc = "head"]
    BY <1>6 DEF SendRequest, StartRequest
  <2>2. /\ OnlyAt(c) /\ OnlyBy(f)
        /\ conn'[c] = [conn[c] EXCEPT !.state = "REQUEST_START"]
        /\ fetch'[f] = [fetch[f] EXCEPT !.pc = "head"]
    BY <1>2, <1>3, <2>1 DEF OnlyAt, OnlyBy, FetchInv, TypeOK
  <2>3. Serves(conn'[c], wire'[c], f, fetch'[f].pc)
    <3>1. InUse(conn[c], "CONNECTED", "up", f) /\ Blank(conn[c], wire[c])
      BY <1>2, <1>6 DEF Serves, Gone
    <3> QED BY <1>2, <1>3, <2>2, <3>1 DEF Serves, InUse, Blank, FetchInv, TypeOK
  <2>4. PairInv'
    <3>1. fetch'[f].pc \in Pending /\ fetch'[f].conn = c
      BY <2>2 DEF Pending, FetchInv, TypeOK
    <3> QED BY <1>2, <2>2, <2>3, <3>1, OwnerPair DEF FetchInv
  <2>5. PoolInv' /\ ReadInv' /\ AgeInv' /\ OwnResponse'
    <3>1. /\ fetch'[f].body = fetch[f].body /\ fetch'[f].answer = fetch[f].answer
          /\ conn'[c].context = conn[c].context /\ conn'[c].reader = conn[c].reader
          /\ conn'[c].state # "LOOKUPING"
      BY <1>2, <2>2 DEF FetchInv, TypeOK
    <3> QED BY <1>2, <1>3, <1>4, <2>2, <3>1, OwnerRest
  <2>6. TypeOK'
    <3>1. [conn[c] EXCEPT !.state = "REQUEST_START"] \in ConnType
      BY <1>2, TypeParts, FieldTypes DEF States, FetchInv
    <3>2. conn' \in [Conns -> ConnType]
      BY <1>2, <2>1, <3>1, TypeParts DEF FetchInv
    <3>3. fetch' \in [Fetches -> FetchType]
      BY <2>1, PcType DEF Pending, FetchInv
    <3> QED BY <1>3, <3>2, <3>3, TypeParts DEF FetchInv
  <2> QED BY <2>4, <2>5, <2>6 DEF FetchInv
<1> QED BY <1>5, <1>6

(* What RequestSent makes of the connection and the fetch. *)
LEMMA RequestSentStep ==
  ASSUME FetchInv, NEW f \in Fetches, fetch[f].pc \in {"head", "body"},
         NEW c, c = fetch[f].conn, RequestSent(f, c),
         InUse(conn[c], "REQUEST_START", "up", f), conn[c].reader = None,
         Answering(wire'[c], f), wire' \in [Conns -> WireType],
         \A d \in Conns \ {c} : wire'[d] = wire[d],
         UNCHANGED <<pool, checkTimer>>
  PROVE  FetchInv'
<1>1. c \in Conns /\ PendingOn(f, c)
  BY OwnerServed DEF FetchInv, Pending
<1>2. /\ conn'[c] = [conn[c] EXCEPT !.state = "REQUEST_END", !.callback = f,
                                    !.old = FALSE]
      /\ fetch'[f] = [fetch[f] EXCEPT !.pc = "response"]
      /\ OnlyAt(c) /\ OnlyBy(f)
  BY <1>1 DEF RequestSent, FetchInv, TypeOK, OnlyAt, OnlyBy
<1>3. TypeOK'
  <2>1. conn'[c] \in ConnType
    <3>1. conn[c] \in ConnType /\ "REQUEST_END" \in States
      BY <1>1, TypeParts DEF States, FetchInv
    <3>2. f \in Fetches \cup {None} /\ "up" \in {"none", "opening", "up"}
      OBVIOUS
    <3>3. [conn[c] EXCEPT !.state = "REQUEST_END", !.callback = f, !.old = FALSE]
            \in ConnType
      BY <3>1, <3>2, ConnTypes, Zenon
    <3>4. conn'[c] = [conn[c] EXCEPT !.state = "REQUEST_END", !.callback = f, !.old = FALSE]
      BY <1>2
    <3> QED BY <3>3, <3>4, Zenon
  <2>2. conn' \in [Conns -> ConnType]
    <3>1. \E r : conn' = [conn EXCEPT ![c] = r]
      BY <1>1 DEF RequestSent
    <3> QED BY <1>1, <2>1, <3>1, TypeParts DEF FetchInv
  <2>3. fetch' \in [Fetches -> FetchType]
    BY PcType DEF RequestSent, Pending, FetchInv
  <2> QED BY <2>2, <2>3, TypeParts DEF FetchInv
<1>4. /\ conn'[c].state = "REQUEST_END" /\ conn'[c].callback = f
      /\ conn'[c].context /\ conn'[c].reader = None /\ conn'[c].socket = "up"
      /\ conn'[c].request = f /\ fetch'[f].pc = "response" /\ fetch'[f].conn = c
      /\ fetch'[f].body = fetch[f].body /\ fetch'[f].answer = fetch[f].answer
  BY <1>1, <1>2 DEF InUse, FetchInv, TypeOK
<1>5. PairInv'
  <2>1. Serves(conn'[c], wire'[c], f, fetch'[f].pc)
    BY <1>4 DEF Serves, InUse
  <2>2. fetch'[f].pc \in Pending
    BY <1>4 DEF Pending
  <2> QED BY <1>1, <1>2, <1>4, <2>1, <2>2, OwnerPair DEF FetchInv
<1>6. PoolInv' /\ ReadInv' /\ AgeInv' /\ OwnResponse'
  <2>1. c \in pool'
    BY <1>1 DEF InUse, FetchInv, PoolInv
  <2>2. conn'[c].state # "LOOKUPING" /\ conn'[c].reader = conn[c].reader
    BY <1>4
  <2> QED BY <1>1, <1>2, <1>4, <2>1, <2>2, OwnerRest
<1> QED BY <1>3, <1>5, <1>6 DEF FetchInv

LEMMA WireAsked ==
  ASSUME NEW w \in WireType, NEW q, NEW b, w.sending = b
  PROVE  [w EXCEPT !.asked = q] = [asked |-> q, sending |-> b]
BY DEF WireType

LEMMA WireSending ==
  ASSUME NEW w \in WireType, NEW q, w.asked = q
  PROVE  [w EXCEPT !.sending = TRUE] = [asked |-> q, sending |-> TRUE]
<1>1. \A b : [w EXCEPT !.sending = b] = [asked |-> q, sending |-> b]
  BY DEF WireType
<1> QED BY <1>1, Zenon

LEMMA HeadWrittenStep ==
  ASSUME FetchInv, NEW f \in Fetches, HeadWritten(f)
  PROVE  FetchInv'
<1> DEFINE c == fetch[f].conn
<1>1. fetch[f].pc = "head" /\ fetch[f].pc \in Pending /\ conn[c].socket = "up"
  BY DEF HeadWritten, At, Pending
<1>2. c \in Conns /\ PendingOn(f, c) /\ Serves(conn[c], wire[c], f, "head")
  BY <1>1, OwnerServed DEF FetchInv
<1>3. InUse(conn[c], "REQUEST_START", "up", f) /\ Blank(conn[c], wire[c])
  BY <1>1, <1>2 DEF Serves, Gone
<1>4. /\ wire' = [wire EXCEPT ![c].asked = Append(<<>>, f)]
      /\ UNCHANGED <<pool, checkTimer>>
  BY <1>2, <1>3 DEF HeadWritten, Blank, Silent
<1>5. /\ wire'[c] = [asked |-> <<f>>, sending |-> FALSE]
      /\ \A d \in Conns \ {c} : wire'[d] = wire[d]
  <2>1. Append(<<>>, f) = <<f>>
    OBVIOUS
  <2>2. wire[c] = Silent
    BY <1>3 DEF Blank
  <2>3. wire[c].asked = <<>> /\ wire[c].sending = FALSE /\ wire[c] \in WireType
    BY <1>2, <2>2, TypeParts DEF Silent, FetchInv
  <2>4. wire'[c] = [wire[c] EXCEPT !.asked = Append(<<>>, f)]
        /\ \A d \in Conns \ {c} : wire'[d] = wire[d]
    BY <1>2, <1>4 DEF FetchInv, TypeOK
  <2>5. [wire[c] EXCEPT !.asked = <<f>>] = [asked |-> <<f>>, sending |-> FALSE]
    BY <2>3, WireAsked, Zenon
  <2> QED BY <2>1, <2>4, <2>5
<1>6. wire' \in [Conns -> WireType]
  <2>1. <<f>> \in Seq(Fetches)
    OBVIOUS
  <2>2. [asked |-> <<f>>, sending |-> FALSE] \in WireType
    BY <2>1 DEF WireType
  <2>3. wire' = [wire EXCEPT ![c] = wire'[c]]
    BY <1>4, <1>5, <1>2 DEF FetchInv, TypeOK
  <2> QED BY <1>2, <1>5, <2>2, <2>3, TypeParts DEF FetchInv
<1>7. CASE RequestSent(f, c)
  <2>1. Answering(wire'[c], f) /\ conn[c].reader = None
    BY <1>3, <1>5 DEF Answering, Blank
  <2> QED BY <1>1, <1>3, <1>4, <1>5, <1>6, <1>7, <2>1, RequestSentStep
<1>8. CASE /\ fetch' = [fetch EXCEPT ![f].pc = "body"]
           /\ conn' = [conn EXCEPT ![c].old = FALSE]
  <2>1. /\ conn'[c] = [conn[c] EXCEPT !.old = FALSE]
        /\ fetch'[f] = [fetch[f] EXCEPT !.pc = "body"]
        /\ OnlyAt(c) /\ OnlyBy(f)
    BY <1>2, <1>5, <1>8 DEF FetchInv, TypeOK, OnlyAt, OnlyBy
  <2>2. /\ InUse(conn'[c], "REQUEST_START", "up", f)
        /\ conn'[c].callback = None /\ conn'[c].reader = None
        /\ fetch'[f].pc = "body" /\ fetch'[f].conn = c
        /\ fetch'[f].body = fetch[f].body /\ fetch'[f].answer = fetch[f].answer
    BY <1>2, <1>3, <2>1 DEF InUse, Blank, FetchInv, TypeOK
  <2>3. PairInv'
    <3>1. Serves(conn'[c], wire'[c], f, fetch'[f].pc)
      BY <1>5, <2>2 DEF Serves, Answering
    <3>2. fetch'[f].pc \in Pending
      BY <2>2 DEF Pending
    <3> QED BY <1>2, <2>1, <2>2, <3>1, <3>2, OwnerPair DEF FetchInv
  <2>4. PoolInv' /\ ReadInv' /\ AgeInv' /\ OwnResponse'
    <3>1. c \in pool' /\ pool' = pool
      BY <1>2, <1>3, <1>4 DEF InUse, FetchInv, PoolInv
    <3>2. conn'[c].state # "LOOKUPING" /\ conn'[c].reader = conn[c].reader
      BY <1>3, <2>2 DEF InUse, Blank
    <3> QED BY <1>2, <2>1, <2>2, <3>1, <3>2, OwnerRest
  <2>5. TypeOK'
    <3>1. [conn[c] EXCEPT !.old = FALSE] \in ConnType
      BY <1>2, TypeParts, FieldTypes DEF FetchInv
    <3>2. conn' \in [Conns -> ConnType]
      BY <1>2, <1>8, <3>1, TypeParts DEF FetchInv
    <3>3. fetch' \in [Fetches -> FetchType]
      BY <1>8, PcType DEF Pending, FetchInv
    <3> QED BY <1>4, <1>6, <3>2, <3>3, TypeParts DEF FetchInv
  <2> QED BY <2>3, <2>4, <2>5 DEF FetchInv
<1> QED BY <1>7, <1>8 DEF HeadWritten

LEMMA BodyWrittenStep ==
  ASSUME FetchInv, NEW f \in Fetches, BodyWritten(f)
  PROVE  FetchInv'
<1> DEFINE c == fetch[f].conn
<1>1. /\ fetch[f].pc = "body" /\ fetch[f].pc \in Pending /\ conn[c].socket = "up"
      /\ RequestSent(f, c) /\ UNCHANGED <<pool, checkTimer, wire>>
  BY DEF BodyWritten, At, Pending
<1>2. c \in Conns /\ PendingOn(f, c) /\ Serves(conn[c], wire[c], f, "body")
  BY <1>1, OwnerServed DEF FetchInv
<1>3. /\ InUse(conn[c], "REQUEST_START", "up", f) /\ conn[c].reader = None
      /\ Answering(wire[c], f)
  BY <1>1, <1>2 DEF Serves, Gone
<1>4. wire' \in [Conns -> WireType]
  BY <1>1, TypeParts DEF FetchInv
<1> QED BY <1>1, <1>3, <1>4, RequestSentStep
-----------------------------------------------------------------------------
(* Closing *)

LEMMA ClosedType ==
  ASSUME NEW c, conn[c] \in ConnType
  PROVE  ClosedConnection(c) \in ConnType
<1> DEFINE r0 == conn[c]
           r1 == [r0 EXCEPT !.state = "CLOSED"]
           r2 == [r1 EXCEPT !.socket = "none"]
           r3 == [r2 EXCEPT !.context = FALSE]
           r4 == [r3 EXCEPT !.callback = None]
           r5 == [r4 EXCEPT !.reader = None]
           r6 == [r5 EXCEPT !.request = None]
<1>1. ClosedConnection(c) = r6
  BY DEF ClosedConnection
<1>2. "CLOSED" \in States /\ FALSE \in BOOLEAN
  BY DEF States
<1>3. r1 \in ConnType
  BY <1>2, FieldTypes
<1> HIDE DEF r1
<1>4. r2 \in ConnType
  BY <1>3, FieldTypes
<1> HIDE DEF r2
<1>5. r3 \in ConnType
  BY <1>2, <1>4, FieldTypes
<1> HIDE DEF r3
<1>6. r4 \in ConnType
  BY <1>5, FieldTypes
<1> HIDE DEF r4
<1>7. r5 \in ConnType
  BY <1>6, FieldTypes
<1> HIDE DEF r5
<1>8. r6 \in ConnType
  BY <1>7, FieldTypes
<1> QED BY <1>1, <1>8 DEF r1, r2, r3, r4, r5

LEMMA CloseAllFacts ==
  ASSUME TypeOK, NEW S \in SUBSET Conns, CloseAll(S)
  PROVE  /\ conn' \in [Conns -> ConnType] /\ wire' \in [Conns -> WireType]
         /\ \A c \in S : Gone(conn'[c], wire'[c])
         /\ \A c \in Conns \ S : conn'[c] = conn[c] /\ wire'[c] = wire[c]
<1>1. \A c \in Conns : conn[c] \in ConnType /\ ClosedConnection(c) \in ConnType
  BY TypeParts, ClosedType
<1>2. conn' \in [Conns -> ConnType]
  BY <1>1 DEF CloseAll
<1>3. wire' \in [Conns -> WireType]
  <2>1. Silent \in WireType
    BY DEF Silent, WireType
  <2> QED BY <2>1, TypeParts DEF CloseAll
<1>4. \A c \in S : Gone(conn'[c], wire'[c])
  <2> SUFFICES ASSUME NEW c \in S PROVE Gone(conn'[c], wire'[c])
    OBVIOUS
  <2>1. conn'[c] = ClosedConnection(c) /\ wire'[c] = Silent
    BY DEF CloseAll
  <2>2. /\ ClosedConnection(c).state = "CLOSED" /\ ClosedConnection(c).socket = "none"
        /\ ~ClosedConnection(c).context /\ ClosedConnection(c).request = None
        /\ ClosedConnection(c).callback = None /\ ClosedConnection(c).reader = None
    BY <1>1 DEF ClosedConnection, ConnType
  <2> QED BY <2>1, <2>2 DEF Gone, Blank
<1>5. \A c \in Conns \ S : conn'[c] = conn[c] /\ wire'[c] = wire[c]
  BY DEF CloseAll
<1> QED BY <1>2, <1>3, <1>4, <1>5

Waits(g, S) == \E c \in S : conn[c].callback = g

Reads(g, S) == \E c \in S : conn[c].reader = g

LEMMA EndFetchesFacts ==
  ASSUME NEW fs \in [Fetches -> FetchType], NEW S
  PROVE  /\ EndFetches(fs, S) \in [Fetches -> FetchType]
         /\ \A g \in Fetches :
              /\ EndFetches(fs, S)[g].conn = fs[g].conn
              /\ EndFetches(fs, S)[g].pc = IF Waits(g, S) THEN "done" ELSE fs[g].pc
              /\ EndFetches(fs, S)[g].answer
                   = IF Waits(g, S) THEN "null" ELSE fs[g].answer
              /\ EndFetches(fs, S)[g].body = IF Reads(g, S) THEN "cut" ELSE fs[g].body
<1> DEFINE p(g)   == IF Waits(g, S) THEN "done" ELSE fs[g].pc
           a(g)   == IF Waits(g, S) THEN "null" ELSE fs[g].answer
           b(g)   == IF Reads(g, S) THEN "cut" ELSE fs[g].body
           rec(g) == [fs[g] EXCEPT !.pc = p(g), !.answer = a(g), !.body = b(g)]
<1>1. EndFetches(fs, S) = [g \in Fetches |-> rec(g)]
  BY DEF EndFetches, Waits, Reads
<1>2. ASSUME NEW g \in Fetches
      PROVE  /\ fs[g] \in FetchType
             /\ p(g) \in Pcs /\ a(g) \in Answers /\ b(g) \in Bodies
  BY DEF FetchType, Pcs, Answers, Bodies
<1> HIDE DEF p, a, b
<1>3. ASSUME NEW g \in Fetches
      PROVE  /\ rec(g) \in FetchType /\ rec(g).conn = fs[g].conn
             /\ rec(g).pc = p(g) /\ rec(g).answer = a(g) /\ rec(g).body = b(g)
  <2>1. /\ fs[g] \in FetchType
        /\ p(g) \in Pcs /\ a(g) \in Answers /\ b(g) \in Bodies
    BY <1>2
  <2>2. [fs[g] EXCEPT !.pc = p(g)] \in FetchType
    BY <2>1, FetchFields
  <2>3. [[fs[g] EXCEPT !.pc = p(g)] EXCEPT !.answer = a(g)] \in FetchType
    BY <2>1, <2>2, FetchFields
  <2>4. rec(g) \in FetchType
    BY <2>1, <2>3, FetchFields
  <2>5. /\ rec(g).conn = fs[g].conn /\ rec(g).pc = p(g)
        /\ rec(g).answer = a(g) /\ rec(g).body = b(g)
    BY <2>1 DEF FetchType
  <2> QED BY <2>4, <2>5
<1> HIDE DEF rec
<1>4. /\ EndFetches(fs, S) \in [Fetches -> FetchType]
      /\ \A g \in Fetches :
           /\ EndFetches(fs, S)[g].conn = fs[g].conn
           /\ EndFetches(fs, S)[g].pc = p(g)
           /\ EndFetches(fs, S)[g].answer = a(g)
           /\ EndFetches(fs, S)[g].body = b(g)
  BY <1>1, <1>3
<1> QED BY <1>4, Zenon DEF p, a, b

(* The connections of S are closed; fs has the fetches after a throw of    *)
(* one of them, if there was one.                                          *)
LEMMA CloseStep ==
  ASSUME FetchInv, NEW S \in SUBSET Conns, CloseAll(S),
         NEW fs \in [Fetches -> FetchType], fetch' = EndFetches(fs, S),
         \A g \in Fetches :
           \/ fs[g] = fetch[g]
           \/ /\ fs[g].pc = "done" /\ fs[g].answer = "error"
              /\ fs[g].body = fetch[g].body
              /\ fs[g].conn = fetch[g].conn /\ fetch[g].conn \in S,
         \A g \in Fetches : fs[g].pc = "lookup" /\ fetch[g].conn \in S => LateLookup,
         pool \ S \subseteq pool', pool' \subseteq pool, checkTimer' \in BOOLEAN
  PROVE  FetchInv'
<1>1. /\ conn' \in [Conns -> ConnType] /\ wire' \in [Conns -> WireType]
      /\ \A c \in S : Gone(conn'[c], wire'[c])
      /\ \A c \in Conns \ S : conn'[c] = conn[c] /\ wire'[c] = wire[c]
  BY CloseAllFacts DEF FetchInv
<1>2. /\ fetch' \in [Fetches -> FetchType]
      /\ \A g \in Fetches :
           /\ fetch'[g].conn = fs[g].conn
           /\ fetch'[g].pc = IF Waits(g, S) THEN "done" ELSE fs[g].pc
           /\ fetch'[g].answer = IF Waits(g, S) THEN "null" ELSE fs[g].answer
           /\ fetch'[g].body = IF Reads(g, S) THEN "cut" ELSE fs[g].body
  BY EndFetchesFacts
<1>3. TypeOK'
  BY <1>1, <1>2, TypeParts DEF FetchInv
<1>4. PairInv'
  <2>1. \A g \in Fetches : /\ fetch'[g].conn = fetch[g].conn
                           /\ fetch'[g].pc \in Pending => fetch'[g].pc = fetch[g].pc
    BY <1>2 DEF Pending
  <2>2. \A g \in Fetches, c \in Conns : PendingOn(g, c)' => PendingOn(g, c)
    BY <2>1 DEF PendingOn
  <2>3. \A g \in Fetches : fetch'[g].pc \in Pending => fetch'[g].conn \in Conns
    BY <2>1 DEF FetchInv, PairInv
  <2>4. \A g, h \in Fetches, c \in Conns : PendingOn(g, c)' /\ PendingOn(h, c)' => g = h
    BY <2>2 DEF FetchInv, PairInv
  <2>5. ASSUME NEW g \in Fetches, NEW c \in Conns, PendingOn(g, c)'
        PROVE  Serves(conn'[c], wire'[c], g, fetch'[g].pc)
    <3>1. PendingOn(g, c) /\ fetch'[g].pc = fetch[g].pc /\ fetch[g].conn = c
      BY <2>1, <2>2, <2>5 DEF PendingOn
    <3>2. Serves(conn[c], wire[c], g, fetch[g].pc)
      BY <3>1 DEF FetchInv, PairInv
    <3>3. CASE c \in S
      <4>1. ~Waits(g, S) /\ fs[g].pc = fetch'[g].pc
        BY <1>2, <2>5 DEF PendingOn, Pending
      <4>2. fetch[g].pc # "response"
        BY <3>2, <3>3, <4>1 DEF Serves, Waits
      <4>3. fetch[g].pc = "lookup" => LateLookup
        BY <3>1, <3>3, <4>1
      <4> QED BY <1>1, <3>1, <3>3, <4>2, <4>3 DEF Serves
    <3>4. CASE c \notin S
      BY <1>1, <3>1, <3>2, <3>4
    <3> QED BY <3>3, <3>4
  <2>6. ASSUME NEW c \in Conns, Unowned(c)' PROVE Rests(conn'[c], wire'[c])
    <3>1. CASE c \in S
      BY <1>1, <3>1 DEF Rests
    <3>2. CASE c \notin S
      <4>1. Unowned(c)
        <5> SUFFICES ASSUME NEW g \in Fetches, PendingOn(g, c) PROVE PendingOn(g, c)'
          BY <2>6 DEF Unowned
        <5>1. ~Waits(g, S)
          <6> SUFFICES ASSUME NEW d \in S, conn[d].callback = g PROVE FALSE
            BY DEF Waits
          <6>1. PendingOn(g, d)
            BY CallbackWaits DEF FetchInv
          <6> QED BY <3>2, <6>1 DEF PendingOn
        <5>2. fs[g] = fetch[g]
          BY <3>2 DEF PendingOn
        <5> QED BY <1>2, <5>1, <5>2 DEF PendingOn
      <4> QED BY <1>1, <3>2, <4>1 DEF FetchInv, PairInv
    <3> QED BY <3>1, <3>2
  <2> QED BY <2>3, <2>4, <2>5, <2>6 DEF PairInv
<1>5. PoolInv'
  BY <1>1 DEF PoolInv, FetchInv, Gone
<1>6. ReadInv'
  <2> SUFFICES ASSUME NEW g \in Fetches, fetch'[g].body = "open"
               PROVE  \E c \in Conns : conn'[c].reader = g
    BY DEF ReadInv
  <2>1. ~Reads(g, S) /\ fetch[g].body = "open"
    BY <1>2
  <2>2. PICK c \in Conns : conn[c].reader = g
    BY <2>1 DEF FetchInv, ReadInv
  <2> QED BY <1>1, <2>1, <2>2 DEF Reads
<1>7. AgeInv'
  BY <1>1 DEF AgeInv, FetchInv, Gone
<1>8. OwnResponse'
  BY <1>2, NoneApart DEF OwnResponse, FetchInv
<1> QED BY <1>3, <1>4, <1>5, <1>6, <1>7, <1>8 DEF FetchInv

LEMMA FailStep ==
  ASSUME FetchInv, NEW f \in Fetches, fetch[f].pc \in Pending, Fail(f)
  PROVE  FetchInv'
<1> DEFINE c == fetch[f].conn
<1>1. c \in Conns
  BY OwnerServed DEF FetchInv
<1>2. \A g \in Fetches : fetch[g].pc = "lookup" /\ fetch[g].conn = c => g = f
  BY <1>1 DEF FetchInv, PairInv, PendingOn, Pending
<1>3. /\ CloseAll({c}) /\ fetch' = EndFetches(Rejected(f), {c})
      /\ UNCHANGED <<pool, checkTimer>>
  BY DEF Fail
<1>4. /\ Rejected(f) \in [Fetches -> FetchType]
      /\ Rejected(f)[f].pc = "done" /\ Rejected(f)[f].conn = c
      /\ Rejected(f)[f].body = fetch[f].body /\ Rejected(f)[f].answer = "error"
      /\ \A g \in Fetches \ {f} : Rejected(f)[g] = fetch[g]
  BY RejectedType DEF FetchInv
<1>5. checkTimer' \in BOOLEAN
  BY <1>3 DEF FetchInv, TypeOK
<1> DEFINE fs == Rejected(f)
           S  == {c}
<1>6. S \in SUBSET Conns /\ pool \ S \subseteq pool' /\ pool' \subseteq pool
  BY <1>1, <1>3
<1>7. \A g \in Fetches :
        \/ fs[g] = fetch[g]
        \/ /\ fs[g].pc = "done" /\ fs[g].answer = "error"
           /\ fs[g].body = fetch[g].body
           /\ fs[g].conn = fetch[g].conn /\ fetch[g].conn \in S
  BY <1>4
<1>8. \A g \in Fetches : fs[g].pc = "lookup" /\ fetch[g].conn \in S => LateLookup
  BY <1>2, <1>4
<1>9. CloseAll(S) /\ fs \in [Fetches -> FetchType] /\ fetch' = EndFetches(fs, S)
  BY <1>3, <1>4
<1> HIDE DEF fs, S
<1> QED BY <1>5, <1>6, <1>7, <1>8, <1>9, CloseStep

(* Closing connections of the pool, none of them in a lookup. *)
LEMMA CloseConnectionsStep ==
  ASSUME FetchInv, NEW S \in SUBSET Conns, CloseAll(S),
         fetch' = EndFetches(fetch, S),
         LateLookup \/ \A c \in S : conn[c].state # "LOOKUPING",
         pool \ S \subseteq pool', pool' \subseteq pool, checkTimer' \in BOOLEAN
  PROVE  FetchInv'
<1>1. \A g \in Fetches : fetch[g].pc = "lookup" /\ fetch[g].conn \in S => LateLookup
  <2> SUFFICES ASSUME NEW g \in Fetches, fetch[g].pc = "lookup", fetch[g].conn \in S
               PROVE  LateLookup
    OBVIOUS
  <2>1. Serves(conn[fetch[g].conn], wire[fetch[g].conn], g, "lookup")
    BY OwnerServed DEF FetchInv, Pending
  <2> QED BY <2>1 DEF Serves, InUse
<1>2. fetch \in [Fetches -> FetchType]
  BY TypeParts DEF FetchInv
<1> QED BY <1>1, <1>2, CloseStep

LEMMA SocketEndsStep ==
  ASSUME FetchInv, NEW c \in Conns, SocketEnds(c)
  PROVE  FetchInv'
<1>1. conn[c].state # "LOOKUPING"
  <2>1. CASE Unowned(c)
    <3>1. Rests(conn[c], wire[c])
      BY <2>1 DEF FetchInv, PairInv
    <3> QED BY <3>1 DEF Rests, InUse, Gone, Leaked
  <2>2. CASE ~Unowned(c)
    <3>1. PICK g \in Fetches : PendingOn(g, c)
      BY <2>2 DEF Unowned
    <3>2. Serves(conn[c], wire[c], g, fetch[g].pc)
      BY <3>1 DEF FetchInv, PairInv
    <3> QED BY <3>2 DEF Serves, InUse, Gone, Leaked, SocketEnds
  <2> QED BY <2>1, <2>2
<1>2. checkTimer' \in BOOLEAN
  BY DEF SocketEnds, FetchInv, TypeOK
<1> QED BY <1>1, <1>2, CloseConnectionsStep DEF SocketEnds

LEMMA CheckTimerStep ==
  ASSUME FetchInv, CheckTimer
  PROVE  FetchInv'
<1> DEFINE S == {c \in pool : Expired(c)}
<1>1. S \in SUBSET Conns /\ checkTimer' \in BOOLEAN
  BY DEF CheckTimer, FetchInv, TypeOK
<1>2. ASSUME ~LateLookup, NEW c \in S PROVE conn[c].state # "LOOKUPING"
  <2> SUFFICES ASSUME conn[c].state = "LOOKUPING" PROVE FALSE
    OBVIOUS
  <2>1. c \in Conns /\ ~conn[c].old
    BY <1>1, <1>2 DEF FetchInv, AgeInv
  <2>2. conn[c].context
    <3>1. CASE Unowned(c)
      <4>1. Rests(conn[c], wire[c])
        BY <2>1, <3>1 DEF FetchInv, PairInv
      <4> QED BY <4>1 DEF Rests, InUse, Gone, Leaked
    <3>2. CASE ~Unowned(c)
      <4>1. PICK g \in Fetches : PendingOn(g, c)
        BY <3>2 DEF Unowned
      <4>2. Serves(conn[c], wire[c], g, fetch[g].pc)
        BY <2>1, <4>1 DEF FetchInv, PairInv
      <4> QED BY <4>2 DEF Serves, InUse, Gone, Leaked
    <3> QED BY <3>1, <3>2
  <2> QED BY <2>1, <2>2 DEF Expired
<1>3. /\ CloseAll(S) /\ fetch' = EndFetches(fetch, S) /\ pool' = pool \ S
  BY DEF CheckTimer, CloseConnections
<1> QED BY <1>1, <1>2, <1>3, CloseConnectionsStep

LEMMA CloseIdleStep ==
  ASSUME FetchInv, CloseIdleConnections
  PROVE  FetchInv'
<1> DEFINE S == {c \in pool : conn[c].state = "IDLE"}
<1>1. S \in SUBSET Conns /\ checkTimer' \in BOOLEAN
  BY DEF CloseIdleConnections, FetchInv, TypeOK
<1>2. \A c \in S : conn[c].state # "LOOKUPING"
  OBVIOUS
<1>3. /\ CloseAll(S) /\ fetch' = EndFetches(fetch, S) /\ pool' = pool \ S
  BY DEF CloseIdleConnections, CloseConnections
<1> QED BY <1>1, <1>2, <1>3, CloseConnectionsStep

LEMMA CloseManagerStep ==
  ASSUME FetchInv, Close
  PROVE  FetchInv'
<1>1. pool \in SUBSET Conns /\ checkTimer' \in BOOLEAN
  BY DEF Close, FetchInv, TypeOK
<1>2. CloseAll(pool) /\ fetch' = EndFetches(fetch, pool) /\ pool' = pool \ pool
  BY DEF Close, CloseConnections
<1> QED BY <1>1, <1>2, CloseConnectionsStep DEF Close
-----------------------------------------------------------------------------
(* The response *)

(* A step that moves no fetch to or from a connection. *)
LEMMA StayPair ==
  ASSUME PairInv, NEW c \in Conns, OnlyAt(c),
         \A g \in Fetches : fetch'[g].pc = fetch[g].pc /\ fetch'[g].conn = fetch[g].conn,
         \A g \in Fetches : PendingOn(g, c)
           => Serves(conn'[c], wire'[c], g, fetch[g].pc),
         Unowned(c) => Rests(conn'[c], wire'[c])
  PROVE  PairInv'
<1>1. \A g \in Fetches, d \in Conns : PendingOn(g, d)' <=> PendingOn(g, d)
  BY DEF PendingOn
<1>2. \A g \in Fetches, d \in Conns :
        PendingOn(g, d)' => Serves(conn'[d], wire'[d], g, fetch'[g].pc)
  <2> TAKE g \in Fetches, d \in Conns
  <2> HAVE PendingOn(g, d)'
  <2>1. CASE d = c
    BY <1>1, <2>1
  <2>2. CASE d # c
    <3>1. Serves(conn[d], wire[d], g, fetch[g].pc)
      BY <1>1 DEF PairInv
    <3> QED BY <2>2, <3>1 DEF OnlyAt
  <2> QED BY <2>1, <2>2
<1>3. \A d \in Conns : Unowned(d)' => Rests(conn'[d], wire'[d])
  <2> TAKE d \in Conns
  <2> HAVE Unowned(d)'
  <2>1. Unowned(d)
    BY <1>1 DEF Unowned
  <2>2. CASE d = c
    BY <2>1, <2>2
  <2>3. CASE d # c
    <3>1. Rests(conn[d], wire[d])
      BY <2>1 DEF PairInv
    <3> QED BY <2>3, <3>1 DEF OnlyAt
  <2> QED BY <2>2, <2>3
<1>4. \A g \in Fetches : fetch'[g].pc \in Pending => fetch'[g].conn \in Conns
  BY DEF PairInv
<1>5. \A g, h \in Fetches, d \in Conns : PendingOn(g, d)' /\ PendingOn(h, d)' => g = h
  BY <1>1 DEF PairInv
<1> QED BY <1>2, <1>3, <1>4, <1>5 DEF PairInv

LEMMA OldStays ==
  ASSUME NEW r \in ConnType, NEW w, NEW b \in BOOLEAN
  PROVE  /\ \A f, pc : Serves(r, w, f, pc) => Serves([r EXCEPT !.old = b], w, f, pc)
         /\ Rests(r, w) => Rests([r EXCEPT !.old = b], w)
<1> DEFINE q == [r EXCEPT !.old = b]
<1>1. /\ q.state = r.state /\ q.socket = r.socket /\ q.context = r.context
      /\ q.callback = r.callback /\ q.reader = r.reader /\ q.request = r.request
  BY DEF ConnType
<1> HIDE DEF q
<1>2. \A f, pc : Serves(r, w, f, pc) => Serves(q, w, f, pc)
  BY <1>1 DEF Serves, InUse, Gone, Leaked, Blank
<1>3. Rests(r, w) => Rests(q, w)
  BY <1>1 DEF Rests, InUse, Gone, Leaked, Blank
<1> QED BY <1>2, <1>3 DEF q

(* Only the age of one connection changes. *)
LEMMA AgeStep ==
  ASSUME FetchInv, NEW c \in Conns, NEW b \in BOOLEAN,
         conn' = [conn EXCEPT ![c].old = b],
         b /\ conn[c].state = "LOOKUPING" => LateLookup,
         UNCHANGED <<pool, checkTimer, fetch, wire>>
  PROVE  FetchInv'
<1>1. conn[c] \in ConnType
  BY TypeParts DEF FetchInv
<1>2. /\ conn' = [conn EXCEPT ![c] = [conn[c] EXCEPT !.old = b]]
      /\ [conn[c] EXCEPT !.old = b] \in ConnType
  BY <1>1, FieldTypes
<1>3. TypeOK'
  BY <1>2, TypeParts DEF FetchInv
<1>4. conn'[c] = [conn[c] EXCEPT !.old = b] /\ OnlyAt(c)
  BY <1>2, TypeParts DEF OnlyAt, FetchInv
<1>5. PairInv'
  <2>1. \A g \in Fetches : PendingOn(g, c)
          => Serves(conn'[c], wire'[c], g, fetch[g].pc)
    <3> SUFFICES ASSUME NEW g \in Fetches, PendingOn(g, c)
                 PROVE  Serves(conn'[c], wire'[c], g, fetch[g].pc)
      OBVIOUS
    <3>1. Serves(conn[c], wire[c], g, fetch[g].pc)
      BY DEF FetchInv, PairInv
    <3>2. Serves([conn[c] EXCEPT !.old = b], wire[c], g, fetch[g].pc)
      BY <1>1, <3>1, OldStays
    <3> QED BY <1>4, <3>2
  <2>2. Unowned(c) => Rests(conn'[c], wire'[c])
    BY <1>1, <1>4, OldStays DEF FetchInv, PairInv
  <2> QED BY <1>4, <2>1, <2>2, StayPair DEF FetchInv
<1>6. /\ conn'[c].state = conn[c].state /\ conn'[c].context = conn[c].context
      /\ conn'[c].reader = conn[c].reader /\ conn'[c].old = b
  BY <1>1, <1>4 DEF ConnType
<1>7. PoolInv' /\ ReadInv' /\ AgeInv' /\ OwnResponse'
  BY <1>4, <1>6 DEF PoolInv, ReadInv, AgeInv, OwnResponse, FetchInv, OnlyAt
<1> QED BY <1>3, <1>5, <1>7 DEF FetchInv

LEMMA ReplyDataStep ==
  ASSUME FetchInv, NEW c \in Conns, ReplyData(c)
  PROVE  FetchInv'
<1> DEFINE b == IF conn[c].context THEN FALSE ELSE conn[c].old
<1>1. conn[c].old \in BOOLEAN /\ b \in BOOLEAN
  BY DEF FetchInv, TypeOK
<1>2. conn' = [conn EXCEPT ![c].old = b]
  BY DEF ReplyData
<1>3. b /\ conn[c].state = "LOOKUPING" => LateLookup
  BY DEF FetchInv, AgeInv
<1> HIDE DEF b
<1> QED BY <1>1, <1>2, <1>3, AgeStep DEF ReplyData

Ended(r) ==
  /\ r.callback = None /\ r.reader = None
  /\ \/ InUse(r, "IDLE", "up", None)
     \/ r.state = "CLOSED" /\ r.socket = "none" /\ ~r.context /\ r.request = None

LEMMA ResponseEndsFacts ==
  ASSUME TypeOK, NEW c \in Conns, NEW cs \in [Conns -> ConnType],
         NEW fs \in [Fetches -> FetchType], ResponseEnds(c, cs, fs),
         \A d \in Conns \ {c} : cs[d] = conn[d],
         cs[c].context, cs[c].socket = "up", cs[c].callback = None
  PROVE  /\ conn' \in [Conns -> ConnType] /\ fetch' \in [Fetches -> FetchType]
         /\ Ended(conn'[c]) /\ \A d \in Conns \ {c} : conn'[d] = conn[d]
         /\ \A g \in Fetches :
              /\ fetch'[g].pc = fs[g].pc /\ fetch'[g].conn = fs[g].conn
              /\ fetch'[g].answer = fs[g].answer
              /\ fetch'[g].body = IF g = cs[c].reader THEN "whole" ELSE fs[g].body
<1> DEFINE r0 == cs[c]
           r1 == [r0 EXCEPT !.state = "IDLE"]
           r2 == [r1 EXCEPT !.reader = None]
           r3 == [r2 EXCEPT !.request = None]
           r4 == [r3 EXCEPT !.old = FALSE]
           r  == IF cs[c].isKeepAlive THEN r4 ELSE ClosedConnection(c)
<1>1. r4 = [cs[c] EXCEPT !.state = "IDLE", !.reader = None, !.request = None,
                         !.old = FALSE]
  OBVIOUS
<1>2. /\ r1 \in ConnType /\ r1.state = "IDLE" /\ r1.socket = "up" /\ r1.context
      /\ r1.callback = None
  <2>1. "IDLE" \in States
    BY DEF States
  <2>2. r1 \in ConnType
    BY <2>1, FieldTypes
  <2> QED BY <2>2 DEF ConnType
<1> HIDE DEF r1
<1>3. /\ r2 \in ConnType /\ r2.state = "IDLE" /\ r2.socket = "up" /\ r2.context
      /\ r2.callback = None /\ r2.reader = None
  <2>1. r2 \in ConnType
    BY <1>2, FieldTypes
  <2> QED BY <1>2, <2>1 DEF ConnType
<1> HIDE DEF r2
<1>4. /\ r3 \in ConnType /\ InUse(r3, "IDLE", "up", None)
      /\ r3.callback = None /\ r3.reader = None
  <2>1. r3 \in ConnType
    BY <1>3, FieldTypes
  <2> QED BY <1>3, <2>1 DEF ConnType, InUse
<1> HIDE DEF r3
<1>5. r4 \in ConnType /\ Ended(r4)
  <2>1. r4 \in ConnType
    BY <1>4, FieldTypes
  <2> QED BY <1>4, <2>1 DEF ConnType, InUse, Ended
<1>6. conn' = [cs EXCEPT ![c] = r]
  BY <1>1 DEF ResponseEnds, r1, r2, r3
<1> HIDE DEF r4
<1>7. ClosedConnection(c) \in ConnType /\ Ended(ClosedConnection(c))
  <2>1. conn[c] \in ConnType
    BY TypeParts
  <2>2. ClosedConnection(c) \in ConnType
    BY <2>1, ClosedType
  <2> QED BY <2>1, <2>2 DEF ClosedConnection, ConnType, Ended
<1>8. r \in ConnType /\ Ended(r)
  BY <1>5, <1>7
<1> HIDE DEF r
<1>9. /\ conn' \in [Conns -> ConnType] /\ Ended(conn'[c])
      /\ \A d \in Conns \ {c} : conn'[d] = conn[d]
  BY <1>6, <1>8
<1>10. /\ fetch' \in [Fetches -> FetchType]
       /\ \A g \in Fetches :
            /\ fetch'[g].pc = fs[g].pc /\ fetch'[g].conn = fs[g].conn
            /\ fetch'[g].answer = fs[g].answer
            /\ fetch'[g].body = IF g = cs[c].reader THEN "whole" ELSE fs[g].body
  <2>1. CASE cs[c].reader = None
    BY <2>1, NoneApart DEF ResponseEnds
  <2>2. CASE cs[c].reader # None
    <3>1. cs[c].reader \in Fetches
      BY <2>2 DEF ConnType
    <3>2. fetch' = [fs EXCEPT ![cs[c].reader].body = "whole"]
      BY <2>2 DEF ResponseEnds
    <3> QED BY <3>1, <3>2 DEF FetchType
  <2> QED BY <2>1, <2>2
<1> QED BY <1>9, <1>10

LEMMA SilentAfter ==
  ASSUME NEW f \in Fetches
  PROVE  /\ [asked |-> Tail(Receiving(f).asked), sending |-> FALSE] = Silent
         /\ Receiving(f).sending /\ ~Silent.sending /\ Silent.asked = <<>>
         /\ Silent \in WireType /\ Receiving(f) \in WireType
<1>1. Tail(<<f>>) = <<>> /\ <<>> \in Seq(Fetches) /\ <<f>> \in Seq(Fetches)
  OBVIOUS
<1> QED BY <1>1 DEF Receiving, Silent, WireType

(* Who is on a connection whose response is being received. *)
LEMMA SendingTo ==
  ASSUME FetchInv, NEW c \in Conns, wire[c].sending
  PROVE  \/ \E f \in Fetches :
              /\ PendingOn(f, c) /\ fetch[f].pc \in {"body", "response"}
              /\ InUse(conn[c], IF fetch[f].pc = "body" THEN "REQUEST_START"
                                                        ELSE "REQUEST_END", "up", f)
              /\ conn[c].callback = (IF fetch[f].pc = "body" THEN None ELSE f)
              /\ conn[c].reader = None
              /\ wire[c] = Receiving(f)
         \/ \E f \in Fetches :
              /\ Unowned(c) /\ InUse(conn[c], "RESPONSE_START", "up", f)
              /\ conn[c].callback = None /\ conn[c].reader = f
              /\ wire[c] = Receiving(f)
<1>1. ~Silent.sending
  BY DEF Silent
<1>2. CASE Unowned(c)
  <2>1. Rests(conn[c], wire[c])
    BY <1>2 DEF FetchInv, PairInv
  <2> QED BY <1>1, <1>2, <2>1 DEF Rests, Gone, Leaked, Blank
<1>3. CASE ~Unowned(c)
  <2>1. PICK f \in Fetches : PendingOn(f, c)
    BY <1>3 DEF Unowned
  <2>2. Serves(conn[c], wire[c], f, fetch[f].pc)
    BY <2>1 DEF FetchInv, PairInv
  <2>3. Answering(wire[c], f) => wire[c] = Receiving(f)
    BY <1>1 DEF Answering
  <2>4. ~Blank(conn[c], wire[c])
    BY <1>1 DEF Blank
  <2>5. /\ fetch[f].pc \in {"body", "response"} /\ Answering(wire[c], f)
        /\ InUse(conn[c], IF fetch[f].pc = "body" THEN "REQUEST_START"
                                                  ELSE "REQUEST_END", "up", f)
        /\ conn[c].callback = (IF fetch[f].pc = "body" THEN None ELSE f)
        /\ conn[c].reader = None
    BY <2>2, <2>4 DEF Serves, Gone, Leaked
  <2> QED BY <2>1, <2>3, <2>5
<1> QED BY <1>2, <1>3

LEMMA ReplyEndStep ==
  ASSUME FetchInv, NEW c \in Conns, ReplyEnd(c)
  PROVE  FetchInv'
<1>1. /\ wire[c].sending /\ UNCHANGED <<pool, checkTimer>>
      /\ wire' = [wire EXCEPT ![c] =
           IF conn'[c].socket = "none" THEN Silent
           ELSE [asked |-> Tail(wire[c].asked), sending |-> FALSE]]
  BY DEF ReplyEnd
<1>2. wire'[c] = Silent /\ wire' = [wire EXCEPT ![c] = Silent]
  <2>1. PICK f \in Fetches : wire[c] = Receiving(f)
    BY <1>1, SendingTo
  <2> QED BY <1>1, <2>1, SilentAfter DEF FetchInv, TypeOK
<1>3. /\ wire' \in [Conns -> WireType]
      /\ \A d \in Conns \ {c} : wire'[d] = wire[d]
  <2>1. Silent \in WireType
    BY DEF Silent, WireType
  <2> QED BY <1>2, <2>1, TypeParts DEF FetchInv
<1>4. CASE conn[c].context /\ conn[c].state = "RESPONSE_START"
  <2>1. ResponseEnds(c, conn, fetch)
    BY <1>4 DEF ReplyEnd
  <2>2. PICK f \in Fetches :
          /\ Unowned(c) /\ InUse(conn[c], "RESPONSE_START", "up", f)
          /\ conn[c].callback = None /\ conn[c].reader = f
    BY <1>1, <1>4, SendingTo DEF InUse
  <2>3. /\ conn' \in [Conns -> ConnType] /\ fetch' \in [Fetches -> FetchType]
        /\ Ended(conn'[c]) /\ \A d \in Conns \ {c} : conn'[d] = conn[d]
        /\ \A g \in Fetches :
             /\ fetch'[g].pc = fetch[g].pc /\ fetch'[g].conn = fetch[g].conn
             /\ fetch'[g].answer = fetch[g].answer
             /\ fetch'[g].body = IF g = f THEN "whole" ELSE fetch[g].body
    <3>1. conn \in [Conns -> ConnType] /\ fetch \in [Fetches -> FetchType]
      BY TypeParts DEF FetchInv
    <3>2. conn[c].context /\ conn[c].socket = "up"
      BY <2>2 DEF InUse
    <3> QED BY <2>1, <2>2, <3>1, <3>2, ResponseEndsFacts DEF FetchInv
  <2>4. TypeOK'
    BY <1>1, <1>3, <2>3, TypeParts DEF FetchInv
  <2>5. OnlyAt(c)
    BY <1>3, <2>3 DEF OnlyAt
  <2>6. Rests(conn'[c], wire'[c])
    BY <1>2, <2>3 DEF Ended, Rests, Blank, Gone
  <2>7. PairInv'
    BY <2>2, <2>3, <2>5, <2>6, StayPair DEF FetchInv, Unowned
  <2>8. PoolInv'
    <3>1. c \in pool
      BY <2>2 DEF InUse, FetchInv, PoolInv
    <3> QED BY <1>1, <2>5, <3>1 DEF PoolInv, FetchInv, OnlyAt
  <2>9. ReadInv'
    <3> SUFFICES ASSUME NEW g \in Fetches, fetch'[g].body = "open"
                 PROVE  \E d \in Conns : conn'[d].reader = g
      BY DEF ReadInv
    <3>1. g # f /\ fetch[g].body = "open"
      BY <2>3
    <3>2. PICK d \in Conns : conn[d].reader = g
      BY <3>1 DEF FetchInv, ReadInv
    <3> QED BY <2>2, <2>5, <3>1, <3>2 DEF OnlyAt
  <2>10. AgeInv'
    BY <2>3, <2>5 DEF AgeInv, FetchInv, OnlyAt, Ended, InUse
  <2>11. OwnResponse'
    BY <2>3 DEF OwnResponse, FetchInv
  <2> QED BY <2>4, <2>7, <2>8, <2>9, <2>10, <2>11 DEF FetchInv
<1>5. CASE ~(conn[c].context /\ conn[c].state = "RESPONSE_START")
  <2>1. UNCHANGED <<conn, fetch>>
    BY <1>5 DEF ReplyEnd
  <2>2. PICK f \in Fetches :
          /\ PendingOn(f, c) /\ fetch[f].pc \in {"body", "response"}
          /\ InUse(conn[c], IF fetch[f].pc = "body" THEN "REQUEST_START"
                                                    ELSE "REQUEST_END", "up", f)
          /\ conn[c].callback = (IF fetch[f].pc = "body" THEN None ELSE f)
          /\ conn[c].reader = None
    BY <1>1, <1>5, SendingTo DEF InUse
  <2>3. TypeOK'
    BY <1>1, <1>3, <2>1, TypeParts DEF FetchInv
  <2>4. OnlyAt(c)
    BY <1>3, <2>1 DEF OnlyAt
  <2>5. Serves(conn'[c], wire'[c], f, fetch[f].pc)
    BY <1>2, <2>1, <2>2 DEF Serves, Answering
  <2>6. PairInv'
    <3>1. \A g \in Fetches : PendingOn(g, c) => g = f
      BY <2>2 DEF FetchInv, PairInv
    <3> QED BY <2>1, <2>2, <2>4, <2>5, <3>1, StayPair DEF FetchInv, Unowned
  <2>7. PoolInv' /\ ReadInv' /\ AgeInv' /\ OwnResponse'
    BY <1>1, <2>1 DEF PoolInv, ReadInv, AgeInv, OwnResponse, FetchInv
  <2> QED BY <2>3, <2>6, <2>7 DEF FetchInv
<1> QED BY <1>4, <1>5

LEMMA ReplyTo ==
  ASSUME FetchInv, NEW c \in Conns, conn[c].socket = "up",
         wire[c].asked # <<>>, ~wire[c].sending
  PROVE  \E f \in Fetches :
           /\ PendingOn(f, c) /\ fetch[f].pc \in {"body", "response"}
           /\ InUse(conn[c], IF fetch[f].pc = "body" THEN "REQUEST_START"
                                                     ELSE "REQUEST_END", "up", f)
           /\ conn[c].callback = (IF fetch[f].pc = "body" THEN None ELSE f)
           /\ conn[c].reader = None
           /\ wire[c] = [asked |-> <<f>>, sending |-> FALSE]
           /\ Head(wire[c].asked) = f
<1>1. ~Blank(conn[c], wire[c])
  BY DEF Blank, Silent
<1>2. ~Unowned(c)
  <2> SUFFICES ASSUME Unowned(c) PROVE FALSE
    OBVIOUS
  <2>1. Rests(conn[c], wire[c])
    BY DEF FetchInv, PairInv
  <2>2. \A f \in Fetches : wire[c] # Receiving(f)
    BY SilentAfter
  <2> QED BY <1>1, <2>1, <2>2 DEF Rests, Gone, Leaked, InUse
<1>3. PICK f \in Fetches : PendingOn(f, c)
  BY <1>2 DEF Unowned
<1>4. Serves(conn[c], wire[c], f, fetch[f].pc)
  BY <1>3 DEF FetchInv, PairInv
<1>5. /\ fetch[f].pc \in {"body", "response"} /\ Answering(wire[c], f)
      /\ InUse(conn[c], IF fetch[f].pc = "body" THEN "REQUEST_START"
                                                ELSE "REQUEST_END", "up", f)
      /\ conn[c].callback = (IF fetch[f].pc = "body" THEN None ELSE f)
      /\ conn[c].reader = None
  BY <1>1, <1>4 DEF Serves, Gone, Leaked
<1>6. wire[c] = [asked |-> <<f>>, sending |-> FALSE]
  BY <1>5, SilentAfter DEF Answering
<1>7. Head(<<f>>) = f
  OBVIOUS
<1>8. Head(wire[c].asked) = f
  BY <1>6, <1>7
<1> QED BY <1>3, <1>5, <1>6, <1>8

(* The fetch on a connection ends; it leaves the connection at rest. *)
LEMMA EndPair ==
  ASSUME PairInv, NEW f \in Fetches, NEW c \in Conns, OnlyAt(c), PendingOn(f, c),
         \A g \in Fetches \ {f} :
           fetch'[g].pc = fetch[g].pc /\ fetch'[g].conn = fetch[g].conn,
         fetch'[f].pc = "done", fetch'[f].conn = c,
         Rests(conn'[c], wire'[c])
  PROVE  PairInv'
<1>1. ~PendingOn(f, c)' /\ \A d \in Conns : ~PendingOn(f, d)'
  BY DEF PendingOn, Pending
<1>2. \A g \in Fetches, d \in Conns : PendingOn(g, d)' <=> g # f /\ PendingOn(g, d)
  BY <1>1 DEF PendingOn
<1>3. \A g \in Fetches : fetch'[g].pc \in Pending => fetch'[g].conn \in Conns
  BY DEF PairInv
<1>4. \A g, h \in Fetches, d \in Conns : PendingOn(g, d)' /\ PendingOn(h, d)' => g = h
  BY <1>2 DEF PairInv
<1>5. \A g \in Fetches, d \in Conns :
        PendingOn(g, d)' => Serves(conn'[d], wire'[d], g, fetch'[g].pc)
  <2> TAKE g \in Fetches, d \in Conns
  <2> HAVE PendingOn(g, d)'
  <2>1. g # f /\ PendingOn(g, d) /\ d # c
    BY <1>2 DEF PairInv
  <2>2. Serves(conn[d], wire[d], g, fetch[g].pc)
    BY <2>1 DEF PairInv
  <2> QED BY <2>1, <2>2 DEF OnlyAt
<1>6. \A d \in Conns : Unowned(d)' => Rests(conn'[d], wire'[d])
  <2> TAKE d \in Conns
  <2> HAVE Unowned(d)'
  <2>1. CASE d = c
    BY <2>1
  <2>2. CASE d # c
    <3>1. Unowned(d)
      BY <1>2, <2>2 DEF Unowned, PendingOn
    <3>2. Rests(conn[d], wire[d])
      BY <3>1 DEF PairInv
    <3> QED BY <2>2, <3>2 DEF OnlyAt
  <2> QED BY <2>1, <2>2
<1> QED BY <1>3, <1>4, <1>5, <1>6 DEF PairInv

LEMMA ReplyHeadStep ==
  ASSUME FetchInv, NEW c \in Conns, NEW hasBody \in BOOLEAN, NEW keep \in BOOLEAN,
         ReplyHead(c, hasBody, keep)
  PROVE  FetchInv'
<1>1. /\ conn[c].socket = "up" /\ wire[c].asked # <<>> /\ ~wire[c].sending
      /\ UNCHANGED <<pool, checkTimer>>
      /\ wire' = [wire EXCEPT ![c] =
           IF conn'[c].socket = "none" THEN Silent
           ELSE IF hasBody THEN [wire[c] EXCEPT !.sending = TRUE]
           ELSE [wire[c] EXCEPT !.asked = Tail(wire[c].asked)]]
  BY DEF ReplyHead
<1>2. PICK f \in Fetches :
        /\ PendingOn(f, c) /\ fetch[f].pc \in {"body", "response"}
        /\ InUse(conn[c], IF fetch[f].pc = "body" THEN "REQUEST_START"
                                                  ELSE "REQUEST_END", "up", f)
        /\ conn[c].callback = (IF fetch[f].pc = "body" THEN None ELSE f)
        /\ conn[c].reader = None
        /\ wire[c] = [asked |-> <<f>>, sending |-> FALSE]
        /\ Head(wire[c].asked) = f
  BY <1>1, ReplyTo
<1>3. /\ [wire[c] EXCEPT !.sending = TRUE] = Receiving(f)
      /\ [wire[c] EXCEPT !.asked = Tail(wire[c].asked)] = Silent
      /\ Silent \in WireType /\ Receiving(f) \in WireType
  <2>1. wire[c] \in WireType /\ wire[c].asked = <<f>> /\ wire[c].sending = FALSE
    <3>1. wire[c] \in WireType
      BY TypeParts DEF FetchInv
    <3>2. wire[c] = [asked |-> <<f>>, sending |-> FALSE]
      BY <1>2
    <3> QED BY <3>1, <3>2
  <2>2. Tail(<<f>>) = <<>>
    OBVIOUS
  <2>3. [wire[c] EXCEPT !.sending = TRUE] = [asked |-> <<f>>, sending |-> TRUE]
    BY <2>1, WireSending, Zenon
  <2>4. [wire[c] EXCEPT !.asked = <<>>] = [asked |-> <<>>, sending |-> FALSE]
    BY <2>1, WireAsked, Zenon
  <2> QED BY <2>1, <2>2, <2>3, <2>4, SilentAfter DEF Receiving, Silent
<1> DEFINE w == IF conn'[c].socket = "none" THEN Silent
                ELSE IF hasBody THEN Receiving(f) ELSE Silent
<1>4. /\ wire' = [wire EXCEPT ![c] = w] /\ wire'[c] = w
      /\ wire' \in [Conns -> WireType]
      /\ \A d \in Conns \ {c} : wire'[d] = wire[d]
  <2>1. wire' = [wire EXCEPT ![c] = w] /\ w \in WireType
    BY <1>1, <1>3
  <2> HIDE DEF w
  <2> QED BY <2>1, TypeParts DEF FetchInv
<1>5. c \in pool
  BY <1>2 DEF InUse, FetchInv, PoolInv
<1>6. CASE ~(conn[c].context /\ conn[c].state = "REQUEST_END")
  <2>1. UNCHANGED <<conn, fetch>>
    BY <1>6 DEF ReplyHead
  <2>2. TypeOK'
    BY <1>1, <1>4, <2>1, TypeParts DEF FetchInv
  <2>3. OnlyAt(c)
    BY <1>4, <2>1 DEF OnlyAt
  <2>4. Serves(conn'[c], wire'[c], f, fetch[f].pc)
    BY <1>2, <1>4, <2>1 DEF Serves, Answering
  <2>5. PairInv'
    <3>1. \A g \in Fetches : PendingOn(g, c) => g = f
      BY <1>2 DEF FetchInv, PairInv
    <3> QED BY <1>2, <2>1, <2>3, <2>4, <3>1, StayPair DEF FetchInv, Unowned
  <2>6. PoolInv' /\ ReadInv' /\ AgeInv' /\ OwnResponse'
    BY <1>1, <2>1 DEF PoolInv, ReadInv, AgeInv, OwnResponse, FetchInv
  <2> QED BY <2>2, <2>5, <2>6 DEF FetchInv
<1>7. CASE conn[c].context /\ conn[c].state = "REQUEST_END"
  <2> DEFINE rd == IF hasBody THEN conn[c].callback ELSE None
             ka == conn[c].isKeepAlive /\ keep
             r1 == [conn[c] EXCEPT !.state = "RESPONSE_START"]
             r2 == [r1 EXCEPT !.callback = None]
             r3 == [r2 EXCEPT !.isKeepAlive = ka]
             r4 == [r3 EXCEPT !.old = FALSE]
             r  == [r4 EXCEPT !.reader = rd]
             cs == [conn EXCEPT ![c].state = "RESPONSE_START", ![c].callback = None,
                         ![c].isKeepAlive = conn[c].isKeepAlive /\ keep, ![c].old = FALSE,
                         ![c].reader = IF hasBody THEN conn[c].callback
                                       ELSE None]
             bd == IF hasBody THEN "open" ELSE fetch[f].body
             fs == [fetch EXCEPT ![f].pc = "done", ![f].answer = f, ![f].body = bd]
  <2>1. fetch[f].pc = "response" /\ conn[c].callback = f
    BY <1>2, <1>7 DEF InUse
  <2>2. IF hasBody THEN conn' = cs /\ fetch' = fs ELSE ResponseEnds(c, cs, fs)
    BY <1>2, <1>7, <2>1, NoneApart DEF ReplyHead
  <2>3. cs = [conn EXCEPT ![c] = r]
    OBVIOUS
  <2>4. /\ r1 \in ConnType /\ r1.state = "RESPONSE_START" /\ r1.socket = "up"
        /\ r1.context /\ r1.request = f
    <3>1. conn[c] \in ConnType /\ "RESPONSE_START" \in States
      BY TypeParts DEF FetchInv, States
    <3>2. r1 \in ConnType
      BY <3>1, FieldTypes
    <3> QED BY <1>2, <3>1, <3>2 DEF InUse, ConnType
  <2> HIDE DEF r1
  <2>5. /\ r2 \in ConnType /\ r2.state = "RESPONSE_START" /\ r2.socket = "up"
        /\ r2.context /\ r2.request = f /\ r2.callback = None
    <3>1. r2 \in ConnType
      BY <2>4, FieldTypes
    <3> QED BY <2>4, <3>1 DEF ConnType
  <2> HIDE DEF r2
  <2>6. /\ r3 \in ConnType /\ r3.state = "RESPONSE_START" /\ r3.socket = "up"
        /\ r3.context /\ r3.request = f /\ r3.callback = None
    <3>1. ka \in BOOLEAN
      OBVIOUS
    <3> HIDE DEF ka
    <3>2. r3 \in ConnType
      BY <2>5, <3>1, FieldTypes
    <3> QED BY <2>5, <3>2 DEF ConnType
  <2> HIDE DEF r3
  <2>7. /\ r4 \in ConnType /\ r4.state = "RESPONSE_START" /\ r4.socket = "up"
        /\ r4.context /\ r4.request = f /\ r4.callback = None
    <3>1. r4 \in ConnType
      BY <2>6, FieldTypes
    <3> QED BY <2>6, <3>1 DEF ConnType
  <2> HIDE DEF r4
  <2>8. /\ r \in ConnType /\ InUse(r, "RESPONSE_START", "up", f)
        /\ r.callback = None /\ r.reader = rd
    <3>1. rd \in Fetches \cup {None}
      BY <2>1
    <3> HIDE DEF rd
    <3>2. r \in ConnType
      BY <2>7, <3>1, FieldTypes
    <3> QED BY <2>7, <3>1, <3>2 DEF ConnType, InUse
  <2> HIDE DEF r, cs
  <2>9. /\ cs \in [Conns -> ConnType] /\ cs[c] = r
        /\ \A d \in Conns \ {c} : cs[d] = conn[d]
    BY <2>3, <2>8, TypeParts DEF FetchInv
  <2>10. /\ fs \in [Fetches -> FetchType]
         /\ fs[f].pc = "done" /\ fs[f].conn = c /\ fs[f].answer = f
         /\ fs[f].body = bd
         /\ \A g \in Fetches \ {f} : fs[g] = fetch[g]
    <3>1. [fetch[f] EXCEPT !.pc = "done", !.answer = f, !.body = bd] \in FetchType
      <4>1. fetch[f] \in FetchType /\ "done" \in Pcs /\ f \in Answers
        BY TypeParts DEF FetchInv, Pcs, Answers
      <4>2. bd \in Bodies
        BY <4>1 DEF Bodies, FetchType
      <4> HIDE DEF bd
      <4> QED BY <4>1, <4>2, DoneType, Zenon
    <3>2. fs = [fetch EXCEPT ![f] =
                  [fetch[f] EXCEPT !.pc = "done", !.answer = f, !.body = bd]]
      OBVIOUS
    <3>3. fetch[f].conn = c
      BY <1>2 DEF PendingOn
    <3> HIDE DEF bd
    <3> QED BY <3>1, <3>2, <3>3, TypeParts DEF FetchInv, FetchType
  <2> HIDE DEF fs
  <2>11. /\ conn' \in [Conns -> ConnType] /\ fetch' \in [Fetches -> FetchType]
         /\ \A d \in Conns \ {c} : conn'[d] = conn[d]
         /\ \A g \in Fetches : /\ fetch'[g].pc = fs[g].pc /\ fetch'[g].conn = fs[g].conn
                               /\ fetch'[g].answer = fs[g].answer
                               /\ fetch'[g].body = fs[g].body
         /\ IF hasBody THEN conn'[c] = r ELSE Ended(conn'[c])
    <3>1. CASE hasBody
      BY <2>2, <2>9, <2>10, <3>1
    <3>2. CASE ~hasBody
      <4>1. ResponseEnds(c, cs, fs) /\ cs[c].reader = None
        BY <2>2, <2>8, <2>9, <3>2
      <4>2. cs[c].context /\ cs[c].socket = "up" /\ cs[c].callback = None
        BY <2>8, <2>9 DEF InUse
      <4> HIDE DEF rd
      <4> QED BY <2>9, <2>10, <3>2, <4>1, <4>2, ResponseEndsFacts, NoneApart DEF FetchInv
    <3> QED BY <3>1, <3>2
  <2>12. TypeOK'
    BY <1>1, <1>4, <2>11, TypeParts DEF FetchInv
  <2>13. OnlyAt(c)
    BY <1>4, <2>11 DEF OnlyAt
  <2>14. Rests(conn'[c], wire'[c])
    <3>1. CASE hasBody
      <4>1. conn'[c] = r /\ rd = f
        BY <2>1, <2>11, <3>1
      <4>2. wire'[c] = Receiving(f)
        BY <1>4, <2>8, <3>1, <4>1 DEF InUse
      <4> QED BY <2>8, <4>1, <4>2 DEF Rests
    <3>2. CASE ~hasBody
      BY <1>4, <2>11, <3>2 DEF Ended, Rests, Blank, Gone
    <3> QED BY <3>1, <3>2
  <2>15. PairInv'
    <3>1. \A g \in Fetches \ {f} : fetch'[g].pc = fetch[g].pc /\ fetch'[g].conn = fetch[g].conn
      BY <2>10, <2>11
    <3>2. fetch'[f].pc = "done" /\ fetch'[f].conn = c
      BY <2>10, <2>11
    <3> QED BY <1>2, <2>13, <2>14, <3>1, <3>2, EndPair DEF FetchInv
  <2>16. PoolInv'
    BY <1>1, <1>5, <2>13 DEF PoolInv, FetchInv, OnlyAt
  <2>17. ReadInv'
    <3> SUFFICES ASSUME NEW g \in Fetches, fetch'[g].body = "open"
                 PROVE  \E d \in Conns : conn'[d].reader = g
      BY DEF ReadInv
    <3>1. CASE g = f /\ hasBody
      BY <2>1, <2>8, <2>11, <3>1
    <3>2. CASE ~(g = f /\ hasBody)
      <4>1. fetch[g].body = "open"
        BY <2>10, <2>11, <3>2
      <4>2. PICK d \in Conns : conn[d].reader = g
        BY <4>1 DEF FetchInv, ReadInv
      <4>3. d # c
        BY <1>2, <4>2, NoneApart
      <4> QED BY <2>11, <4>2, <4>3
    <3> QED BY <3>1, <3>2
  <2>18. AgeInv'
    BY <2>8, <2>11, <2>13 DEF AgeInv, FetchInv, OnlyAt, Ended, InUse
  <2>19. OwnResponse'
    BY <2>10, <2>11 DEF OwnResponse, FetchInv
  <2> QED BY <2>12, <2>15, <2>16, <2>17, <2>18, <2>19 DEF FetchInv
<1> QED BY <1>6, <1>7

LEMMA AgePasses ==
  ASSUME FetchInv, NEW c \in Conns, Age(c)
  PROVE  FetchInv'
BY AgeStep DEF Age
-----------------------------------------------------------------------------
(* The invariant *)

LEMMA FetchInit == Init => FetchInv
<1> SUFFICES ASSUME Init PROVE FetchInv
  OBVIOUS
<1>1. NewConnection \in ConnType /\ Silent \in WireType
  BY DEF NewConnection, ConnType, States, Silent, WireType
<1>2. TypeOK
  <2>1. [pc |-> "new", conn |-> None, answer |-> "none", body |-> "none"] \in FetchType
    BY DEF FetchType
  <2> QED BY <1>1, <2>1, TypeParts DEF Init
<1>3. \A f \in Fetches : /\ fetch[f].pc = "new" /\ fetch[f].body = "none"
                         /\ fetch[f].answer = "none"
  BY DEF Init
<1>4. \A c \in Conns : conn[c] = NewConnection /\ wire[c] = Silent
  BY DEF Init
<1>5. PairInv
  <2>1. \A f \in Fetches : fetch[f].pc \notin Pending /\ \A c \in Conns : ~PendingOn(f, c)
    BY <1>3 DEF PendingOn, Pending
  <2>2. \A c \in Conns : Rests(conn[c], wire[c])
    BY <1>4 DEF Rests, InUse, Blank, NewConnection
  <2> QED BY <2>1, <2>2 DEF PairInv
<1>6. PoolInv /\ ReadInv /\ AgeInv /\ OwnResponse
  BY <1>3, <1>4, NoneApart DEF PoolInv, ReadInv, AgeInv, OwnResponse, NewConnection
<1> QED BY <1>2, <1>5, <1>6 DEF FetchInv

LEMMA FetchNext == FetchInv /\ [Next]_vars => FetchInv'
<1> SUFFICES ASSUME FetchInv, [Next]_vars PROVE FetchInv'
  OBVIOUS
<1>1. ASSUME NEW f \in Fetches, Call(f) PROVE FetchInv'
  BY <1>1, ReuseStep, NewFetchStep DEF Call
<1>2. ASSUME NEW f \in Fetches, SendRequest(f) PROVE FetchInv'
  BY <1>2, SendRequestStep
<1>3. ASSUME NEW f \in Fetches, Lookup(f) PROVE FetchInv'
  BY <1>3, LookupDoneStep, FailStep DEF Lookup, LookupFailed, At, Pending
<1>4. ASSUME NEW f \in Fetches, Connect(f) PROVE FetchInv'
  BY <1>4, ConnectedStep, FailStep DEF Connect, ConnectFailed, At, Pending
<1>5. ASSUME NEW f \in Fetches, Write(f) PROVE FetchInv'
  BY <1>5, HeadWrittenStep, BodyWrittenStep, FailStep DEF Write, WriteFailed, Pending
<1>6. ASSUME NEW c \in Conns, Server(c) PROVE FetchInv'
  BY <1>6, ReplyHeadStep, ReplyDataStep, ReplyEndStep, SocketEndsStep DEF Server
<1>7. ASSUME NEW c \in Conns, Age(c) PROVE FetchInv'
  BY <1>7, AgePasses
<1>8. CASE CheckTimer
  BY <1>8, CheckTimerStep
<1>9. CASE CloseIdleConnections
  BY <1>9, CloseIdleStep
<1>10. CASE Close
  BY <1>10, CloseManagerStep
<1>11. CASE UNCHANGED vars
  BY <1>11 DEF vars, FetchInv, TypeOK, PairInv, PoolInv, ReadInv, AgeInv, OwnResponse,
               PendingOn, Unowned
<1> QED BY <1>1, <1>2, <1>3, <1>4, <1>5, <1>6, <1>7, <1>8, <1>9, <1>10, <1>11 DEF Next

LEMMA FetchSafe == Spec => []FetchInv
<1> QED BY FetchInit, FetchNext, PTL DEF Spec
-----------------------------------------------------------------------------
(* The refinement of RequestReply                                          *)

(* Who is not done has no answer. *)
AnswerInv == \A f \in Fetches : fetch[f].pc # "done" => fetch[f].answer = "none"

CallerInv == FetchInv /\ AnswerInv

CallerStep == [Caller!Next]_(Caller!vars) /\ AnswerInv'

Still(g) == fetch'[g].pc = fetch[g].pc /\ fetch'[g].answer = fetch[g].answer

Lost(g) == /\ fetch[g].pc \in Pending /\ fetch'[g].pc = "done"
           /\ fetch'[g].answer \in {"null", "error"}

Before == {"lookup", "tcp", "ready", "head"}
After  == {"body", "response"}

LEMMA Stages ==
  ASSUME NEW f \in Fetches
  PROVE  /\ fetch[f].pc = "new" => Stage(f) = "new"
         /\ fetch[f].pc \in Before => Stage(f) = "made"
         /\ fetch[f].pc \in After => Stage(f) = "sent"
         /\ fetch[f].pc = "done" /\ fetch[f].answer \in Fetches => Stage(f) = "replied"
         /\ fetch[f].pc = "done" /\ fetch[f].answer \notin Fetches => Stage(f) = "failed"
BY DEF Stage, At, Before, After

LEMMA StagesNext ==
  ASSUME NEW f \in Fetches
  PROVE  /\ fetch'[f].pc \in Before => Stage(f)' = "made"
         /\ fetch'[f].pc \in After => Stage(f)' = "sent"
         /\ fetch'[f].pc = "done" /\ fetch'[f].answer \in Fetches => Stage(f)' = "replied"
         /\ fetch'[f].pc = "done" /\ fetch'[f].answer \notin Fetches => Stage(f)' = "failed"
BY DEF Stage, At, Before, After

LEMMA StageSame ==
  ASSUME NEW f \in Fetches, Still(f)
  PROVE  Stage(f)' = Stage(f) /\ {fetch'[f].answer} \cap Fetches = {fetch[f].answer} \cap Fetches
BY DEF Still, Stage, At

LEMMA CallerPrimed ==
  /\ [f \in Fetches |-> Stage(f)]' = [f \in Fetches |-> Stage(f)']
  /\ [f \in Fetches |-> {fetch[f].answer} \cap Fetches]'
       = [f \in Fetches |-> {fetch'[f].answer} \cap Fetches]
OBVIOUS

(* Fetches fail, or nothing is to be seen. *)
LEMMA CallerFails ==
  ASSUME AnswerInv, \A g \in Fetches : Still(g) \/ Lost(g)
  PROVE  CallerStep
<1> DEFINE S == {g \in Fetches : ~Still(g)}
           stages == [g \in Fetches |-> Stage(g)]
<1>1. ASSUME NEW g \in S
      PROVE  /\ stages[g] \in {"made", "sent"} /\ Stage(g)' = "failed"
             /\ {fetch'[g].answer} \cap Fetches = {} /\ {fetch[g].answer} \cap Fetches = {}
  <2>1. Lost(g) /\ g \in Fetches /\ stages[g] = Stage(g)
    OBVIOUS
  <2>2. fetch[g].pc \in Before \cup After /\ fetch[g].answer = "none"
    BY <2>1 DEF Lost, Pending, Before, After, AnswerInv
  <2> QED BY <2>1, <2>2, Stages, StagesNext, NoneApart DEF Lost
<1>2. \A g \in Fetches \ S :
        Stage(g)' = Stage(g) /\ {fetch'[g].answer} \cap Fetches = {fetch[g].answer} \cap Fetches
  BY StageSame
<1>3. [g \in Fetches |-> Stage(g)'] = [g \in Fetches |-> IF g \in S THEN "failed" ELSE stages[g]]
  BY <1>1, <1>2
<1>4. [g \in Fetches |-> {fetch'[g].answer} \cap Fetches]
        = [g \in Fetches |-> {fetch[g].answer} \cap Fetches]
  BY <1>1, <1>2
<1>5. Caller!Fail(S)
  BY <1>1, <1>3, <1>4, CallerPrimed DEF Caller!Fail
<1>6. AnswerInv'
  BY DEF AnswerInv, Still, Lost
<1>7. S \in SUBSET Fetches
  OBVIOUS
<1> QED BY <1>5, <1>6, <1>7 DEF CallerStep, Caller!Next

(* A fetch goes on, with no answer yet. *)
LEMMA CallerMoves ==
  ASSUME AnswerInv, NEW f \in Fetches, \A g \in Fetches \ {f} : Still(g),
         fetch'[f].answer = fetch[f].answer,
         \/ fetch[f].pc = "new" /\ fetch'[f].pc \in Before
         \/ fetch[f].pc \in Before /\ fetch'[f].pc \in Before \cup After
         \/ fetch[f].pc \in After /\ fetch'[f].pc \in After
  PROVE  CallerStep
<1>1. \A g \in Fetches \ {f} : Stage(g)' = Stage(g)
  BY StageSame
<1>2. [g \in Fetches |-> {fetch'[g].answer} \cap Fetches]
        = [g \in Fetches |-> {fetch[g].answer} \cap Fetches]
  BY DEF Still
<1>3. [g \in Fetches |-> Stage(g)'] = [[g \in Fetches |-> Stage(g)] EXCEPT ![f] = Stage(f)']
  BY <1>1
<1>4. \/ Stage(f) = "new" /\ Stage(f)' = "made"
      \/ Stage(f) = "made" /\ Stage(f)' = "sent"
      \/ Stage(f)' = Stage(f)
  BY Stages, StagesNext
<1>5. [Caller!Next]_(Caller!vars)
  <2>1. CASE Stage(f)' = Stage(f)
    <3>1. [g \in Fetches |-> Stage(g)'] = [g \in Fetches |-> Stage(g)]
      BY <1>1, <2>1
    <3> QED BY <1>2, <3>1, CallerPrimed DEF Caller!vars
  <2>2. CASE Stage(f) = "new" /\ Stage(f)' = "made"
    BY <1>2, <1>3, <2>2, CallerPrimed DEF Caller!Next, Caller!Make, Caller!Moves
  <2>3. CASE Stage(f) = "made" /\ Stage(f)' = "sent"
    BY <1>2, <1>3, <2>3, CallerPrimed DEF Caller!Next, Caller!Send, Caller!Moves
  <2> QED BY <1>4, <2>1, <2>2, <2>3
<1>6. AnswerInv'
  BY DEF AnswerInv, Still, Before, After
<1> QED BY <1>5, <1>6 DEF CallerStep

(* A fetch gets the response to its request. *)
LEMMA CallerReplied ==
  ASSUME AnswerInv, NEW f \in Fetches, \A g \in Fetches \ {f} : Still(g),
         fetch[f].pc = "response", fetch'[f].pc = "done", fetch'[f].answer = f
  PROVE  CallerStep
<1>1. \A g \in Fetches \ {f} :
        Stage(g)' = Stage(g) /\ {fetch'[g].answer} \cap Fetches = {fetch[g].answer} \cap Fetches
  BY StageSame
<1>2. Stage(f) = "sent" /\ Stage(f)' = "replied"
  BY Stages, StagesNext DEF After
<1>3. [g \in Fetches |-> Stage(g)']
        = [[g \in Fetches |-> Stage(g)] EXCEPT ![f] = "replied"]
  BY <1>1, <1>2
<1>4. [g \in Fetches |-> {fetch'[g].answer} \cap Fetches]
        = [[g \in Fetches |-> {fetch[g].answer} \cap Fetches] EXCEPT ![f] = {f}]
  BY <1>1
<1>5. Caller!Reply(f)
  BY <1>2, <1>3, <1>4, CallerPrimed DEF Caller!Reply, Caller!Moves
<1>6. AnswerInv'
  BY DEF AnswerInv, Still
<1> QED BY <1>5, <1>6 DEF CallerStep, Caller!Next

LEMMA CallerRejects ==
  ASSUME CallerInv, NEW f \in Fetches, fetch[f].pc \in Pending, fetch' = Rejected(f)
  PROVE  CallerStep
BY RejectedType, CallerFails DEF CallerInv, FetchInv, Still, Lost

(* close() of connections, after a throw of f or without one. *)
LEMMA CallerCloses ==
  ASSUME CallerInv, NEW S \in SUBSET Conns, NEW fs \in [Fetches -> FetchType],
         fetch' = EndFetches(fs, S),
         \A g \in Fetches :
           \/ fs[g] = fetch[g]
           \/ fetch[g].pc \in Pending /\ fs[g].pc = "done" /\ fs[g].answer = "error"
  PROVE  CallerStep
<1>1. \A g \in Fetches :
        /\ fetch'[g].pc = IF Waits(g, S) THEN "done" ELSE fs[g].pc
        /\ fetch'[g].answer = IF Waits(g, S) THEN "null" ELSE fs[g].answer
  BY EndFetchesFacts
<1>2. ASSUME NEW g \in Fetches PROVE Still(g) \/ Lost(g)
  <2>1. CASE Waits(g, S)
    <3>1. fetch[g].pc \in Pending
      BY <2>1, CallbackWaits DEF Waits, CallerInv, FetchInv, Pending
    <3> QED BY <1>1, <2>1, <3>1 DEF Lost
  <2>2. CASE ~Waits(g, S)
    BY <1>1, <2>2 DEF Still, Lost
  <2> QED BY <2>1, <2>2
<1> QED BY <1>2, CallerFails DEF CallerInv

LEMMA CallerConnectionsClose ==
  ASSUME CallerInv, NEW S \in SUBSET Conns, fetch' = EndFetches(fetch, S)
  PROVE  CallerStep
<1>1. fetch \in [Fetches -> FetchType]
  BY TypeParts DEF CallerInv, FetchInv
<1> QED BY <1>1, CallerCloses

LEMMA CallerFail ==
  ASSUME CallerInv, NEW f \in Fetches, fetch[f].pc \in Pending, Fail(f)
  PROVE  CallerStep
<1>1. {fetch[f].conn} \in SUBSET Conns
  BY OwnerServed DEF CallerInv, FetchInv
<1>2. /\ Rejected(f) \in [Fetches -> FetchType]
      /\ Rejected(f)[f].pc = "done" /\ Rejected(f)[f].answer = "error"
      /\ \A g \in Fetches \ {f} : Rejected(f)[g] = fetch[g]
  BY RejectedType DEF CallerInv, FetchInv
<1>3. fetch' = EndFetches(Rejected(f), {fetch[f].conn})
  BY DEF Fail
<1> QED BY <1>1, <1>2, <1>3, CallerCloses

(* A change of pc, and of the connection, of one fetch. *)
LEMMA PcMoves ==
  ASSUME TypeOK, NEW f \in Fetches, NEW pc,
         \/ fetch' = [fetch EXCEPT ![f].pc = pc]
         \/ \E c \in Conns : fetch' = [fetch EXCEPT ![f].pc = pc, ![f].conn = c]
  PROVE  /\ fetch'[f].pc = pc /\ fetch'[f].answer = fetch[f].answer
         /\ \A g \in Fetches \ {f} : Still(g)
<1>1. fetch \in [Fetches -> FetchType]
  BY TypeParts
<1>2. CASE fetch' = [fetch EXCEPT ![f].pc = pc]
  BY <1>1, <1>2 DEF FetchType, Still
<1>3. ASSUME NEW c \in Conns, fetch' = [fetch EXCEPT ![f].pc = pc, ![f].conn = c]
      PROVE  /\ fetch'[f].pc = pc /\ fetch'[f].answer = fetch[f].answer
             /\ \A g \in Fetches \ {f} : Still(g)
  <2> DEFINE r1 == [fetch[f] EXCEPT !.pc = pc]
             r2 == [r1 EXCEPT !.conn = c]
  <2>1. fetch' = [fetch EXCEPT ![f] = r2]
    BY <1>3
  <2>2. r1.pc = pc /\ r1.answer = fetch[f].answer /\ DOMAIN r1 = {"pc", "conn", "answer", "body"}
    BY <1>1 DEF FetchType
  <2> HIDE DEF r1
  <2>3. r2.pc = pc /\ r2.answer = fetch[f].answer
    BY <2>2
  <2> HIDE DEF r2
  <2> QED BY <1>1, <2>1, <2>3 DEF Still
<1> QED BY <1>2, <1>3

(* The end of a response is nothing to those who wait. *)
LEMMA EndsQuietly ==
  ASSUME NEW fs \in [Fetches -> FetchType], NEW c, NEW cs, ResponseEnds(c, cs, fs)
  PROVE  \A g \in Fetches : fetch'[g].pc = fs[g].pc /\ fetch'[g].answer = fs[g].answer
<1>1. CASE fetch' = fs
  BY <1>1
<1>2. CASE fetch' = [fs EXCEPT ![cs[c].reader].body = "whole"]
  <2> DEFINE r == cs[c].reader
  <2>1. fetch' = [fs EXCEPT ![r] = [fs[r] EXCEPT !.body = "whole"]]
    BY <1>2
  <2> HIDE DEF r
  <2> QED BY <2>1 DEF FetchType
<1> QED BY <1>1, <1>2 DEF ResponseEnds

(* A response begins, for the fetch that waits for it (fetch.js:1594-1603). *)
LEMMA CallerReplyHead ==
  ASSUME CallerInv, NEW c \in Conns, NEW hasBody \in BOOLEAN,
         NEW keep \in BOOLEAN, ReplyHead(c, hasBody, keep)
  PROVE  CallerStep
<1>1. FetchInv /\ AnswerInv
  BY DEF CallerInv
<1>2. CASE ~(conn[c].context /\ conn[c].state = "REQUEST_END")
  <2>1. fetch' = fetch
    BY <1>2 DEF ReplyHead
  <2> QED BY <1>1, <2>1, CallerFails DEF Still
<1>3. CASE conn[c].context /\ conn[c].state = "REQUEST_END"
  <2>1. conn[c].socket = "up" /\ wire[c].asked # <<>> /\ ~wire[c].sending
    BY DEF ReplyHead
  <2>2. PICK f \in Fetches :
          /\ PendingOn(f, c) /\ fetch[f].pc \in {"body", "response"}
          /\ InUse(conn[c], IF fetch[f].pc = "body" THEN "REQUEST_START"
                                                    ELSE "REQUEST_END", "up", f)
          /\ conn[c].callback = (IF fetch[f].pc = "body" THEN None ELSE f)
          /\ Head(wire[c].asked) = f
    BY <1>1, <2>1, ReplyTo
  <2>3. fetch[f].pc = "response" /\ conn[c].callback = f
    BY <1>3, <2>2 DEF InUse
  <2> DEFINE bd == IF hasBody THEN "open" ELSE fetch[f].body
             fs == [fetch EXCEPT ![f].pc = "done", ![f].answer = f, ![f].body = bd]
  <2>4. fetch' = fs \/ \E cs : ResponseEnds(c, cs, fs)
    BY <1>3, <2>2, <2>3, NoneApart DEF ReplyHead
  <2>5. /\ fs \in [Fetches -> FetchType]
        /\ fs[f].pc = "done" /\ fs[f].answer = f
        /\ \A g \in Fetches \ {f} : fs[g] = fetch[g]
    <3>1. /\ fetch \in [Fetches -> FetchType] /\ fetch[f] \in FetchType
          /\ "done" \in Pcs /\ f \in Answers
      BY <1>1, TypeParts DEF FetchInv, Pcs, Answers
    <3>2. bd \in Bodies
      BY <3>1 DEF Bodies, FetchType
    <3>3. fs = [fetch EXCEPT ![f] =
                  [fetch[f] EXCEPT !.pc = "done", !.answer = f, !.body = bd]]
      OBVIOUS
    <3> HIDE DEF bd
    <3>4. [fetch[f] EXCEPT !.pc = "done", !.answer = f, !.body = bd] \in FetchType
      BY <3>1, <3>2, DoneType, Zenon
    <3> QED BY <3>1, <3>3, <3>4 DEF FetchType
  <2> HIDE DEF fs
  <2>6. \A g \in Fetches : fetch'[g].pc = fs[g].pc /\ fetch'[g].answer = fs[g].answer
    BY <2>4, <2>5, EndsQuietly
  <2> QED BY <1>1, <2>3, <2>5, <2>6, CallerReplied DEF Still
<1> QED BY <1>2, <1>3

LEMMA CallerReplyEnd ==
  ASSUME CallerInv, NEW c \in Conns, ReplyEnd(c)
  PROVE  CallerStep
<1>1. fetch \in [Fetches -> FetchType] /\ AnswerInv
  BY TypeParts DEF CallerInv, FetchInv
<1>2. \A g \in Fetches : fetch'[g].pc = fetch[g].pc /\ fetch'[g].answer = fetch[g].answer
  BY <1>1, EndsQuietly DEF ReplyEnd
<1> QED BY <1>1, <1>2, CallerFails DEF Still

LEMMA CallerInit == Init => AnswerInv /\ Caller!Init
<1> SUFFICES ASSUME Init PROVE AnswerInv /\ Caller!Init
  OBVIOUS
<1>1. \A f \in Fetches : fetch[f].pc = "new" /\ fetch[f].answer = "none"
  BY DEF Init
<1>2. \A f \in Fetches : Stage(f) = "new" /\ {fetch[f].answer} \cap Fetches = {}
  BY <1>1, Stages, NoneApart
<1>3. /\ [f \in Fetches |-> Stage(f)] = [f \in Fetches |-> "new"]
      /\ [f \in Fetches |-> {fetch[f].answer} \cap Fetches] = [f \in Fetches |-> {}]
  BY <1>2
<1> QED BY <1>1, <1>3 DEF AnswerInv, Caller!Init

LEMMA CallerNext == CallerInv /\ FetchInv' /\ [Next]_vars => CallerStep
<1> SUFFICES ASSUME CallerInv, FetchInv', [Next]_vars PROVE CallerStep
  OBVIOUS
<1>0. TypeOK /\ AnswerInv
  BY DEF CallerInv, FetchInv
<1>1. ASSUME NEW f \in Fetches, Call(f) PROVE CallerStep
  <2>1. PICK pc \in {"ready", "lookup"}, c \in Conns :
          fetch[f].pc = "new" /\ fetch' = [fetch EXCEPT ![f].pc = pc, ![f].conn = c]
    BY <1>1 DEF Call, Reuse, NewFetch, At
  <2> QED BY <1>0, <2>1, PcMoves, CallerMoves DEF Before
<1>2. ASSUME NEW f \in Fetches, SendRequest(f) PROVE CallerStep
  <2>1. CASE fetch' = Rejected(f)
    BY <1>2, <2>1, CallerRejects DEF SendRequest, At, Pending
  <2>2. CASE fetch' # Rejected(f)
    <3>1. fetch[f].pc = "ready" /\ fetch' = [fetch EXCEPT ![f].pc = "head"]
      BY <1>2, <2>2 DEF SendRequest, StartRequest, At
    <3> QED BY <1>0, <3>1, PcMoves, CallerMoves DEF Before
  <2> QED BY <2>1, <2>2
<1>3. ASSUME NEW f \in Fetches, Lookup(f) PROVE CallerStep
  <2>1. CASE LookupDone(f)
    <3>1. fetch[f].pc = "lookup" /\ fetch' = [fetch EXCEPT ![f].pc = "tcp"]
      BY <2>1 DEF LookupDone, At
    <3> QED BY <1>0, <3>1, PcMoves, CallerMoves DEF Before
  <2>2. CASE LookupFailed(f)
    BY <2>2, CallerFail DEF LookupFailed, At, Pending
  <2> QED BY <1>3, <2>1, <2>2 DEF Lookup
<1>4. ASSUME NEW f \in Fetches, Connect(f) PROVE CallerStep
  <2>1. CASE Connected(f)
    <3>1. CASE fetch' = Rejected(f)
      BY <2>1, <3>1, CallerRejects DEF Connected, At, Pending
    <3>2. CASE fetch' # Rejected(f)
      <4>1. fetch[f].pc = "tcp" /\ fetch' = [fetch EXCEPT ![f].pc = "head"]
        BY <2>1, <3>2 DEF Connected, StartRequest, At
      <4> QED BY <1>0, <4>1, PcMoves, CallerMoves DEF Before
    <3> QED BY <3>1, <3>2
  <2>2. CASE ConnectFailed(f)
    BY <2>2, CallerFail DEF ConnectFailed, At, Pending
  <2> QED BY <1>4, <2>1, <2>2 DEF Connect
<1>5. ASSUME NEW f \in Fetches, Write(f) PROVE CallerStep
  <2>1. CASE HeadWritten(f)
    <3>1. PICK pc \in {"body", "response"} :
            fetch[f].pc = "head" /\ fetch' = [fetch EXCEPT ![f].pc = pc]
      BY <2>1 DEF HeadWritten, RequestSent, At
    <3> QED BY <1>0, <3>1, PcMoves, CallerMoves DEF Before, After
  <2>2. CASE BodyWritten(f)
    <3>1. fetch[f].pc = "body" /\ fetch' = [fetch EXCEPT ![f].pc = "response"]
      BY <2>2 DEF BodyWritten, RequestSent, At
    <3> QED BY <1>0, <3>1, PcMoves, CallerMoves DEF After
  <2>3. CASE WriteFailed(f)
    BY <2>3, CallerFail DEF WriteFailed, Pending
  <2> QED BY <1>5, <2>1, <2>2, <2>3 DEF Write
<1>6. ASSUME NEW c \in Conns, Server(c) PROVE CallerStep
  <2>1. CASE ReplyData(c)
    BY <1>0, <2>1, CallerFails DEF ReplyData, Still
  <2>2. CASE SocketEnds(c)
    BY <2>2, CallerConnectionsClose DEF SocketEnds
  <2> QED BY <1>6, <2>1, <2>2, CallerReplyHead, CallerReplyEnd DEF Server
<1>7. ASSUME NEW c \in Conns, Age(c) PROVE CallerStep
  BY <1>0, <1>7, CallerFails DEF Age, Still
<1>8. CASE CheckTimer \/ CloseIdleConnections \/ Close
  <2>1. pool \subseteq Conns
    BY <1>0 DEF TypeOK
  <2>2. PICK S \in SUBSET pool : CloseConnections(S)
    BY <1>8, Zenon DEF CheckTimer, CloseIdleConnections, Close
  <2> QED BY <2>1, <2>2, CallerConnectionsClose DEF CloseConnections
<1>9. CASE UNCHANGED vars
  BY <1>0, <1>9, CallerFails DEF vars, Still
<1> QED BY <1>1, <1>2, <1>3, <1>4, <1>5, <1>6, <1>7, <1>8, <1>9 DEF Next
-----------------------------------------------------------------------------
(* Theorems *)

(* The fields of every connection and fetch keep their types. *)
THEOREM TypeCorrect == Spec => []TypeOK
<1>1. FetchInv => TypeOK
  BY DEF FetchInv
<1> QED BY <1>1, FetchSafe, PTL

(* A fetch resolves to the response to its own request, on whatever        *)
(* connection, however late lookups are and however early the server       *)
(* answers (fetch.js:1594-1603, 1618-1630).                                *)
THEOREM ResponsesMatch == Spec => []OwnResponse
<1>1. FetchInv => OwnResponse
  BY DEF FetchInv
<1> QED BY <1>1, FetchSafe, PTL

(* A reader that waits for more of a body has a connection in the pool     *)
(* that receives it: no reader is left behind by a close or an expiry.     *)
THEOREM ReadersHaveConnection == Spec => []ReaderServed
<1>1. ASSUME FetchInv PROVE ReaderServed
  <2> SUFFICES ASSUME NEW f \in Fetches, fetch[f].body = "open"
               PROVE  \E c \in Conns :
                        /\ conn[c].reader = f /\ conn[c].request = f
                        /\ conn[c].state = "RESPONSE_START" /\ c \in pool
    BY DEF ReaderServed
  <2>1. PICK c \in Conns : conn[c].reader = f
    BY <1>1 DEF FetchInv, ReadInv
  <2>2. InUse(conn[c], "RESPONSE_START", "up", f)
    BY <1>1, <2>1, ReaderRests DEF FetchInv
  <2>3. c \in pool
    BY <1>1, <2>2 DEF InUse, FetchInv, PoolInv
  <2> QED BY <2>1, <2>2, <2>3 DEF InUse
<1> QED BY <1>1, FetchSafe, PTL

(* Where no lookup outlasts the expiry timer and nobody closes the pool    *)
(* during one, every open socket is in the pool or in the hands of a       *)
(* fetch that is still sending on it (fetch.js:916-977).                   *)
THEOREM SocketsKnown ==
  ASSUME LateLookup = FALSE
  PROVE  Spec => []NoLostSocket
<1>1. ASSUME FetchInv PROVE NoLostSocket
  <2> SUFFICES ASSUME NEW c \in Conns, conn[c].socket # "none", Unowned(c)
               PROVE  c \in pool
    BY DEF NoLostSocket, Unowned, PendingOn
  <2>1. Rests(conn[c], wire[c])
    BY <1>1 DEF FetchInv, PairInv
  <2>2. conn[c].context /\ conn[c].state # "INIT"
    BY <2>1 DEF Rests, InUse, Gone, Leaked
  <2> QED BY <1>1, <2>2 DEF FetchInv, PoolInv
<1> QED BY <1>1, FetchSafe, PTL

(* A request is written only to a connection on which the server owes      *)
(* nothing and no other fetch waits or reads: a connection that was kept   *)
(* is clean when it is used again (fetch.js:1122-1166, 1594).              *)
THEOREM ReuseIsClean == Spec => []CleanReuse
<1>1. ASSUME FetchInv PROVE CleanReuse
  <2> SUFFICES ASSUME NEW f \in Fetches, fetch[f].pc \in {"ready", "head"},
                      conn[fetch[f].conn].socket = "up"
               PROVE  LET c == fetch[f].conn IN
                      /\ wire[c] = Silent /\ conn[c].callback = None /\ conn[c].reader = None
                      /\ \A g \in Fetches \ {f} : fetch[g].pc \in Pending => fetch[g].conn # c
    BY DEF CleanReuse
  <2>1. /\ fetch[f].conn \in Conns /\ PendingOn(f, fetch[f].conn)
        /\ Serves(conn[fetch[f].conn], wire[fetch[f].conn], f, fetch[f].pc)
    BY <1>1, OwnerServed DEF FetchInv, Pending
  <2>2. Blank(conn[fetch[f].conn], wire[fetch[f].conn])
    BY <2>1 DEF Serves, Gone, Leaked
  <2>3. \A g \in Fetches \ {f} : fetch[g].pc \in Pending => fetch[g].conn # fetch[f].conn
    BY <1>1, <2>1 DEF FetchInv, PairInv, PendingOn
  <2> QED BY <2>2, <2>3 DEF Blank
<1> QED BY <1>1, FetchSafe, PTL

(* A caller of fetch() sees what RequestReply promises: its request is     *)
(* sent while the call is pending, and its promise settles once, by the    *)
(* response to that request or by a failure, whatever the pool, the expiry *)
(* timer and the server do (fetch.js:898-1203, 1594-1663).                 *)
THEOREM PoolServesCallers == Spec => KeepsFetches
<1>1. Init => CallerInv /\ Caller!Init
  BY FetchInit, CallerInit DEF CallerInv
<1>2. CallerInv /\ [Next]_vars => CallerInv' /\ [Caller!Next]_(Caller!vars)
  BY FetchNext, CallerNext DEF CallerInv, CallerStep
<1> QED BY <1>1, <1>2, PTL DEF Spec, KeepsFetches, Caller!Spec
=============================================================================
